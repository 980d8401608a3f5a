------------------------ MODULE RedisTransport_proofs ------------------------
(***************************************************************************)
(* The connections of one Redis transport, the silence after a close(),    *)
(* that no message is missed before one, and that the transport keeps its  *)
(* contract, proved for either library and any handlers, topics, messages  *)
(* and close() calls.                                                      *)
(***************************************************************************)
EXTENDS RedisTransport, TLAPS

-----------------------------------------------------------------------------
(* The inductive invariant                                                 *)

\* What a call has done so far: an idle one nothing, one in flight has its connection.
\* A handler is registered or silenced only once its call has begun, and never both.
CallsOK ==
    /\ \A h \in Handler : call[h] = "idle" => conn[h] = "none" /\ via[h] = None
    /\ \A h \in Handler : InFlight(h) => via[h] # None
    /\ \A h \in handlers \cup silenced : call[h] # "idle"
    /\ handlers \cap silenced = {}

\* A connection was quit at most once, and is not up any more if it was.
QuitsOK ==
    /\ \A c \in Handler : quits[c] = 0 \/ (quits[c] = 1 /\ conn[c] \in {"quitting", "closed"})
    /\ \A k \in Closer : quitting[k] # None => conn[quitting[k]] \in {"quitting", "closed"}

\* The field is a connection that is up, or that ioredis is bringing up, and the only one.
FieldOK ==
    /\ subscriber # None =>
          conn[subscriber] = "ready" \/ (library = "io" /\ conn[subscriber] = "connecting")
    /\ \A c \in Handler : conn[c] = "ready" => subscriber = c
    /\ library = "io" => connecting = None

\* ioredis brings up the field; node-redis brings up one connection at a time, which is
\* memoized until a close() forgets it, for the call that made it and still waits.
ConnectingOK ==
    \A c \in Handler : conn[c] = "connecting" =>
        IF library = "io" THEN subscriber = c
        ELSE /\ subscriber = None /\ call[c] = "connecting" /\ via[c] = c
             /\ \A d \in Handler : conn[d] = "connecting" => d = c
             /\ Closing \/ connecting = c

\* What is on its way was published.
WireOK == \A c \in Handler : \A n \in 1..Len(wire[c]) : wire[c][n] \in 1..Len(published)

IInv == TypeOK /\ CallsOK /\ QuitsOK /\ FieldOK /\ ConnectingOK /\ WireOK

LinksOK == QuitsOK /\ FieldOK /\ ConnectingOK

-----------------------------------------------------------------------------
(* What the steps have in common                                           *)

\* The steps of a call, a connection and a close().
Calls(h)  == Subscribe(h) \/ Proceed(h) \/ Confirm(h) \/ Refuse(h) \/ Return(h)
Link(c)   == Connected(c) \/ ConnectFails(c) \/ Dispatch(c)
Closes(k) == Close(k) \/ CloseReturns(k) \/ CloseThrows(k)

LEMMA NextCases ==
    ASSUME [Next]_vars
    PROVE  \/ \E h \in Handler : Calls(h) \/ Link(h)
           \/ \E t \in Topic : Publish(t)
           \/ \E k \in Closer : Closes(k)
           \/ UNCHANGED vars
BY DEF Next, Calls, Link, Closes

\* subscribe() in its two cases: the topic is subscribed, or it needs a connection.
Found(h) ==
    /\ TopicOf[h] \in subscribed
    /\ call' = [call EXCEPT ![h] = "returned"]
    /\ since' = [since EXCEPT ![h] = Len(published)]
    /\ UNCHANGED <<subscriber, connecting, conn, via>>

Uplink(h) == IF Reused = None THEN h ELSE Reused

Joined(h) ==
    /\ TopicOf[h] \notin subscribed
    /\ call' = [call EXCEPT ![h] = IF library = "node" /\ subscriber = None THEN "connecting"
                                                                            ELSE "subscribing"]
    /\ via' = [via EXCEPT ![h] = Uplink(h)]
    /\ conn' = IF Reused = None THEN [conn EXCEPT ![h] = "connecting"] ELSE conn
    /\ subscriber' = IF library = "io" THEN Uplink(h) ELSE subscriber
    /\ connecting' = IF library = "node" /\ subscriber = None THEN Uplink(h) ELSE connecting
    /\ UNCHANGED since

LEMMA SubscribeCases ==
    ASSUME NEW h \in Handler, Subscribe(h)
    PROVE  /\ call[h] = "idle" /\ CallersTakeTurns(h)
           /\ handlers' = handlers \cup {h} /\ subscribed' = subscribed
           /\ UNCHANGED <<library, quits, dispatches, closing, feed>>
           /\ Found(h) \/ Joined(h)
BY DEF Subscribe, Found, Joined, Uplink, SubscribedMeanwhile

LEMMA UplinkType == ASSUME TypeOK, NEW h \in Handler PROVE Uplink(h) \in Handler
BY DEF TypeOK, Uplink, Reused

-----------------------------------------------------------------------------
(* Types                                                                   *)

LEMMA SubscribeType == ASSUME TypeOK, NEW h \in Handler, Subscribe(h) PROVE TypeOK'
<1>1. /\ library' \in {"node", "io"} /\ handlers' \subseteq Handler /\ subscribed' \subseteq Topic
      /\ quits' = quits /\ dispatches' = dispatches /\ wire' = wire /\ published' = published
      /\ got' = got /\ closer' = closer /\ quitting' = quitting /\ silenced' = silenced
  BY SubscribeCases DEF TypeOK, closing, feed
<1>2. /\ call' \in [Handler -> Call]
      /\ since' \in [Handler -> Nat]
  <2>1. CASE Found(h)
    <3>1. call' \in [Handler -> Call]
      BY <2>1 DEF Found, TypeOK, Call
    <3>2. since' \in [Handler -> Nat]
      BY <2>1 DEF Found, TypeOK
    <3> QED
      BY <3>1, <3>2
  <2>2. CASE Joined(h)
    BY <2>2 DEF Joined, TypeOK, Call
  <2> QED
    BY <2>1, <2>2, SubscribeCases
<1>3. /\ via' \in [Handler -> Handler \cup {None}]
      /\ conn' \in [Handler -> {"none", "connecting", "ready", "failed", "quitting", "closed"}]
      /\ subscriber' \in Handler \cup {None} /\ connecting' \in Handler \cup {None}
  <2>0. Uplink(h) \in Handler
    BY UplinkType
  <2>1. CASE Found(h)
    BY <2>1 DEF Found, TypeOK
  <2>2. CASE Joined(h)
    BY <2>0, <2>2 DEF Joined, TypeOK
  <2> QED
    BY <2>1, <2>2, SubscribeCases
<1> QED
  BY <1>1, <1>2, <1>3 DEF TypeOK

LEMMA CallsType == ASSUME TypeOK, CallsOK, NEW h \in Handler, Calls(h) PROVE TypeOK'
<1>1. CASE Subscribe(h)
  BY <1>1, SubscribeType
<1>2. CASE Proceed(h)
  <2>1. call' \in [Handler -> Call]
    BY <1>2 DEF Proceed, TypeOK, Call
  <2> QED
    BY <1>2, <2>1 DEF Proceed, TypeOK, fields, links, closing, feed
<1>3. CASE Confirm(h)
  <2>1. via[h] \in Handler
    <3>1. InFlight(h)
      BY <1>3 DEF Confirm, InFlight
    <3> QED
      BY <3>1 DEF CallsOK, TypeOK
  <2>2. Listeners(via[h], TopicOf[h]) \in Nat /\ TopicOf[h] \in Topic
    <3>1. TopicOf[h] \in Topic
      BY HandlerAssumption
    <3>2. dispatches[via[h]] \in [Topic -> Nat]
      BY <2>1 DEF TypeOK
    <3>3. dispatches[via[h]][TopicOf[h]] \in Nat
      BY <3>1, <3>2
    <3> QED
      BY <3>1, <3>3 DEF Listeners
  <2>3. dispatches' \in [Handler -> [Topic -> Nat]]
    BY <1>3, <2>1, <2>2 DEF Confirm, TypeOK
  <2>4. call' \in [Handler -> Call]
    BY <1>3 DEF Confirm, TypeOK, Call
  <2> QED
    BY <1>3, <2>3, <2>4 DEF Confirm, TypeOK, fields, closing, feed
<1>4. CASE Refuse(h)
  <2>1. call' \in [Handler -> Call] /\ via' \in [Handler -> Handler \cup {None}]
    BY <1>4 DEF Refuse, TypeOK, Call
  <2> QED
    BY <1>4, <2>1 DEF Refuse, TypeOK, fields, links, closing, feed
<1>5. CASE Return(h)
  <2>1. call' \in [Handler -> Call] /\ via' \in [Handler -> Handler \cup {None}]
    BY <1>5 DEF Return, TypeOK, Call
  <2>2. since' \in [Handler -> Nat] /\ subscribed' \subseteq Topic
    <3>1. TopicOf[h] \in Topic /\ Len(published) \in Nat
      BY HandlerAssumption DEF TypeOK
    <3>2. since' \in [Handler -> Nat]
      BY <1>5, <3>1 DEF Return, TypeOK
    <3>3. subscribed' \subseteq Topic
      BY <1>5, <3>1 DEF Return, TypeOK
    <3> QED
      BY <3>2, <3>3
  <2> QED
    BY <1>5, <2>1, <2>2 DEF Return, TypeOK, links, closing, feed
<1> QED
  BY <1>1, <1>2, <1>3, <1>4, <1>5 DEF Calls

LEMMA DispatchType == ASSUME TypeOK, WireOK, NEW c \in Handler, Dispatch(c) PROVE TypeOK' /\ WireOK'
<1> DEFINE n == Head(wire[c])
           t == published[n]
           heard == [k \in 1..dispatches[c][t] |-> n]
<1>1. wire[c] \in Seq(Nat) /\ wire[c] # <<>>
  BY DEF Dispatch, TypeOK
<1>2. n \in Nat /\ Tail(wire[c]) \in Seq(Nat)
  BY <1>1
<1>3. 1 \in 1..Len(wire[c]) /\ n = wire[c][1]
  BY <1>1
<1>4. t \in Topic
  BY <1>3 DEF WireOK, TypeOK
<1>5. heard \in Seq(Nat)
  <2>1. dispatches[c][t] \in Nat
    BY <1>4 DEF TypeOK
  <2> QED
    BY <1>2, <2>1
<1>6. wire' \in [Handler -> Seq(Nat)] /\ wire' = [wire EXCEPT ![c] = Tail(wire[c])]
  BY <1>2 DEF Dispatch, TypeOK
<1>7. got' \in [Handler -> Seq(Nat)]
  <2>1. got' = [h \in Handler |-> IF h \in handlers /\ TopicOf[h] = t
                                  THEN got[h] \o heard ELSE got[h]]
    BY DEF Dispatch
  <2> HIDE DEF heard, t
  <2>2. \A h \in Handler : got[h] \in Seq(Nat) /\ got[h] \o heard \in Seq(Nat)
    BY <1>5 DEF TypeOK
  <2> QED
    BY <2>1, <2>2
<1>8. TypeOK'
  BY <1>6, <1>7 DEF Dispatch, TypeOK, fields, links, calls, closing
<1>9. WireOK'
  <2> SUFFICES ASSUME NEW d \in Handler, NEW m \in 1..Len(wire'[d])
               PROVE  wire'[d][m] \in 1..Len(published)
    BY DEF WireOK, Dispatch
  <2>1. CASE d = c
    <3>1. wire'[d] = Tail(wire[c])
      BY <1>6, <2>1 DEF TypeOK
    <3>2. m + 1 \in 1..Len(wire[c]) /\ wire'[d][m] = wire[c][m + 1]
      BY <1>1, <3>1
    <3> QED
      BY <3>2 DEF WireOK
  <2>2. CASE d # c
    <3>1. wire'[d] = wire[d]
      BY <1>6, <2>2 DEF TypeOK
    <3> QED
      BY <3>1 DEF WireOK
  <2> QED
    BY <2>1, <2>2
<1> QED
  BY <1>8, <1>9

LEMMA LinkType == ASSUME TypeOK, WireOK, NEW c \in Handler, Link(c) PROVE TypeOK'
<1>1. CASE Connected(c)
  <2>1. conn' \in [Handler -> {"none", "connecting", "ready", "failed", "quitting", "closed"}]
    BY <1>1 DEF Connected, TypeOK
  <2> QED
    BY <1>1, <2>1 DEF Connected, TypeOK, calls, closing, feed
<1>2. CASE ConnectFails(c)
  <2>1. conn' \in [Handler -> {"none", "connecting", "ready", "failed", "quitting", "closed"}]
    BY <1>2 DEF ConnectFails, TypeOK
  <2> QED
    BY <1>2, <2>1 DEF ConnectFails, TypeOK, fields, calls, closing, feed
<1> QED
  BY <1>1, <1>2, DispatchType DEF Link

LEMMA PublishType == ASSUME TypeOK, WireOK, NEW t \in Topic, Publish(t) PROVE TypeOK' /\ WireOK'
<1> DEFINE hears(c) == conn[c] \in {"ready", "quitting"} /\ dispatches[c][t] > 0
<1>1. /\ Len(published) + 1 \in Nat /\ published' = Append(published, t)
      /\ published' \in Seq(Topic) /\ Len(published') = Len(published) + 1
  BY DEF Publish, TypeOK
<1>2. ASSUME NEW c \in Handler
      PROVE  wire'[c] = IF hears(c) THEN Append(wire[c], Len(published) + 1) ELSE wire[c]
  BY DEF Publish
<1>3. \A c \in Handler : wire[c] \in Seq(Nat)
  BY DEF TypeOK
<1>4. wire' \in [Handler -> Seq(Nat)]
  BY <1>1, <1>3 DEF Publish
<1>5. TypeOK'
  BY <1>1, <1>4 DEF Publish, TypeOK, fields, links, calls, closing
<1>6. WireOK'
  <2> SUFFICES ASSUME NEW c \in Handler, NEW m \in 1..Len(wire'[c])
               PROVE  wire'[c][m] \in 1..Len(published')
    BY DEF WireOK
  <2>1. CASE m \in 1..Len(wire[c])
    <3>1. wire'[c][m] = wire[c][m]
      <4>1. wire[c] \in Seq(Nat)
        BY <1>3
      <4>2. Append(wire[c], Len(published) + 1)[m] = wire[c][m]
        BY <1>1, <2>1, <4>1
      <4> QED
        BY <1>2, <4>2
    <3> QED
      BY <1>1, <2>1, <3>1 DEF WireOK
  <2>2. CASE m \notin 1..Len(wire[c])
    <3>1. wire'[c][m] = Len(published) + 1
      <4>1. wire[c] \in Seq(Nat)
        BY <1>3
      <4>2. wire'[c] = Append(wire[c], Len(published) + 1)
        BY <1>2, <2>2
      <4>3. Len(wire'[c]) = Len(wire[c]) + 1
        BY <1>1, <4>1, <4>2
      <4>4. m = Len(wire[c]) + 1
        BY <2>2, <4>1, <4>3
      <4> QED
        BY <1>1, <4>1, <4>2, <4>4
    <3> QED
      BY <1>1, <3>1
  <2> QED
    BY <2>1, <2>2
<1> QED
  BY <1>5, <1>6

LEMMA GoneType ==
    ASSUME TypeOK, WireOK, NEW k \in Closer, Gone(k), published' = published
    PROVE  /\ quitting' \in [Closer -> Handler \cup {None}]
           /\ conn' \in [Handler -> {"none", "connecting", "ready", "failed", "quitting", "closed"}]
           /\ wire' \in [Handler -> Seq(Nat)] /\ WireOK'
<1>1. quitting' \in [Closer -> Handler \cup {None}]
  BY DEF Gone, TypeOK
<1>2. conn' \in [Handler -> {"none", "connecting", "ready", "failed", "quitting", "closed"}]
  BY DEF Gone, TypeOK
<1>3. ASSUME NEW c \in Handler
      PROVE  wire'[c] = (IF c = quitting[k] THEN <<>> ELSE wire[c]) /\ wire[c] \in Seq(Nat)
  BY DEF Gone, TypeOK
<1>4. wire' \in [Handler -> Seq(Nat)]
  BY <1>3 DEF Gone
<1>5. WireOK'
  BY <1>3 DEF WireOK
<1> QED
  BY <1>1, <1>2, <1>4, <1>5

LEMMA ClosesType == ASSUME TypeOK, WireOK, NEW k \in Closer, Closes(k) PROVE TypeOK' /\ WireOK'
<1>1. CASE Close(k)
  <2>1. closer' \in [Closer -> {"idle", "quitting", "detached", "closed", "rejected"}]
    <3>1. closer' = [closer EXCEPT ![k] = IF subscriber = None THEN "detached" ELSE "quitting"]
      BY <1>1 DEF Close
    <3> QED
      BY <3>1 DEF TypeOK
  <2>2. quitting' \in [Closer -> Handler \cup {None}]
    BY <1>1 DEF Close, TypeOK
  <2>3. conn' \in [Handler -> {"none", "connecting", "ready", "failed", "quitting", "closed"}]
    BY <1>1 DEF Close, TypeOK
  <2>4. quits' \in [Handler -> Nat]
    <3>1. CASE subscriber = None
      BY <1>1, <3>1 DEF Close, TypeOK
    <3>2. CASE subscriber # None
      <4>1. quits[subscriber] + 1 \in Nat
        BY <3>2 DEF TypeOK
      <4>2. quits' = [quits EXCEPT ![subscriber] = quits[subscriber] + 1]
        BY <1>1, <3>2 DEF Close
      <4> QED
        BY <3>2, <4>1, <4>2 DEF TypeOK
    <3> QED
      BY <3>1, <3>2
  <2>5. TypeOK'
    BY <1>1, <2>1, <2>2, <2>3, <2>4 DEF Close, TypeOK, SubscriberDetached, calls, feed
  <2> QED
    BY <1>1, <2>5 DEF Close, WireOK, feed
<1>2. CASE CloseReturns(k)
  <2>1. closer' \in [Closer -> {"idle", "quitting", "detached", "closed", "rejected"}]
    BY <1>2 DEF CloseReturns, TypeOK
  <2>2. Gone(k) /\ published' = published
    BY <1>2 DEF CloseReturns
  <2> QED
    BY <1>2, <2>1, <2>2, GoneType DEF CloseReturns, HandlersLeft, TypeOK, calls
<1>3. CASE CloseThrows(k)
  <2>1. closer' \in [Closer -> {"idle", "quitting", "detached", "closed", "rejected"}]
    BY <1>3 DEF CloseThrows, TypeOK
  <2>2. Gone(k) /\ published' = published
    BY <1>3 DEF CloseThrows
  <2> QED
    BY <1>3, <2>1, <2>2, GoneType DEF CloseThrows, TypeOK, fields, calls
<1> QED
  BY <1>1, <1>2, <1>3 DEF Closes

LEMMA NextType == IInv /\ [Next]_vars => TypeOK' /\ WireOK'
<1> SUFFICES ASSUME IInv, [Next]_vars PROVE TypeOK' /\ WireOK'
  OBVIOUS
<1>0. TypeOK /\ CallsOK /\ WireOK
  BY DEF IInv
<1>1. CASE UNCHANGED vars
  BY <1>0, <1>1 DEF vars, fields, links, calls, closing, feed, TypeOK, WireOK
<1>2. ASSUME NEW h \in Handler, Calls(h) PROVE TypeOK' /\ WireOK'
  <2>1. feed' = feed
    BY <1>2, SubscribeCases DEF Calls, Proceed, Confirm, Refuse, Return
  <2> QED
    BY <1>0, <1>2, <2>1, CallsType DEF WireOK, feed
<1>3. ASSUME NEW c \in Handler, Link(c) PROVE TypeOK' /\ WireOK'
  <2>1. CASE Connected(c) \/ ConnectFails(c)
    BY <1>0, <1>3, <2>1, LinkType DEF Connected, ConnectFails, WireOK, feed
  <2> QED
    BY <1>0, <1>3, <2>1, DispatchType DEF Link
<1> QED
  BY <1>0, <1>1, <1>2, <1>3, PublishType, ClosesType, NextCases

-----------------------------------------------------------------------------
(* Calls and handlers                                                      *)

\* A step of a call that had begun changes that call alone.
LEMMA LaterCall ==
    ASSUME TypeOK, NEW h \in Handler, Proceed(h) \/ Confirm(h) \/ Refuse(h) \/ Return(h)
    PROVE  /\ \A g \in Handler : g # h => call'[g] = call[g] /\ via'[g] = via[g]
           /\ InFlight(h) /\ call'[h] \in Call \ {"idle", "connecting"}
           /\ via'[h] = via[h] \/ ~InFlight(h)'
           /\ call[h] = "connecting" => conn[via[h]] # "connecting"
           /\ UNCHANGED <<library, handlers, subscriber, connecting, conn, quits, closing>>
<1>1. CASE Proceed(h)
  BY <1>1 DEF Proceed, TypeOK, InFlight, Call, fields, links
<1>2. CASE Confirm(h)
  BY <1>2 DEF Confirm, TypeOK, InFlight, Call, fields
<1>3. CASE Refuse(h)
  BY <1>3 DEF Refuse, TypeOK, InFlight, Call, fields, links
<1>4. CASE Return(h)
  BY <1>4 DEF Return, TypeOK, InFlight, Call, fields, links
<1> QED
  BY <1>1, <1>2, <1>3, <1>4

\* subscribe() changes its own call and at most its own connection.
LEMMA FirstCall ==
    ASSUME TypeOK, NEW h \in Handler, Subscribe(h)
    PROVE  /\ \A g \in Handler : g # h => /\ call'[g] = call[g] /\ via'[g] = via[g]
                                          /\ conn'[g] = conn[g]
           /\ call'[h] \in {"returned", "connecting", "subscribing"}
           /\ call'[h] # "returned" => via'[h] \in Handler
<1>1. CASE Found(h)
  BY <1>1 DEF Found, TypeOK
<1>2. CASE Joined(h)
  BY <1>2, UplinkType DEF Joined, TypeOK
<1> QED
  BY <1>1, <1>2, SubscribeCases

LEMMA CallsCalls == ASSUME TypeOK, CallsOK, NEW h \in Handler, Calls(h) PROVE CallsOK'
<1>1. CASE Subscribe(h)
  <2>1. \A g \in Handler : call'[g] = "idle" => conn'[g] = "none" /\ via'[g] = None
    BY <1>1, FirstCall DEF CallsOK
  <2>2. \A g \in Handler : InFlight(g)' => via'[g] # None
    <3> SUFFICES ASSUME NEW g \in Handler, InFlight(g)' PROVE via'[g] # None
      OBVIOUS
    <3>1. CASE g = h
      BY <1>1, <3>1, FirstCall, HandlerAssumption DEF InFlight
    <3>2. CASE g # h
      BY <1>1, <3>2, FirstCall DEF CallsOK, InFlight
    <3> QED
      BY <3>1, <3>2
  <2>3. handlers' = handlers \cup {h} /\ silenced' = silenced /\ call[h] = "idle"
    BY <1>1, SubscribeCases DEF closing
  <2>4. \A g \in handlers' \cup silenced' : call'[g] # "idle"
    <3> SUFFICES ASSUME NEW g \in handlers \cup silenced \cup {h} PROVE call'[g] # "idle"
      BY <2>3
    <3>1. g \in Handler
      BY DEF TypeOK
    <3>2. CASE g = h
      BY <1>1, <3>2, FirstCall
    <3>3. CASE g # h
      <4>1. call[g] # "idle" /\ call'[g] = call[g]
        BY <1>1, <3>1, <3>3, FirstCall DEF CallsOK
      <4> QED
        BY <4>1
    <3> QED
      BY <3>2, <3>3
  <2>5. handlers' \cap silenced' = {}
    BY <2>3 DEF CallsOK
  <2> QED
    BY <2>1, <2>2, <2>4, <2>5 DEF CallsOK
<1>2. CASE Proceed(h) \/ Confirm(h) \/ Refuse(h) \/ Return(h)
  <2>1. \A g \in Handler : call'[g] = "idle" => conn'[g] = "none" /\ via'[g] = None
    BY <1>2, LaterCall DEF CallsOK
  <2>2. \A g \in Handler : InFlight(g)' => via'[g] # None
    <3> SUFFICES ASSUME NEW g \in Handler, InFlight(g)' PROVE via'[g] # None
      OBVIOUS
    <3>1. CASE g = h
      BY <1>2, <3>1, LaterCall DEF CallsOK
    <3>2. CASE g # h
      BY <1>2, <3>2, LaterCall DEF CallsOK, InFlight
    <3> QED
      BY <3>1, <3>2
  <2>3. handlers' = handlers /\ silenced' = silenced
    BY <1>2, LaterCall DEF closing
  <2>4. \A g \in handlers' \cup silenced' : call'[g] # "idle"
    BY <1>2, <2>3, LaterCall DEF CallsOK, TypeOK
  <2> QED
    BY <2>1, <2>2, <2>3, <2>4 DEF CallsOK
<1> QED
  BY <1>1, <1>2 DEF Calls

\* A step that leaves the calls and touches no connection that was not made.
LEMMA CallsKept ==
    ASSUME CallsOK, UNCHANGED calls,
           \A c \in Handler : conn[c] = "none" => conn'[c] = "none",
           handlers' \cup silenced' \subseteq handlers \cup silenced,
           handlers' \cap silenced' = {}
    PROVE  CallsOK'
BY DEF CallsOK, InFlight, calls

LEMMA NextCalls == IInv /\ [Next]_vars => CallsOK'
<1> SUFFICES ASSUME IInv, [Next]_vars PROVE CallsOK'
  OBVIOUS
<1>0. TypeOK /\ CallsOK
  BY DEF IInv
<1>1. CASE UNCHANGED vars
  BY <1>0, <1>1 DEF vars, links, calls, closing, fields, CallsOK, InFlight
<1>2. ASSUME NEW c \in Handler, Link(c) PROVE CallsOK'
  <2>1. UNCHANGED <<calls, handlers, silenced>>
    BY <1>2 DEF Link, Connected, ConnectFails, Dispatch, fields, closing
  <2>2. \A d \in Handler : conn[d] = "none" => conn'[d] = "none"
    BY <1>0, <1>2 DEF Link, Connected, ConnectFails, Dispatch, links, TypeOK
  <2> QED
    BY <1>0, <2>1, <2>2, CallsKept DEF CallsOK
<1>3. ASSUME NEW t \in Topic, Publish(t) PROVE CallsOK'
  BY <1>0, <1>3 DEF Publish, CallsOK, InFlight, fields, links, calls, closing
<1>4. ASSUME NEW k \in Closer, Closes(k) PROVE CallsOK'
  <2>1. UNCHANGED calls
    BY <1>4 DEF Closes, Close, CloseReturns, CloseThrows
  <2>2. \A d \in Handler : conn[d] = "none" => conn'[d] = "none"
    <3>1. CASE Close(k)
      <4>1. subscriber # None => conn[subscriber] # "none"
        BY DEF IInv, FieldOK
      <4> QED
        BY <1>0, <3>1, <4>1 DEF Close, TypeOK
    <3>2. CASE CloseReturns(k) \/ CloseThrows(k)
      <4>1. quitting[k] # None => conn[quitting[k]] # "none"
        BY DEF IInv, QuitsOK
      <4> QED
        BY <1>0, <3>2, <4>1, HandlerAssumption DEF CloseReturns, CloseThrows, Gone
    <3> QED
      BY <1>4, <3>1, <3>2 DEF Closes
  <2>3. /\ handlers' \cup silenced' \subseteq handlers \cup silenced
        /\ handlers' \cap silenced' = {}
    BY <1>0, <1>4 DEF Closes, Close, CloseReturns, CloseThrows, HandlersLeft, CallsOK, fields
  <2> QED
    BY <1>0, <2>1, <2>2, <2>3, CallsKept
<1> QED
  BY <1>0, <1>1, <1>2, <1>3, <1>4, CallsCalls, NextCases

-----------------------------------------------------------------------------
(* Connections                                                             *)

LEMMA SubscribeLinks == ASSUME IInv, NEW h \in Handler, Subscribe(h) PROVE LinksOK'
<1>0. TypeOK /\ CallsOK /\ QuitsOK /\ FieldOK /\ ConnectingOK
  BY DEF IInv
<1>1. UNCHANGED <<library, quits, closer, quitting>> /\ call[h] = "idle" /\ conn[h] = "none"
  BY <1>0, SubscribeCases DEF closing, CallsOK
<1>2. Closing' = Closing
  BY <1>1 DEF Closing
<1>3. \A g \in Handler : g # h => call'[g] = call[g] /\ via'[g] = via[g]
  BY <1>0, FirstCall
<1>4. CASE UNCHANGED <<subscriber, connecting, conn>>
  <2>1. QuitsOK' /\ FieldOK'
    BY <1>0, <1>1, <1>4 DEF QuitsOK, FieldOK
  <2>2. ConnectingOK'
    BY <1>0, <1>1, <1>2, <1>3, <1>4 DEF ConnectingOK
  <2> QED
    BY <2>1, <2>2 DEF LinksOK
\* A connection that is memoized or up is reused.
<1>5. CASE Joined(h) /\ Reused # None
  <2>1. conn' = conn /\ Uplink(h) = Reused
    BY <1>5 DEF Joined, Uplink
  <2>2. subscriber' = subscriber
    BY <1>0, <1>5, <2>1 DEF Joined, Reused, FieldOK, TypeOK
  <2>3. connecting' = connecting
    BY <1>0, <1>5, <2>1 DEF Joined, Reused, FieldOK, TypeOK
  <2> QED
    BY <1>4, <2>1, <2>2, <2>3
<1>6. CASE Joined(h) /\ Reused = None
  <2>1. subscriber = None /\ connecting = None /\ Uplink(h) = h
    BY <1>6 DEF Reused, Uplink
  \* Nobody else connects: before a close() the connection would be memoized, after one
  \* its call would be in flight, and there are no new calls then.
  <2>2. \A c \in Handler : conn[c] # "connecting"
    <3> SUFFICES ASSUME NEW c \in Handler, conn[c] = "connecting" PROVE FALSE
      OBVIOUS
    <3>1. call[c] = "connecting" /\ Closing
      BY <1>0, <2>1, HandlerAssumption DEF ConnectingOK
    <3>2. InFlight(c)
      BY <3>1 DEF InFlight
    <3> QED
      BY <3>1, <3>2, SubscribeCases DEF CallersTakeTurns
  <2>3. \A c \in Handler : conn'[c] = IF c = h THEN "connecting" ELSE conn[c]
    BY <1>0, <1>6 DEF Joined, TypeOK
  <2>4. \A c \in Handler : conn[c] # "ready"
    BY <1>0, <2>1, HandlerAssumption DEF FieldOK
  <2>5. CASE library = "io"
    <3>1. subscriber' = h /\ connecting' = None
      BY <1>6, <2>1, <2>5 DEF Joined
    <3> QED
      <4>1. QuitsOK'
        BY <1>0, <1>1, <2>3 DEF QuitsOK, TypeOK
      <4>2. FieldOK'
        BY <1>1, <2>3, <2>4, <2>5, <3>1 DEF FieldOK
      <4>3. ConnectingOK'
        BY <1>1, <2>2, <2>3, <2>5, <3>1 DEF ConnectingOK
      <4> QED
        BY <4>1, <4>2, <4>3 DEF LinksOK
  <2>6. CASE library = "node"
    <3>1. /\ subscriber' = None /\ connecting' = h
          /\ call'[h] = "connecting" /\ via'[h] = h
      BY <1>0, <1>6, <2>1, <2>6 DEF Joined, TypeOK
    <3>2. QuitsOK'
      BY <1>0, <1>1, <2>3 DEF QuitsOK, TypeOK
    <3>3. FieldOK'
      BY <1>1, <2>3, <2>4, <2>6, <3>1 DEF FieldOK
    <3>4. ConnectingOK'
      BY <1>1, <2>2, <2>3, <2>6, <3>1 DEF ConnectingOK
    <3> QED
      BY <3>2, <3>3, <3>4 DEF LinksOK
  <2> QED
    BY <1>0, <2>5, <2>6 DEF TypeOK
<1> QED
  BY <1>4, <1>5, <1>6, SubscribeCases DEF Found

LEMMA CallsLinks == ASSUME IInv, NEW h \in Handler, Calls(h) PROVE LinksOK'
<1>1. CASE Subscribe(h)
  BY <1>1, SubscribeLinks
<1>2. CASE Proceed(h) \/ Confirm(h) \/ Refuse(h) \/ Return(h)
  <2>0. TypeOK /\ QuitsOK /\ FieldOK /\ ConnectingOK
    BY DEF IInv
  <2>1. UNCHANGED <<library, subscriber, connecting, conn, quits, closer, quitting>>
    BY <1>2, <2>0, LaterCall DEF closing
  <2>2. QuitsOK' /\ FieldOK' /\ Closing' = Closing
    BY <2>0, <2>1 DEF QuitsOK, FieldOK, Closing
  <2>3. ConnectingOK'
    <3> SUFFICES ASSUME NEW c \in Handler, conn[c] = "connecting", library = "node"
                 PROVE  call'[c] = "connecting" /\ via'[c] = c
      BY <2>0, <2>1, <2>2 DEF ConnectingOK, TypeOK
    <3>1. call[c] = "connecting" /\ via[c] = c
      BY <2>0 DEF ConnectingOK
    <3>2. c # h
      BY <1>2, <2>0, <3>1 DEF Proceed, Confirm, Refuse, Return
    <3> QED
      BY <1>2, <2>0, <3>1, <3>2, LaterCall
  <2> QED
    BY <2>2, <2>3 DEF LinksOK
<1> QED
  BY <1>1, <1>2 DEF Calls

LEMMA LinkLinks == ASSUME IInv, NEW c \in Handler, Link(c) PROVE LinksOK'
<1>0. TypeOK /\ QuitsOK /\ FieldOK /\ ConnectingOK
  BY DEF IInv
<1>1. UNCHANGED <<library, connecting, quits, calls, closer, quitting>> /\ Closing' = Closing
  BY DEF Link, Connected, ConnectFails, Dispatch, fields, links, closing, Closing
<1>2. CASE Connected(c)
  <2>1. \A d \in Handler : conn'[d] = IF d = c THEN "ready" ELSE conn[d]
    BY <1>0, <1>2 DEF Connected, TypeOK
  \* The only connection on its way, be it the field of ioredis or node-redis's.
  <2>2. conn[c] = "connecting" /\ \A d \in Handler : conn[d] = "connecting" => d = c
    BY <1>0, <1>2 DEF Connected, ConnectingOK
  <2>3. subscriber' = c /\ \A d \in Handler : conn[d] # "ready"
    BY <1>0, <1>2, <2>2, HandlerAssumption DEF Connected, ConnectingOK, FieldOK, TypeOK
  <2>4. QuitsOK'
    <3>1. \A d \in Handler : conn[d] \in {"quitting", "closed"} => conn'[d] = conn[d]
      BY <2>1, <2>2
    <3>2. \A k \in Closer : quitting[k] # None => quitting[k] \in Handler
      BY <1>0 DEF TypeOK
    <3> QED
      BY <1>0, <1>1, <3>1, <3>2 DEF QuitsOK
  <2>5. FieldOK'
    BY <1>0, <1>1, <2>1, <2>3 DEF FieldOK
  <2>6. ConnectingOK'
    BY <2>1, <2>2 DEF ConnectingOK
  <2> QED
    BY <2>4, <2>5, <2>6 DEF LinksOK
<1>3. CASE ConnectFails(c)
  <2>1. \A d \in Handler : conn'[d] = IF d = c THEN "failed" ELSE conn[d]
    BY <1>0, <1>3 DEF ConnectFails, TypeOK
  <2>2. library = "node" /\ conn[c] = "connecting" /\ subscriber' = subscriber
    BY <1>3 DEF ConnectFails, fields
  <2>3. subscriber = None /\ \A d \in Handler : conn[d] = "connecting" => d = c
    BY <1>0, <2>2 DEF ConnectingOK
  <2>4. QuitsOK'
    BY <1>0, <1>1, <2>1, <2>2 DEF QuitsOK, TypeOK
  <2>5. FieldOK'
    BY <1>0, <1>1, <2>1, <2>2, <2>3 DEF FieldOK
  <2>6. ConnectingOK'
    BY <2>1, <2>3 DEF ConnectingOK
  <2> QED
    BY <2>4, <2>5, <2>6 DEF LinksOK
<1>4. CASE Dispatch(c)
  <2>1. UNCHANGED <<subscriber, conn, quits>>
    BY <1>4 DEF Dispatch, fields, links
  <2>2. QuitsOK' /\ FieldOK'
    BY <1>0, <1>1, <2>1 DEF QuitsOK, FieldOK
  <2>3. ConnectingOK'
    BY <1>0, <1>1, <2>1 DEF ConnectingOK, calls
  <2> QED
    BY <2>2, <2>3 DEF LinksOK
<1> QED
  BY <1>2, <1>3, <1>4 DEF Link

LEMMA CloseLinks == ASSUME IInv, NEW k \in Closer, Close(k) PROVE LinksOK'
<1>0. TypeOK /\ QuitsOK /\ FieldOK /\ ConnectingOK
  BY DEF IInv
<1>1. /\ subscriber' = None /\ connecting' = None /\ UNCHANGED <<library, calls>>
      /\ \A j \in Closer : quitting'[j] = IF j = k THEN subscriber ELSE quitting[j]
  BY <1>0 DEF Close, SubscriberDetached, TypeOK
<1>2. Closing'
  BY <1>0 DEF Close, Closing, TypeOK
<1>3. /\ \A c \in Handler : conn'[c] = IF c = subscriber THEN "quitting" ELSE conn[c]
      /\ \A c \in Handler : quits'[c] = IF c = subscriber THEN quits[c] + 1 ELSE quits[c]
  <2>1. conn \in [Handler -> {"none", "connecting", "ready", "failed", "quitting", "closed"}]
        /\ quits \in [Handler -> Nat]
    BY <1>0 DEF TypeOK
  <2>2. CASE subscriber = None
    BY <2>2, HandlerAssumption DEF Close
  <2>3. CASE subscriber # None
    <3>1. conn' = [conn EXCEPT ![subscriber] = "quitting"]
          /\ quits' = [quits EXCEPT ![subscriber] = @ + 1]
      BY <2>3 DEF Close
    <3> QED
      BY <2>1, <3>1
  <2> QED
    BY <2>2, <2>3
<1>4. QuitsOK'
  <2>1. \A c \in Handler :
            quits'[c] = 0 \/ (quits'[c] = 1 /\ conn'[c] \in {"quitting", "closed"})
    <3> SUFFICES ASSUME NEW c \in Handler
                 PROVE  quits'[c] = 0 \/ (quits'[c] = 1 /\ conn'[c] \in {"quitting", "closed"})
      OBVIOUS
    <3>1. CASE c = subscriber
      <4>1. conn[c] \in {"ready", "connecting"}
        BY <1>0, <3>1, HandlerAssumption DEF FieldOK
      <4>2. quits[c] = 0
        BY <1>0, <4>1 DEF QuitsOK
      <4> QED
        BY <1>3, <3>1, <4>2
    <3>2. CASE c # subscriber
      BY <1>0, <1>3, <3>2 DEF QuitsOK
    <3> QED
      BY <3>1, <3>2
  <2>2. ASSUME NEW j \in Closer, quitting'[j] # None
        PROVE  conn'[quitting'[j]] \in {"quitting", "closed"}
    <3>1. CASE j = k
      BY <1>0, <1>1, <1>3, <2>2, <3>1 DEF TypeOK
    <3>2. CASE j # k
      <4>1. quitting'[j] = quitting[j] /\ quitting[j] \in Handler
        BY <1>0, <1>1, <2>2, <3>2 DEF TypeOK
      <4>2. conn[quitting[j]] \in {"quitting", "closed"}
        BY <1>0, <2>2, <4>1 DEF QuitsOK
      <4> QED
        BY <1>3, <4>1, <4>2
    <3> QED
      BY <3>1, <3>2
  <2> QED
    BY <2>1, <2>2 DEF QuitsOK
<1>5. FieldOK'
  BY <1>0, <1>1, <1>3 DEF FieldOK
<1>6. ConnectingOK'
  <2> SUFFICES ASSUME NEW c \in Handler, conn'[c] = "connecting"
               PROVE  /\ library = "node" /\ call[c] = "connecting" /\ via[c] = c
                      /\ \A d \in Handler : conn'[d] = "connecting" => d = c
    BY <1>0, <1>1, <1>2 DEF ConnectingOK, calls, TypeOK
  <2>1. conn[c] = "connecting" /\ c # subscriber
    BY <1>3
  <2> QED
    BY <1>0, <1>3, <2>1 DEF ConnectingOK, TypeOK
<1> QED
  BY <1>4, <1>5, <1>6 DEF LinksOK

LEMMA GoneLinks ==
    ASSUME IInv, NEW k \in Closer, CloseReturns(k) \/ CloseThrows(k)
    PROVE  LinksOK'
<1>0. TypeOK /\ QuitsOK /\ FieldOK /\ ConnectingOK
  BY DEF IInv
<1>1. /\ UNCHANGED <<library, subscriber, connecting, quits, calls>>
      /\ \A j \in Closer : quitting'[j] = IF j = k THEN None ELSE quitting[j]
      /\ \A c \in Handler : conn'[c] = IF c = quitting[k] THEN "closed" ELSE conn[c]
  BY <1>0 DEF CloseReturns, CloseThrows, Gone, fields, TypeOK
<1>2. Closing'
  BY <1>0 DEF CloseReturns, CloseThrows, Closing, TypeOK
\* What is gone was being quit: neither the field nor coming up.
<1>3. \A c \in Handler : c = quitting[k] => conn[c] \in {"quitting", "closed"}
  BY <1>0, HandlerAssumption DEF QuitsOK
<1>4. QuitsOK'
  BY <1>0, <1>1, <1>3 DEF QuitsOK, TypeOK
<1>5. FieldOK'
  BY <1>0, <1>1, <1>3 DEF FieldOK, TypeOK
<1>6. ConnectingOK'
  BY <1>0, <1>1, <1>2, <1>3 DEF ConnectingOK, calls
<1> QED
  BY <1>4, <1>5, <1>6 DEF LinksOK

LEMMA NextLinks == IInv /\ [Next]_vars => LinksOK'
<1> SUFFICES ASSUME IInv, [Next]_vars PROVE LinksOK'
  OBVIOUS
<1>0. QuitsOK /\ FieldOK /\ ConnectingOK
  BY DEF IInv
<1>1. CASE UNCHANGED vars
  BY <1>0, <1>1 DEF vars, links, calls, closing, fields, LinksOK, QuitsOK, FieldOK, ConnectingOK,
                    Closing
<1>2. ASSUME NEW t \in Topic, Publish(t) PROVE LinksOK'
  BY <1>0, <1>2 DEF Publish, LinksOK, QuitsOK, FieldOK, ConnectingOK, Closing, fields, links, calls,
                    closing
<1> QED
  BY <1>1, <1>2, CallsLinks, LinkLinks, CloseLinks, GoneLinks, NextCases DEF Closes

LEMMA InitIInv == Init => IInv
<1> SUFFICES ASSUME Init PROVE IInv
  OBVIOUS
<1>1. TypeOK
  BY DEF Init, TypeOK, Call
<1>2. CallsOK
  BY DEF Init, CallsOK, InFlight
<1>3. QuitsOK /\ FieldOK /\ ConnectingOK
  BY DEF Init, QuitsOK, FieldOK, ConnectingOK
<1>4. WireOK
  BY DEF Init, WireOK
<1> QED
  BY <1>1, <1>2, <1>3, <1>4 DEF IInv

LEMMA NextIInv == IInv /\ [Next]_vars => IInv'
BY NextType, NextCalls, NextLinks DEF IInv, LinksOK

-----------------------------------------------------------------------------
(* One connection and one listener per topic                               *)

\* A connection on which a topic is heard, or is about to be.
Uses(c, t) == dispatches[c][t] > 0 \/ \E h \in Handler : TopicOf[h] = t /\ via[h] = c

\* A topic has one connection, and before a close() there is but one.
UsesOK ==
    /\ \A c, d \in Handler, t \in Topic : Uses(c, t) /\ Uses(d, t) => c = d
    /\ \A c \in Handler, t \in Topic : Uses(c, t) =>
          /\ \E g \in Handler : TopicOf[g] = t /\ call[g] # "idle"
          /\ Closing \/ c = Reused

\* A topic has at most one listener on a connection: node-redis adds one when a call is
\* confirmed, and then the call is in flight, the topic subscribed or the transport closed.
OnceOK ==
    /\ \A c \in Handler, t \in Topic : dispatches[c][t] \in {0, 1}
    /\ library = "node" =>
          /\ \A g, h \in Handler :
                InFlight(g) /\ InFlight(h) /\ TopicOf[g] = TopicOf[h] => g = h
          /\ \A h, c \in Handler :
                call[h] \in {"connecting", "subscribing"} => dispatches[c][TopicOf[h]] = 0
          /\ \A c \in Handler, t \in Topic : dispatches[c][t] = 1 =>
                \/ t \in subscribed \/ Closing
                \/ \E g \in Handler : InFlight(g) /\ TopicOf[g] = t

LEMMA UsesKept ==
    ASSUME UsesOK,
           \A c \in Handler, t \in Topic : Uses(c, t)' => Uses(c, t),
           \A g \in Handler : call[g] # "idle" => call'[g] # "idle",
           Closing' \/ (~Closing /\ \A c \in Handler : c = Reused => c = Reused')
    PROVE  UsesOK'
BY DEF UsesOK

LEMMA TopicType == \A h \in Handler : TopicOf[h] \in Topic
BY HandlerAssumption

LEMMA SubscribeUses ==
    ASSUME IInv, UsesOK, OnceOK, NEW h \in Handler, Subscribe(h)
    PROVE  UsesOK' /\ OnceOK'
<1>0. TypeOK /\ CallsOK /\ FieldOK /\ ConnectingOK
  BY DEF IInv
<1>1. /\ UNCHANGED <<library, dispatches, subscribed>> /\ Closing' = Closing
      /\ call[h] = "idle" /\ via[h] = None /\ CallersTakeTurns(h)
  BY <1>0, SubscribeCases DEF closing, CallsOK, Closing
<1>2. /\ \A g \in Handler : g # h => call'[g] = call[g] /\ via'[g] = via[g]
      /\ call'[h] \in {"returned", "connecting", "subscribing"}
  BY <1>0, <1>1, FirstCall
<1>3. \A g \in Handler : call[g] # "idle" => call'[g] # "idle"
  BY <1>1, <1>2
<1>4. \A g \in Handler : InFlight(g) => InFlight(g)'
  BY <1>1, <1>2 DEF InFlight
<1>5. CASE Found(h)
  <2>1. UNCHANGED <<via, subscriber, connecting>> /\ call'[h] = "returned"
    BY <1>0, <1>5 DEF Found, TypeOK
  <2>2. \A g \in Handler : InFlight(g)' => InFlight(g)
    BY <1>2, <2>1 DEF InFlight
  <2>3. \A c \in Handler, t \in Topic : Uses(c, t)' => Uses(c, t)
    BY <1>1, <2>1 DEF Uses
  <2>4. Reused' = Reused
    BY <2>1 DEF Reused
  <2>5. UsesOK'
    BY <1>1, <1>3, <2>3, <2>4, UsesKept
  <2>6. \A g \in Handler :
            call'[g] \in {"connecting", "subscribing"} => call[g] \in {"connecting", "subscribing"}
    BY <1>2, <2>1
  <2>7. OnceOK'
    BY <1>1, <1>4, <2>2, <2>6 DEF OnceOK
  <2> QED
    BY <2>5, <2>7
<1>6. CASE Joined(h)
  <2>1. Uplink(h) \in Handler /\ via'[h] = Uplink(h) /\ TopicOf[h] \notin subscribed
    BY <1>0, <1>6, UplinkType DEF Joined, TypeOK
  <2>2. Reused' = Uplink(h) /\ (Reused # None => Uplink(h) = Reused)
    <3>1. Uplink(h) # None
      BY <2>1, HandlerAssumption
    <3>2. CASE library = "io"
      BY <1>6, <3>1, <3>2 DEF Joined, Reused, Uplink
    <3>3. CASE library = "node" /\ subscriber = None
      BY <1>6, <3>1, <3>3 DEF Joined, Reused, Uplink
    <3>4. CASE library = "node" /\ subscriber # None
      BY <1>6, <3>1, <3>4 DEF Joined, Reused, Uplink
    <3> QED
      BY <1>0, <3>2, <3>3, <3>4 DEF TypeOK
  <2>3. ASSUME NEW c \in Handler, NEW t \in Topic, Uses(c, t)'
        PROVE  Uses(c, t) \/ (c = Uplink(h) /\ t = TopicOf[h])
    BY <1>1, <1>2, <2>1, <2>3 DEF Uses
  \* Whoever uses the topic already does so before any close(), through the field.
  <2>4. ASSUME NEW c \in Handler, Uses(c, TopicOf[h]) PROVE ~Closing /\ c = Uplink(h)
    <3>1. \E g \in Handler : TopicOf[g] = TopicOf[h] /\ call[g] # "idle"
      BY <2>4, TopicType DEF UsesOK
    <3>2. ~Closing
      BY <1>1, <3>1 DEF CallersTakeTurns
    <3>3. c = Reused
      BY <2>4, <3>2, TopicType DEF UsesOK
    <3>4. Reused # None
      BY <3>3, HandlerAssumption
    <3> QED
      BY <2>2, <3>2, <3>3, <3>4
  <2>5. ASSUME NEW c \in Handler, NEW d \in Handler, NEW t \in Topic, Uses(c, t)', Uses(d, t)'
        PROVE  c = d
    <3>1. CASE t = TopicOf[h]
      BY <2>3, <2>4, <2>5, <3>1
    <3>2. CASE t # TopicOf[h]
      BY <2>3, <2>5, <3>2 DEF UsesOK
    <3> QED
      BY <3>1, <3>2
  <2>6. ASSUME NEW c \in Handler, NEW t \in Topic, Uses(c, t)'
        PROVE  /\ \E g \in Handler : TopicOf[g] = t /\ call'[g] # "idle"
               /\ Closing \/ c = Reused'
    <3>1. CASE Uses(c, t)
      <4>1. \E g \in Handler : TopicOf[g] = t /\ call[g] # "idle"
        BY <3>1 DEF UsesOK
      <4>2. Closing \/ c = Reused
        BY <3>1 DEF UsesOK
      <4> QED
        BY <1>3, <2>2, <4>1, <4>2, HandlerAssumption
    <3>2. CASE c = Uplink(h) /\ t = TopicOf[h]
      BY <1>2, <2>2, <3>2
    <3> QED
      BY <2>3, <2>6, <3>1, <3>2
  <2>7. UsesOK'
    BY <1>1, <2>5, <2>6 DEF UsesOK
  <2>8. ASSUME library = "node", NEW g \in Handler, InFlight(g) PROVE TopicOf[g] # TopicOf[h]
    BY <1>1, <2>8 DEF CallersTakeTurns
  <2>9. ASSUME library = "node", NEW g \in Handler, NEW f \in Handler,
               InFlight(g)', InFlight(f)', TopicOf[g] = TopicOf[f]
        PROVE  g = f
    <3>1. \A d \in Handler : d # h => (InFlight(d)' <=> InFlight(d))
      BY <1>2 DEF InFlight
    <3> QED
      BY <2>8, <2>9, <3>1 DEF OnceOK
  <2>10. ASSUME library = "node", NEW c \in Handler PROVE dispatches[c][TopicOf[h]] = 0
    <3>1. ASSUME dispatches[c][TopicOf[h]] = 1 PROVE FALSE
      <4>1. Uses(c, TopicOf[h])
        BY <3>1 DEF Uses
      <4>2. ~Closing
        BY <2>4, <4>1
      <4>3. \E g \in Handler : InFlight(g) /\ TopicOf[g] = TopicOf[h]
        BY <2>1, <2>10, <3>1, <4>2, TopicType DEF OnceOK
      <4> QED
        BY <2>8, <2>10, <4>3
    <3> QED
      BY <3>1, TopicType DEF OnceOK
  <2>11. ASSUME library = "node", NEW g \in Handler, NEW c \in Handler,
                call'[g] \in {"connecting", "subscribing"}
         PROVE  dispatches[c][TopicOf[g]] = 0
    <3>1. CASE g = h
      BY <2>10, <2>11, <3>1
    <3>2. CASE g # h
      BY <1>2, <2>11, <3>2 DEF OnceOK
    <3> QED
      BY <3>1, <3>2
  <2>12. OnceOK'
    BY <1>1, <1>4, <2>9, <2>11 DEF OnceOK
  <2> QED
    BY <2>7, <2>12
<1> QED
  BY <1>1, <1>5, <1>6, SubscribeCases

LEMMA LaterUses ==
    ASSUME IInv, UsesOK, OnceOK, NEW h \in Handler,
           Proceed(h) \/ Confirm(h) \/ Refuse(h) \/ Return(h)
    PROVE  UsesOK' /\ OnceOK'
<1>0. TypeOK /\ CallsOK
  BY DEF IInv
<1>1. /\ UNCHANGED <<library, subscriber, connecting>>
      /\ Closing' = Closing /\ Reused' = Reused /\ InFlight(h)
      /\ \A g \in Handler : g # h => call'[g] = call[g] /\ via'[g] = via[g]
      /\ call'[h] \in Call \ {"idle", "connecting"}
      /\ via'[h] = via[h] \/ via'[h] = None
  <2>1. via'[h] = via[h] \/ via'[h] = None
    BY <1>0 DEF Proceed, Confirm, Refuse, Return, TypeOK
  <2> QED
    BY <1>0, <2>1, LaterCall DEF closing, Closing, Reused
<1>2. \A g \in Handler : call[g] # "idle" => call'[g] # "idle"
  BY <1>1
<1>3. via[h] \in Handler /\ TopicOf[h] \in Topic
  BY <1>0, <1>1, TopicType DEF CallsOK, TypeOK
<1>4. \A g \in Handler, c \in Handler : via'[g] = c => via[g] = c
  BY <1>1, HandlerAssumption
\* The step of a call that leaves the listeners as they are.
<1>5. CASE Proceed(h) \/ Refuse(h) \/ Return(h)
  <2>1. UNCHANGED dispatches /\ \A t \in subscribed : t \in subscribed'
    BY <1>5 DEF Proceed, Refuse, Return, links, fields
  <2>2. \A c \in Handler, t \in Topic : Uses(c, t)' => Uses(c, t)
    BY <1>4, <2>1 DEF Uses
  <2>3. UsesOK'
    BY <1>1, <1>2, <2>2, UsesKept
  <2>4. \A g \in Handler : InFlight(g)' => InFlight(g)
    BY <1>1 DEF InFlight
  <2>5. \A g \in Handler :
            call'[g] \in {"connecting", "subscribing"} => call[g] \in {"connecting", "subscribing"}
    <3>1. call'[h] \in {"connecting", "subscribing"} => call[h] \in {"connecting", "subscribing"}
      BY <1>0, <1>5 DEF Proceed, Refuse, Return, TypeOK
    <3> QED
      BY <1>1, <3>1
  <2>6. ASSUME library = "node", NEW c \in Handler, NEW t \in Topic, dispatches[c][t] = 1,
               t \notin subscribed', ~Closing
        PROVE  \E g \in Handler : InFlight(g)' /\ TopicOf[g] = t
    <3>1. PICK g \in Handler : InFlight(g) /\ TopicOf[g] = t
      BY <2>1, <2>6 DEF OnceOK
    <3>2. CASE g # h
      <4>1. InFlight(g)'
        BY <1>1, <3>1, <3>2 DEF InFlight
      <4> QED
        BY <3>1, <4>1
    <3>3. CASE g = h
      <4>1. call[h] \notin {"connecting", "subscribing"}
        <5>1. dispatches[c][TopicOf[h]] = 1
          BY <2>6, <3>1, <3>3
        <5> QED
          BY <2>6, <5>1 DEF OnceOK
      <4>2. TopicOf[h] \in subscribed'
        BY <1>5, <4>1 DEF Proceed, Refuse, Return
      <4> QED
        BY <2>6, <3>1, <3>3, <4>2
    <3> QED
      BY <3>2, <3>3
  <2>7. OnceOK'
    BY <1>1, <2>1, <2>4, <2>5, <2>6 DEF OnceOK
  <2> QED
    BY <2>3, <2>7
<1>6. CASE Confirm(h)
  <2>1. /\ call[h] = "subscribing" /\ call'[h] = "confirmed" /\ subscribed' = subscribed
        /\ \A g \in Handler : InFlight(g)' <=> InFlight(g)
    <3>1. call[h] = "subscribing" /\ call'[h] = "confirmed" /\ subscribed' = subscribed
      BY <1>0, <1>6 DEF Confirm, TypeOK, fields
    <3> QED
      BY <1>1, <3>1 DEF InFlight
  <2>2. /\ \A c \in Handler, t \in Topic :
               ~(c = via[h] /\ t = TopicOf[h]) => dispatches'[c][t] = dispatches[c][t]
        /\ dispatches'[via[h]][TopicOf[h]] = Listeners(via[h], TopicOf[h])
    <3>1. dispatches' = [dispatches EXCEPT ![via[h]][TopicOf[h]] = Listeners(via[h], TopicOf[h])]
      BY <1>6 DEF Confirm
    <3>2. dispatches \in [Handler -> [Topic -> Nat]]
      BY <1>0 DEF TypeOK
    <3> HIDE DEF Listeners
    <3> QED
      BY <1>3, <3>1, <3>2
  <2>3. dispatches'[via[h]][TopicOf[h]] = 1
    <3>1. library = "node" => dispatches[via[h]][TopicOf[h]] = 0
      BY <1>3, <2>1 DEF OnceOK
    <3> QED
      BY <2>2, <3>1 DEF Listeners
  <2>4. \A c \in Handler, t \in Topic : Uses(c, t)' => Uses(c, t)
    BY <1>4, <2>2 DEF Uses
  <2>5. UsesOK'
    BY <1>1, <1>2, <2>4, UsesKept
  <2>6. \A c \in Handler, t \in Topic : dispatches'[c][t] \in {0, 1}
    BY <2>2, <2>3 DEF OnceOK
  <2>7. ASSUME library = "node", NEW g \in Handler, NEW c \in Handler,
               call'[g] \in {"connecting", "subscribing"}
        PROVE  dispatches'[c][TopicOf[g]] = 0
    <3>1. g # h /\ call[g] \in {"connecting", "subscribing"} /\ InFlight(g)
      BY <1>1, <2>1, <2>7 DEF InFlight
    <3>2. TopicOf[g] # TopicOf[h]
      BY <1>1, <2>7, <3>1 DEF OnceOK
    <3>3. dispatches'[c][TopicOf[g]] = dispatches[c][TopicOf[g]]
      BY <2>2, <3>2, TopicType
    <3> QED
      BY <2>7, <3>1, <3>3 DEF OnceOK
  <2>8. ASSUME library = "node", NEW c \in Handler, NEW t \in Topic, dispatches'[c][t] = 1
        PROVE  \/ t \in subscribed \/ Closing
               \/ \E g \in Handler : InFlight(g) /\ TopicOf[g] = t
    <3>1. CASE t = TopicOf[h]
      BY <1>1, <3>1
    <3>2. CASE t # TopicOf[h]
      BY <2>2, <2>8, <3>2 DEF OnceOK
    <3> QED
      BY <3>1, <3>2
  <2>9. OnceOK'
    BY <1>1, <2>1, <2>6, <2>7, <2>8 DEF OnceOK
  <2> QED
    BY <2>5, <2>9
<1> QED
  BY <1>5, <1>6

\* A step of anybody else leaves the calls and the listeners, and forgets the field only
\* where the transport is being closed.
LEMMA OthersUse ==
    ASSUME UsesOK, OnceOK, UNCHANGED <<library, call, via, dispatches>>,
           Closing' \/ (~Closing /\ subscribed' = subscribed
                          /\ \A c \in Handler : c = Reused => c = Reused')
    PROVE  UsesOK' /\ OnceOK'
<1>1. \A c \in Handler, t \in Topic : Uses(c, t)' => Uses(c, t)
  BY DEF Uses
<1>2. UsesOK'
  BY <1>1, UsesKept
<1>3. \A g \in Handler : InFlight(g)' <=> InFlight(g)
  BY DEF InFlight
<1> QED
  BY <1>2, <1>3 DEF OnceOK

LEMMA NextUses ==
    ASSUME IInv, UsesOK, OnceOK, [Next]_vars
    PROVE  UsesOK' /\ OnceOK'
<1>0. TypeOK /\ FieldOK /\ ConnectingOK
  BY DEF IInv
<1>1. CASE UNCHANGED vars
  <2>1. UNCHANGED <<library, call, via, dispatches, closer, subscribed, subscriber, connecting>>
    BY <1>1 DEF vars, calls, links, closing, fields
  <2> QED
    BY <2>1, OthersUse DEF Closing, Reused
<1>2. ASSUME NEW c \in Handler, Link(c) PROVE UsesOK' /\ OnceOK'
  <2>1. UNCHANGED <<library, call, via, dispatches, closer, subscribed>> /\ Closing' = Closing
    BY <1>2 DEF Link, Connected, ConnectFails, Dispatch, fields, links, calls, closing, Closing
  <2>2. Closing \/ \A d \in Handler : d = Reused => d = Reused'
    <3>1. CASE Connected(c) /\ library = "node"
      <4>1. subscriber = None /\ subscriber' = c /\ (Closing \/ connecting = c)
        BY <1>0, <3>1 DEF Connected, ConnectingOK
      <4> QED
        BY <4>1, HandlerAssumption DEF Reused
    <3>2. CASE ~(Connected(c) /\ library = "node")
      <4>1. UNCHANGED <<subscriber, connecting>>
        BY <1>2, <3>2 DEF Link, Connected, ConnectFails, Dispatch, fields
      <4> QED
        BY <4>1 DEF Reused
    <3> QED
      BY <3>1, <3>2
  <2> QED
    BY <2>1, <2>2, OthersUse
<1>3. ASSUME NEW t \in Topic, Publish(t) PROVE UsesOK' /\ OnceOK'
  <2>1. UNCHANGED <<library, call, via, dispatches, closer, subscribed, subscriber, connecting>>
    BY <1>3 DEF Publish, fields, links, calls, closing
  <2> QED
    BY <2>1, OthersUse DEF Closing, Reused
<1>4. ASSUME NEW k \in Closer, Closes(k) PROVE UsesOK' /\ OnceOK'
  <2>1. UNCHANGED <<library, call, via, dispatches>>
    BY <1>4 DEF Closes, Close, CloseReturns, CloseThrows, calls
  <2>2. Closing'
    BY <1>0, <1>4 DEF Closes, Close, CloseReturns, CloseThrows, Closing, TypeOK
  <2> QED
    BY <2>1, <2>2, OthersUse
<1> QED
  BY <1>1, <1>2, <1>3, <1>4, SubscribeUses, LaterUses, NextCases DEF Calls

-----------------------------------------------------------------------------
(* What is on its way, and what was heard                                  *)

\* What waits on a connection is in order, and of a topic heard there.
OrderedOK ==
    \A c \in Handler : \A n \in 1..Len(wire[c]) :
        /\ dispatches[c][published[wire[c][n]]] = 1
        /\ \A m \in 1..Len(wire[c]) : m < n => wire[c][m] < wire[c][n]

\* It is newer than what any handler of its topic has heard.
NewerOK ==
    \A h \in Handler : \A k \in 1..Len(got[h]) :
        /\ got[h][k] \in 1..Len(published)
        /\ \A c \in Handler : \A n \in 1..Len(wire[c]) :
               published[wire[c][n]] = TopicOf[h] => got[h][k] < wire[c][n]

FeedOK == OrderedOK /\ NewerOK

LEMMA OneMore ==
    ASSUME NEW s \in Seq(Nat), NEW n \in Nat
    PROVE  s \o [k \in 1..1 |-> n] = Append(s, n)
<1>1. [k \in 1..1 |-> n] = <<n>>
  OBVIOUS
<1>2. s \o <<n>> = Append(s, n)
  OBVIOUS
<1> QED
  BY <1>1, <1>2

LEMMA DispatchEffect ==
    ASSUME IInv, OnceOK, FeedOK, NEW c \in Handler, Dispatch(c),
           NEW n, n = Head(wire[c]), NEW t, t = published[n]
    PROVE  /\ n \in 1..Len(published) /\ t \in Topic /\ dispatches[c][t] = 1
           /\ wire[c] # <<>> /\ wire[c][1] = n /\ wire'[c] = Tail(wire[c])
           /\ \A d \in Handler : d # c => wire'[d] = wire[d]
           /\ \A h \in Handler : got'[h] = IF h \in handlers /\ TopicOf[h] = t
                                           THEN Append(got[h], n) ELSE got[h]
           /\ got' = [h \in Handler |-> IF h \in handlers /\ TopicOf[h] = t
                                        THEN Append(got[h], n) ELSE got[h]]
           /\ \A h \in Handler : TopicOf[h] = t => \A k \in 1..Len(got[h]) : got[h][k] < n
           /\ UNCHANGED <<published, dispatches, closer>>
           /\ UNCHANGED <<call, conn, handlers, subscribed, since, via>>
<1>0. /\ wire[c] \in Seq(Nat) /\ wire \in [Handler -> Seq(Nat)] /\ published \in Seq(Topic)
      /\ \A h \in Handler : got[h] \in Seq(Nat)
  BY DEF IInv, TypeOK
<1>1. /\ wire[c] # <<>> /\ wire' = [wire EXCEPT ![c] = Tail(wire[c])]
      /\ UNCHANGED <<published, dispatches, closer, call, conn, handlers, subscribed, since, via>>
  BY DEF Dispatch, fields, links, calls, closing
<1>2. 1 \in 1..Len(wire[c]) /\ wire[c][1] = n
  BY <1>0, <1>1
<1>3. n \in 1..Len(published)
  BY <1>2 DEF IInv, WireOK
<1>4. t \in Topic /\ n \in Nat
  BY <1>0, <1>3
<1>5. dispatches[c][t] = 1
  BY <1>2 DEF FeedOK, OrderedOK
<1>6. got' = [h \in Handler |-> IF h \in handlers /\ TopicOf[h] = t
                                THEN got[h] \o [k \in 1..dispatches[c][t] |-> n] ELSE got[h]]
  BY DEF Dispatch
<1>7. \A h \in Handler : got[h] \o [k \in 1..1 |-> n] = Append(got[h], n)
  BY <1>0, <1>4, OneMore
<1>8. got' = [h \in Handler |-> IF h \in handlers /\ TopicOf[h] = t
                                THEN Append(got[h], n) ELSE got[h]]
  BY <1>5, <1>6, <1>7
<1>9. \A h \in Handler : TopicOf[h] = t => \A k \in 1..Len(got[h]) : got[h][k] < n
  BY <1>2 DEF FeedOK, NewerOK
<1> QED
  BY <1>0, <1>1, <1>2, <1>3, <1>4, <1>5, <1>8, <1>9

LEMMA DispatchFeed ==
    ASSUME IInv, UsesOK, OnceOK, FeedOK, NEW c \in Handler, Dispatch(c)
    PROVE  FeedOK'
<1>1. PICK n, t : n = Head(wire[c]) /\ t = published[n]
  OBVIOUS
<1>2. /\ n \in 1..Len(published) /\ t \in Topic /\ dispatches[c][t] = 1
      /\ wire[c] # <<>> /\ wire[c][1] = n /\ wire'[c] = Tail(wire[c])
      /\ \A d \in Handler : d # c => wire'[d] = wire[d]
      /\ \A h \in Handler : got'[h] = IF h \in handlers /\ TopicOf[h] = t
                                      THEN Append(got[h], n) ELSE got[h]
      /\ published' = published /\ dispatches' = dispatches
  BY <1>1, DispatchEffect
<1>3. \A d \in Handler : wire[d] \in Seq(Nat) /\ got[d] \in Seq(Nat)
  BY DEF IInv, TypeOK
<1>4. n \in Nat
  BY <1>2
\* What is left was behind the message that is dispatched.
<1>5. ASSUME NEW d \in Handler, NEW m \in 1..Len(wire'[d])
      PROVE  \E l \in 1..Len(wire[d]) : /\ wire'[d][m] = wire[d][l]
                                        /\ l = IF d = c THEN m + 1 ELSE m
  <2>1. CASE d = c
    <3>1. wire[d] \in Seq(Nat) /\ wire[d] # <<>> /\ wire'[d] = Tail(wire[d])
      BY <1>2, <1>3, <2>1
    <3>2. m + 1 \in 1..Len(wire[d]) /\ wire'[d][m] = wire[d][m + 1]
      BY <1>5, <3>1
    <3> QED
      BY <2>1, <3>2
  <2>2. CASE d # c
    BY <1>2, <1>5, <2>2
  <2> QED
    BY <2>1, <2>2
<1>6. ASSUME NEW d \in Handler, NEW m \in 1..Len(wire'[d])
      PROVE  /\ dispatches[d][published[wire'[d][m]]] = 1
             /\ \A l \in 1..Len(wire'[d]) : l < m => wire'[d][l] < wire'[d][m]
             /\ published[wire'[d][m]] = t => n < wire'[d][m]
  <2>1. PICK p \in 1..Len(wire[d]) : /\ wire'[d][m] = wire[d][p]
                                     /\ p = IF d = c THEN m + 1 ELSE m
    BY <1>5
  <2>2. dispatches[d][published[wire[d][p]]] = 1
    BY DEF FeedOK, OrderedOK
  <2>3. ASSUME NEW l \in 1..Len(wire'[d]), l < m PROVE wire'[d][l] < wire'[d][m]
    <3>1. PICK q \in 1..Len(wire[d]) : /\ wire'[d][l] = wire[d][q]
                                       /\ q = IF d = c THEN l + 1 ELSE l
      BY <1>5
    <3>2. q < p
      BY <2>1, <2>3, <3>1
    <3> QED
      BY <2>1, <3>1, <3>2 DEF FeedOK, OrderedOK
  <2>4. ASSUME published[wire'[d][m]] = t PROVE n < wire'[d][m]
    <3>1. Uses(d, t) /\ Uses(c, t)
      BY <1>2, <2>1, <2>2, <2>4 DEF Uses
    <3>2. d = c
      BY <1>2, <3>1 DEF UsesOK
    <3>3. 1 \in 1..Len(wire[d]) /\ 1 < p /\ wire[d][1] = n
      BY <1>2, <1>3, <2>1, <3>2
    <3> QED
      BY <2>1, <3>3 DEF FeedOK, OrderedOK
  <2> QED
    BY <2>1, <2>2, <2>3, <2>4
<1>7. OrderedOK'
  BY <1>2, <1>6 DEF OrderedOK
<1>8. ASSUME NEW h \in Handler, NEW k \in 1..Len(got'[h])
      PROVE  (k \in 1..Len(got[h]) /\ got'[h][k] = got[h][k]) \/ (got'[h][k] = n /\ TopicOf[h] = t)
  <2>1. CASE h \in handlers /\ TopicOf[h] = t
    <3>1. got'[h] = Append(got[h], n) /\ got[h] \in Seq(Nat)
      BY <1>2, <1>3, <2>1
    <3> QED
      BY <1>8, <2>1, <3>1
  <2>2. CASE ~(h \in handlers /\ TopicOf[h] = t)
    BY <1>2, <1>8, <2>2
  <2> QED
    BY <2>1, <2>2
<1>9. ASSUME NEW h \in Handler, NEW k \in 1..Len(got'[h])
      PROVE  /\ got'[h][k] \in 1..Len(published)
             /\ \A d \in Handler : \A m \in 1..Len(wire'[d]) :
                    published[wire'[d][m]] = TopicOf[h] => got'[h][k] < wire'[d][m]
  <2>1. CASE k \in 1..Len(got[h]) /\ got'[h][k] = got[h][k]
    <3>1. got[h][k] \in 1..Len(published)
      BY <2>1 DEF FeedOK, NewerOK
    <3>2. ASSUME NEW d \in Handler, NEW m \in 1..Len(wire'[d]), published[wire'[d][m]] = TopicOf[h]
          PROVE  got[h][k] < wire'[d][m]
      <4>1. PICK l \in 1..Len(wire[d]) : wire'[d][m] = wire[d][l]
        BY <1>5
      <4> QED
        BY <2>1, <3>2, <4>1 DEF FeedOK, NewerOK
    <3> QED
      BY <2>1, <3>1, <3>2
  <2>2. CASE got'[h][k] = n /\ TopicOf[h] = t
    BY <1>2, <1>6, <2>2
  <2> QED
    BY <1>8, <1>9, <2>1, <2>2
<1>10. NewerOK'
  BY <1>2, <1>9 DEF NewerOK
<1> QED
  BY <1>7, <1>10 DEF FeedOK

LEMMA PublishFeed ==
    ASSUME IInv, OnceOK, FeedOK, NEW t \in Topic, Publish(t)
    PROVE  FeedOK'
<1>0. /\ published \in Seq(Topic)
      /\ \A c \in Handler : wire[c] \in Seq(Nat) /\ dispatches[c] \in [Topic -> Nat]
  BY DEF IInv, TypeOK
<1> DEFINE last == Len(published) + 1
<1>1. /\ last \in Nat /\ last > 0 /\ Len(published') = last /\ published'[last] = t
      /\ \A n \in 1..Len(published) : published'[n] = published[n]
      /\ UNCHANGED <<dispatches, got>>
  BY <1>0 DEF Publish, links
\* A connection gets the message at its end, and only if the topic is heard there.
<1>2. ASSUME NEW c \in Handler, NEW n \in 1..Len(wire'[c])
      PROVE  \/ n \in 1..Len(wire[c]) /\ wire'[c][n] = wire[c][n]
             \/ n = Len(wire[c]) + 1 /\ wire'[c][n] = last /\ dispatches[c][t] = 1
  <2>1. CASE dispatches[c][t] > 0 /\ wire'[c] = Append(wire[c], last)
    <3>1. dispatches[c][t] = 1
      BY <2>1 DEF OnceOK
    <3>2. wire[c] \in Seq(Nat)
      BY <1>0
    <3>3. \/ n \in 1..Len(wire[c]) /\ wire'[c][n] = wire[c][n]
          \/ n = Len(wire[c]) + 1 /\ wire'[c][n] = last
      <4> HIDE DEF last
      <4> QED
        BY <1>1, <1>2, <2>1, <3>2
    <3> QED
      BY <3>1, <3>3
  <2>2. CASE wire'[c] = wire[c]
    BY <1>2, <2>2
  <2> QED
    BY <2>1, <2>2 DEF Publish
<1> HIDE DEF last
<1>3. ASSUME NEW c \in Handler, NEW n \in 1..Len(wire[c])
      PROVE  wire[c][n] \in 1..Len(published) /\ wire[c][n] < last /\ wire[c][n] # last
  BY <1>0, <1>1 DEF IInv, WireOK, last
<1>4. OrderedOK'
  <2> SUFFICES ASSUME NEW c \in Handler, NEW n \in 1..Len(wire'[c])
               PROVE  /\ dispatches[c][published'[wire'[c][n]]] = 1
                      /\ \A m \in 1..Len(wire'[c]) : m < n => wire'[c][m] < wire'[c][n]
    BY <1>1 DEF OrderedOK
  <2>0. Len(wire[c]) \in Nat
    BY <1>0
  <2>1. CASE n \in 1..Len(wire[c]) /\ wire'[c][n] = wire[c][n]
    <3>1. published'[wire'[c][n]] = published[wire[c][n]]
      BY <1>1, <1>3, <2>1
    <3>2. ASSUME NEW m \in 1..Len(wire'[c]), m < n PROVE wire'[c][m] < wire'[c][n]
      <4>1. m \in 1..Len(wire[c]) /\ wire'[c][m] = wire[c][m]
        BY <1>2, <2>0, <2>1, <3>2
      <4> QED
        BY <2>1, <3>2, <4>1 DEF FeedOK, OrderedOK
    <3> QED
      BY <2>1, <3>1, <3>2 DEF FeedOK, OrderedOK
  <2>2. CASE n = Len(wire[c]) + 1 /\ wire'[c][n] = last /\ dispatches[c][t] = 1
    <3>1. ASSUME NEW m \in 1..Len(wire'[c]), m < n PROVE wire'[c][m] < last
      <4>1. m \in 1..Len(wire[c]) /\ wire'[c][m] = wire[c][m]
        BY <1>2, <2>0, <2>2, <3>1
      <4> QED
        BY <1>3, <4>1
    <3> QED
      BY <1>1, <2>2, <3>1
  <2> QED
    BY <1>2, <2>1, <2>2
<1>5. NewerOK'
  <2> SUFFICES ASSUME NEW h \in Handler, NEW k \in 1..Len(got[h])
               PROVE  /\ got[h][k] \in 1..Len(published')
                      /\ \A c \in Handler : \A n \in 1..Len(wire'[c]) :
                             published'[wire'[c][n]] = TopicOf[h] => got[h][k] < wire'[c][n]
    BY <1>1 DEF NewerOK
  <2>1. got[h][k] \in 1..Len(published)
    BY DEF FeedOK, NewerOK
  <2>2. got[h][k] \in 1..Len(published') /\ got[h][k] < last
    BY <1>0, <1>1, <2>1 DEF last
  <2>3. ASSUME NEW c \in Handler, NEW n \in 1..Len(wire'[c]), published'[wire'[c][n]] = TopicOf[h]
        PROVE  got[h][k] < wire'[c][n]
    <3>1. CASE n \in 1..Len(wire[c]) /\ wire'[c][n] = wire[c][n]
      <4>1. published[wire[c][n]] = TopicOf[h]
        BY <1>1, <1>3, <2>3, <3>1
      <4> QED
        BY <3>1, <4>1 DEF FeedOK, NewerOK
    <3>2. CASE wire'[c][n] = last
      BY <2>2, <3>2
    <3> QED
      BY <1>2, <2>3, <3>1, <3>2
  <2> QED
    BY <2>2, <2>3
<1> QED
  BY <1>4, <1>5 DEF FeedOK

\* A step that publishes and dispatches nothing: a message may be dropped with its
\* connection, and a listener may be added.
LEMMA FeedKept ==
    ASSUME FeedOK, UNCHANGED <<published, got>>,
           \A c \in Handler : wire'[c] = wire[c] \/ wire'[c] = <<>>,
           \A c \in Handler, t \in Topic : dispatches[c][t] = 1 => dispatches'[c][t] = 1,
           IInv
    PROVE  FeedOK'
<1>1. \A c \in Handler : \A n \in 1..Len(wire'[c]) : n \in 1..Len(wire[c]) /\ wire'[c] = wire[c]
  OBVIOUS
<1>2. \A c \in Handler : \A n \in 1..Len(wire[c]) : published[wire[c][n]] \in Topic
  <2> SUFFICES ASSUME NEW c \in Handler, NEW n \in 1..Len(wire[c])
               PROVE  published[wire[c][n]] \in Topic
    OBVIOUS
  <2>1. published \in Seq(Topic) /\ wire[c][n] \in 1..Len(published)
    BY DEF IInv, TypeOK, WireOK
  <2>2. ASSUME NEW q \in Seq(Topic), NEW k \in 1..Len(q) PROVE q[k] \in Topic
    OBVIOUS
  <2> QED
    BY <2>1, <2>2, Zenon
<1>3. OrderedOK'
  BY <1>1, <1>2 DEF FeedOK, OrderedOK
<1>4. NewerOK'
  BY <1>1 DEF FeedOK, NewerOK
<1> QED
  BY <1>3, <1>4 DEF FeedOK

LEMMA NextFeed ==
    ASSUME IInv, UsesOK, OnceOK, FeedOK, [Next]_vars
    PROVE  FeedOK'
<1>0. TypeOK /\ CallsOK
  BY DEF IInv
<1>1. CASE UNCHANGED vars
  <2>1. UNCHANGED <<published, got, wire, dispatches>>
    BY <1>1 DEF vars, feed, links
  <2> QED
    BY <2>1, FeedKept
<1>2. ASSUME NEW h \in Handler, Calls(h) PROVE FeedOK'
  <2>1. UNCHANGED <<published, got, wire>>
    BY <1>2, SubscribeCases DEF Calls, Proceed, Confirm, Refuse, Return, feed
  <2>2. \A c \in Handler, t \in Topic : dispatches[c][t] = 1 => dispatches'[c][t] = 1
    <3>1. CASE Confirm(h)
      <4>1. OnceOK'
        BY <3>1, LaterUses
      <4>2. /\ via[h] \in Handler /\ TopicOf[h] \in Topic
            /\ dispatches' = [dispatches EXCEPT
                                 ![via[h]][TopicOf[h]] = Listeners(via[h], TopicOf[h])]
            /\ dispatches \in [Handler -> [Topic -> Nat]]
        BY <1>0, <3>1, TopicType DEF Confirm, CallsOK, InFlight, TypeOK
      <4>3. Listeners(via[h], TopicOf[h]) # 0
        BY <4>2 DEF Listeners
      <4>4. \A c \in Handler, t \in Topic : dispatches[c][t] = 1 => dispatches'[c][t] # 0
        <5> HIDE DEF Listeners
        <5> QED
          BY <4>2, <4>3
      <4> QED
        BY <4>1, <4>4 DEF OnceOK
    <3>2. CASE ~Confirm(h)
      BY <1>2, <3>2, SubscribeCases DEF Calls, Proceed, Refuse, Return, links
    <3> QED
      BY <3>1, <3>2
  <2> QED
    BY <2>1, <2>2, FeedKept
<1>3. ASSUME NEW c \in Handler, Connected(c) \/ ConnectFails(c) PROVE FeedOK'
  <2>1. UNCHANGED <<published, got, wire, dispatches>>
    BY <1>3 DEF Connected, ConnectFails, feed
  <2> QED
    BY <2>1, FeedKept
<1>4. ASSUME NEW k \in Closer, Closes(k) PROVE FeedOK'
  <2>1. UNCHANGED <<published, got, dispatches>>
    BY <1>4 DEF Closes, Close, CloseReturns, CloseThrows, feed
  <2>2. \A c \in Handler : wire'[c] = wire[c] \/ wire'[c] = <<>>
    BY <1>4 DEF Closes, Close, CloseReturns, CloseThrows, Gone, feed
  <2> QED
    BY <2>1, <2>2, FeedKept
<1> QED
  BY <1>1, <1>2, <1>3, <1>4, DispatchFeed, PublishFeed, NextCases DEF Link

-----------------------------------------------------------------------------
(* Who is served before any close()                                        *)

Serves(c, t) == conn[c] = "ready" /\ dispatches[c][t] > 0

\* Until somebody closes the transport, the handler of a call that began is registered,
\* no connection goes down, and a subscribed topic is heard on one that is up.
ServedOK ==
    ~Closing =>
        /\ \A h \in Handler : call[h] # "idle" => h \in handlers
        /\ \A c \in Handler : conn[c] \notin {"quitting", "closed"}
        /\ \A h \in Handler : call[h] = "confirmed" => Serves(via[h], TopicOf[h])
        /\ \A h \in Handler : call[h] = "returned" => TopicOf[h] \in subscribed
        /\ \A t \in subscribed : \E c \in Handler : Serves(c, t)

LEMMA CallsServed ==
    ASSUME IInv, ServedOK, NEW h \in Handler, Calls(h)
    PROVE  ServedOK'
<1>0. TypeOK /\ CallsOK
  BY DEF IInv
<1>1. Closing' = Closing
  BY <1>0, SubscribeCases, LaterCall DEF Calls, closing, Closing
<1> SUFFICES ASSUME ~Closing
             PROVE  /\ \A g \in Handler : call'[g] # "idle" => g \in handlers'
                    /\ \A c \in Handler : conn'[c] \notin {"quitting", "closed"}
                    /\ \A g \in Handler : call'[g] = "confirmed" => Serves(via[g], TopicOf[g])'
                    /\ \A g \in Handler : call'[g] = "returned" => TopicOf[g] \in subscribed'
                    /\ \A t \in subscribed' : \E c \in Handler : Serves(c, t)'
  BY <1>1 DEF ServedOK
<1>2. /\ \A g \in Handler : call[g] # "idle" => g \in handlers
      /\ \A c \in Handler : conn[c] \notin {"quitting", "closed"}
      /\ \A g \in Handler : call[g] = "confirmed" => Serves(via[g], TopicOf[g])
      /\ \A g \in Handler : call[g] = "returned" => TopicOf[g] \in subscribed
      /\ \A t \in subscribed : \E c \in Handler : Serves(c, t)
  BY DEF ServedOK
<1>3. \A g \in Handler : g # h => call'[g] = call[g] /\ via'[g] = via[g]
  BY <1>0, FirstCall, LaterCall DEF Calls
<1>4. CASE Subscribe(h)
  <2>1. /\ handlers' = handlers \cup {h} /\ subscribed' = subscribed /\ dispatches' = dispatches
        /\ conn[h] = "none"
    BY <1>0, <1>4, SubscribeCases DEF CallsOK
  <2>2. \A c \in Handler : conn'[c] = conn[c] \/ (conn[c] = "none" /\ conn'[c] = "connecting")
    <3>1. CASE Found(h)
      BY <3>1 DEF Found
    <3>2. CASE Joined(h)
      BY <1>0, <2>1, <3>2 DEF Joined, TypeOK
    <3> QED
      BY <1>4, <3>1, <3>2, SubscribeCases
  <2>3. \A c \in Handler, t \in Topic : Serves(c, t) => Serves(c, t)'
    BY <2>1, <2>2 DEF Serves
  <2>4. call'[h] \in {"returned", "connecting", "subscribing"}
    BY <1>0, <1>4, FirstCall
  <2>5. call'[h] = "returned" => TopicOf[h] \in subscribed
    <3>1. CASE Found(h)
      BY <3>1 DEF Found
    <3>2. CASE Joined(h)
      BY <1>0, <3>2 DEF Joined, TypeOK
    <3> QED
      BY <1>4, <3>1, <3>2, SubscribeCases
  <2>6. \A g \in Handler : call'[g] # "idle" => g \in handlers'
    BY <1>2, <1>3, <2>1
  <2>7. \A c \in Handler : conn'[c] \notin {"quitting", "closed"}
    BY <1>2, <2>2
  <2>8. ASSUME NEW g \in Handler, call'[g] = "confirmed" PROVE Serves(via[g], TopicOf[g])'
    <3>1. g # h /\ call[g] = "confirmed" /\ via'[g] = via[g]
      BY <1>3, <2>4, <2>8
    <3>2. via[g] \in Handler
      BY <1>0, <3>1 DEF CallsOK, InFlight, TypeOK
    <3>3. Serves(via[g], TopicOf[g])
      BY <1>2, <3>1
    <3> QED
      BY <2>1, <2>2, <3>1, <3>2, <3>3 DEF Serves
  <2>9. \A g \in Handler : call'[g] = "returned" => TopicOf[g] \in subscribed'
    BY <1>2, <1>3, <2>1, <2>5
  <2>10. \A t \in subscribed' : \E c \in Handler : Serves(c, t)'
    BY <1>0, <1>2, <2>1, <2>3 DEF TypeOK
  <2> QED
    BY <2>6, <2>7, <2>8, <2>9, <2>10
<1>5. CASE Proceed(h) \/ Confirm(h) \/ Refuse(h) \/ Return(h)
  <2>1. UNCHANGED <<handlers, conn>> /\ InFlight(h)
    BY <1>0, <1>5, LaterCall
  <2>2. call[h] # "idle" /\ via[h] \in Handler /\ TopicOf[h] \in Topic
    BY <1>0, <2>1, TopicType DEF InFlight, CallsOK, TypeOK
  <2>3. \A c \in Handler, t \in Topic : dispatches[c][t] > 0 => dispatches'[c][t] > 0
    <3>1. CASE Confirm(h)
      <4>1. dispatches' = [dispatches EXCEPT ![via[h]][TopicOf[h]] = Listeners(via[h], TopicOf[h])]
        BY <3>1 DEF Confirm
      <4>2. dispatches \in [Handler -> [Topic -> Nat]]
        BY <1>0 DEF TypeOK
      <4>3. dispatches[via[h]][TopicOf[h]] \in Nat
        BY <2>2, <4>2
      <4>4. Listeners(via[h], TopicOf[h]) > 0
        BY <4>3 DEF Listeners
      <4> HIDE DEF Listeners
      <4> QED
        BY <2>2, <4>1, <4>2, <4>4
    <3>2. CASE ~Confirm(h)
      BY <1>5, <3>2 DEF Proceed, Refuse, Return, links
    <3> QED
      BY <3>1, <3>2
  <2>4. \A c \in Handler, t \in Topic : Serves(c, t) => Serves(c, t)'
    BY <2>1, <2>3 DEF Serves
  <2>5. call'[h] = "confirmed" => via'[h] = via[h] /\ Serves(via[h], TopicOf[h])'
    <3> SUFFICES ASSUME call'[h] = "confirmed"
                 PROVE  via'[h] = via[h] /\ Serves(via[h], TopicOf[h])'
      OBVIOUS
    <3>1. Confirm(h)
      BY <1>0, <1>5 DEF Proceed, Refuse, Return, TypeOK
    <3>2. via' = via /\ conn[via[h]] = "ready"
      BY <1>2, <2>2, <3>1 DEF Confirm
    <3>3. dispatches'[via[h]][TopicOf[h]] > 0
      <4>1. dispatches' = [dispatches EXCEPT ![via[h]][TopicOf[h]] = Listeners(via[h], TopicOf[h])]
        BY <3>1 DEF Confirm
      <4>2. dispatches \in [Handler -> [Topic -> Nat]]
        BY <1>0 DEF TypeOK
      <4>3. dispatches[via[h]][TopicOf[h]] \in Nat
        BY <2>2, <4>2
      <4>4. Listeners(via[h], TopicOf[h]) > 0
        BY <4>3 DEF Listeners
      <4> HIDE DEF Listeners
      <4> QED
        BY <2>2, <4>1, <4>2, <4>4
    <3> QED
      BY <2>1, <3>2, <3>3 DEF Serves
  <2>6. \A g \in Handler : call'[g] # "idle" => g \in handlers'
    BY <1>2, <1>3, <2>1, <2>2
  <2>7. \A c \in Handler : conn'[c] \notin {"quitting", "closed"}
    BY <1>2, <2>1
  <2>8. ASSUME NEW g \in Handler, call'[g] = "confirmed" PROVE Serves(via[g], TopicOf[g])'
    <3>1. CASE g = h
      BY <2>5, <2>8, <3>1 DEF Serves
    <3>2. CASE g # h
      <4>1. call[g] = "confirmed" /\ via'[g] = via[g]
        BY <1>3, <2>8, <3>2
      <4>2. via[g] \in Handler
        BY <1>0, <4>1 DEF CallsOK, InFlight, TypeOK
      <4>3. Serves(via[g], TopicOf[g])
        BY <1>2, <4>1
      <4> QED
        BY <2>1, <2>3, <4>1, <4>2, <4>3, TopicType DEF Serves
    <3> QED
      BY <3>1, <3>2
  <2>9. \A t \in subscribed' : t \in subscribed \/ (t = TopicOf[h] /\ Return(h))
    BY <1>5 DEF Proceed, Confirm, Refuse, Return, fields
  <2>10. \A g \in Handler : call'[g] = "returned" => TopicOf[g] \in subscribed'
    <3>1. \A t \in subscribed : t \in subscribed'
      BY <1>5 DEF Proceed, Confirm, Refuse, Return, fields
    <3>2. call'[h] = "returned" => TopicOf[h] \in subscribed'
      BY <1>0, <1>5 DEF Proceed, Confirm, Refuse, Return, TypeOK
    <3> QED
      BY <1>2, <1>3, <3>1, <3>2
  <2>11. ASSUME NEW t \in subscribed' PROVE \E c \in Handler : Serves(c, t)'
    <3>1. CASE t \in subscribed
      BY <1>0, <1>2, <2>4, <3>1 DEF TypeOK
    <3>2. CASE t = TopicOf[h] /\ Return(h)
      <4>1. Serves(via[h], TopicOf[h])
        BY <1>2, <3>2 DEF Return
      <4> QED
        BY <2>2, <2>4, <3>2, <4>1
    <3> QED
      BY <2>9, <3>1, <3>2
  <2> QED
    BY <2>6, <2>7, <2>8, <2>10, <2>11
<1> QED
  BY <1>4, <1>5 DEF Calls

LEMMA NextServed ==
    ASSUME IInv, ServedOK, [Next]_vars
    PROVE  ServedOK'
<1>0. TypeOK /\ CallsOK
  BY DEF IInv
<1>1. ASSUME UNCHANGED <<closer, call, via, handlers, subscribed, dispatches>>,
             \A c \in Handler : conn'[c] = conn[c]
                                \/ (conn[c] = "connecting" /\ conn'[c] \in {"ready", "failed"})
      PROVE  ServedOK'
  <2>1. Closing' = Closing
    BY <1>1 DEF Closing
  <2>2. \A c \in Handler, t \in Topic : Serves(c, t) => Serves(c, t)'
    BY <1>1 DEF Serves
  <2>3. \A h \in Handler : call[h] = "confirmed" => via[h] \in Handler /\ TopicOf[h] \in Topic
    BY <1>0, TopicType DEF CallsOK, InFlight, TypeOK
  <2> QED
    <3> SUFFICES ASSUME ~Closing PROVE ServedOK'
      BY <2>1 DEF ServedOK
    <3>1. \A c \in Handler : conn'[c] \notin {"quitting", "closed"}
      BY <1>1 DEF ServedOK
    <3>2. \A h \in Handler : call[h] = "confirmed" => Serves(via[h], TopicOf[h])'
      BY <1>1, <2>2, <2>3 DEF ServedOK, Serves
    <3>3. \A t \in subscribed : \E c \in Handler : Serves(c, t)'
      BY <1>0, <2>2 DEF ServedOK, TypeOK
    <3> QED
      BY <1>1, <3>1, <3>2, <3>3 DEF ServedOK
<1>2. CASE UNCHANGED vars
  BY <1>1, <1>2 DEF vars, fields, links, calls, closing
<1>3. ASSUME NEW c \in Handler, Link(c) PROVE ServedOK'
  <2>1. UNCHANGED <<closer, call, via, handlers, subscribed, dispatches>>
    BY <1>3 DEF Link, Connected, ConnectFails, Dispatch, fields, links, calls, closing
  <2>2. \A d \in Handler : conn'[d] = conn[d]
                           \/ (conn[d] = "connecting" /\ conn'[d] \in {"ready", "failed"})
    BY <1>0, <1>3 DEF Link, Connected, ConnectFails, Dispatch, links, TypeOK
  <2> QED
    BY <1>1, <2>1, <2>2
<1>4. ASSUME NEW t \in Topic, Publish(t) PROVE ServedOK'
  BY <1>1, <1>4 DEF Publish, fields, links, calls, closing
<1>5. ASSUME NEW k \in Closer, Closes(k) PROVE ServedOK'
  <2>1. Closing'
    BY <1>0, <1>5 DEF Closes, Close, CloseReturns, CloseThrows, Closing, TypeOK
  <2> QED
    BY <2>1 DEF ServedOK
<1> QED
  BY <1>2, <1>3, <1>4, <1>5, CallsServed, NextCases

OnItsWay(n) == \E c \in Handler : \E k \in 1..Len(wire[c]) : wire[c][k] = n
HeardBy(h, n) == \E k \in 1..Len(got[h]) : got[h][k] = n

LEMMA NextMissesNothing ==
    ASSUME IInv, UsesOK, OnceOK, FeedOK, ServedOK, NothingMissed, [Next]_vars
    PROVE  NothingMissed'
<1>0. /\ TypeOK /\ CallsOK
      /\ \A h \in Handler : wire[h] \in Seq(Nat) /\ got[h] \in Seq(Nat)
      /\ Len(published) \in Nat /\ \A h \in Handler : since[h] \in Nat
  BY DEF IInv, TypeOK
<1> SUFFICES ASSUME ~Closing', NEW h \in Handler, call'[h] = "returned",
                    NEW n \in since'[h] + 1 .. Len(published'), published'[n] = TopicOf[h]
             PROVE  HeardBy(h, n)' \/ OnItsWay(n)'
  BY DEF NothingMissed, HeardBy, OnItsWay
<1>1. ~Closing
  <2>1. CASE UNCHANGED vars
    BY <2>1 DEF vars, closing, Closing
  <2>2. ASSUME NEW g \in Handler, Calls(g) PROVE Closing' = Closing
    BY <1>0, <2>2, SubscribeCases, LaterCall DEF Calls, closing, Closing
  <2>3. ASSUME NEW c \in Handler, Link(c) PROVE Closing' = Closing
    BY <2>3 DEF Link, Connected, ConnectFails, Dispatch, closing, Closing
  <2>4. ASSUME NEW t \in Topic, Publish(t) PROVE Closing' = Closing
    BY <2>4 DEF Publish, closing, Closing
  <2>5. ASSUME NEW k \in Closer, Closes(k) PROVE Closing'
    BY <1>0, <2>5 DEF Closes, Close, CloseReturns, CloseThrows, Closing, TypeOK
  <2> QED
    BY <2>1, <2>2, <2>3, <2>4, <2>5, NextCases
<1>2. ASSUME call[h] = "returned", n \in since[h] + 1 .. Len(published), published[n] = TopicOf[h]
      PROVE  HeardBy(h, n) \/ OnItsWay(n)
  BY <1>1, <1>2 DEF NothingMissed, HeardBy, OnItsWay
<1>3. CASE UNCHANGED vars
  BY <1>2, <1>3 DEF vars, calls, feed, HeardBy, OnItsWay
<1>4. ASSUME NEW g \in Handler, Calls(g) PROVE HeardBy(h, n)' \/ OnItsWay(n)'
  <2>1. UNCHANGED feed
    BY <1>4, SubscribeCases DEF Calls, Proceed, Confirm, Refuse, Return
  <2>2. UNCHANGED <<published, got, wire>>
    BY <2>1 DEF feed
  \* A call that returns with this step has missed nothing yet.
  <2>3. call[h] = "returned" /\ since'[h] = since[h]
    <3>1. since'[h] # Len(published)
      BY <1>0, <2>2
    <3>2. CASE Subscribe(g)
      <4>1. CASE Found(g)
        BY <1>0, <3>1, <4>1 DEF Found, TypeOK
      <4>2. CASE Joined(g)
        BY <1>0, <4>2 DEF Joined, TypeOK
      <4> QED
        BY <3>2, <4>1, <4>2, SubscribeCases
    <3>3. CASE Return(g)
      BY <1>0, <3>1, <3>3 DEF Return, TypeOK
    <3>4. CASE Proceed(g) \/ Confirm(g) \/ Refuse(g)
      BY <1>0, <3>4 DEF Proceed, Confirm, Refuse, TypeOK
    <3> QED
      BY <1>4, <3>2, <3>3, <3>4 DEF Calls
  <2> QED
    BY <1>2, <2>2, <2>3 DEF HeardBy, OnItsWay
<1>5. ASSUME NEW c \in Handler, Connected(c) \/ ConnectFails(c)
      PROVE  HeardBy(h, n)' \/ OnItsWay(n)'
  BY <1>2, <1>5 DEF Connected, ConnectFails, calls, feed, HeardBy, OnItsWay
<1>6. ASSUME NEW c \in Handler, Dispatch(c) PROVE HeardBy(h, n)' \/ OnItsWay(n)'
  <2>1. PICK m, t : m = Head(wire[c]) /\ t = published[m]
    OBVIOUS
  <2>2. /\ wire[c] # <<>> /\ wire[c][1] = m /\ wire'[c] = Tail(wire[c])
        /\ \A d \in Handler : d # c => wire'[d] = wire[d]
        /\ \A g \in Handler : got'[g] = IF g \in handlers /\ TopicOf[g] = t
                                        THEN Append(got[g], m) ELSE got[g]
        /\ UNCHANGED <<published, call, since>>
    BY <1>6, <2>1, DispatchEffect
  <2>3. CASE HeardBy(h, n)
    <3>1. PICK k \in 1..Len(got[h]) : got[h][k] = n
      BY <2>3 DEF HeardBy
    <3>2. got[h] \in Seq(Nat) /\ (got'[h] = got[h] \/ got'[h] = Append(got[h], m))
      BY <1>0, <2>2
    <3>3. k \in 1..Len(got'[h]) /\ got'[h][k] = n
      <4>1. CASE got'[h] = got[h]
        BY <3>1, <4>1
      <4>2. CASE got'[h] = Append(got[h], m)
        BY <3>1, <3>2, <4>2
      <4> QED
        BY <3>2, <4>1, <4>2
    <3> QED
      BY <3>3 DEF HeardBy
  <2>4. CASE OnItsWay(n)
    <3>0. PICK d \in Handler : \E k \in 1..Len(wire[d]) : wire[d][k] = n
      BY <2>4 DEF OnItsWay
    <3>1. PICK k \in 1..Len(wire[d]) : wire[d][k] = n
      BY <3>0
    <3>2. CASE d # c
      BY <2>2, <3>1, <3>2 DEF OnItsWay
    <3>3. CASE d = c /\ k > 1
      <4>1. k - 1 \in 1..Len(wire'[c]) /\ wire'[c][k - 1] = n
        BY <1>0, <2>2, <3>1, <3>3
      <4> QED
        BY <4>1 DEF OnItsWay
    <3>4. CASE d = c /\ k = 1
      <4>1. m = n /\ t = TopicOf[h]
        BY <2>1, <2>2, <3>1, <3>4
      <4>2. h \in handlers
        BY <1>1, <2>2 DEF ServedOK
      <4>3. got'[h] = Append(got[h], m) /\ got[h] \in Seq(Nat)
        BY <1>0, <2>2, <4>1, <4>2
      <4>4. Len(got[h]) + 1 \in 1..Len(got'[h]) /\ got'[h][Len(got[h]) + 1] = n
        BY <4>1, <4>3
      <4> QED
        BY <4>4 DEF HeardBy
    <3> QED
      BY <1>0, <3>1, <3>2, <3>3, <3>4
  <2> QED
    BY <1>2, <2>2, <2>3, <2>4
<1>7. ASSUME NEW t \in Topic, Publish(t) PROVE HeardBy(h, n)' \/ OnItsWay(n)'
  <2>1. /\ UNCHANGED <<call, since, got>> /\ published' = Append(published, t)
        /\ published \in Seq(Topic)
    BY <1>0, <1>7 DEF Publish, calls, TypeOK
  <2>2. CASE n \in 1..Len(published)
    <3>1. published[n] = TopicOf[h] /\ n \in since[h] + 1 .. Len(published)
      BY <1>0, <2>1, <2>2
    <3>2. CASE HeardBy(h, n)
      BY <2>1, <3>2 DEF HeardBy
    <3>3. CASE OnItsWay(n)
      <4>0. PICK d \in Handler : \E k \in 1..Len(wire[d]) : wire[d][k] = n
        BY <3>3 DEF OnItsWay
      <4>1. PICK k \in 1..Len(wire[d]) : wire[d][k] = n
        BY <4>0
      <4>2. wire'[d] = wire[d] \/ wire'[d] = Append(wire[d], Len(published) + 1)
        BY <1>7 DEF Publish
      <4>3. k \in 1..Len(wire'[d]) /\ wire'[d][k] = n
        <5>1. CASE wire'[d] = wire[d]
          BY <4>1, <5>1
        <5>2. CASE wire'[d] = Append(wire[d], Len(published) + 1)
          BY <1>0, <4>1, <5>2
        <5> QED
          BY <4>2, <5>1, <5>2
      <4> QED
        BY <4>3 DEF OnItsWay
    <3> QED
      BY <1>2, <2>1, <3>1, <3>2, <3>3
  \* The new message goes to the connection on which the topic is heard.
  <2>3. CASE n = Len(published) + 1
    <3>1. t = TopicOf[h]
      BY <2>1, <2>3
    <3>2. PICK c \in Handler : Serves(c, t)
      BY <1>1, <2>1, <3>1 DEF ServedOK
    <3>3. wire'[c] = Append(wire[c], n)
      BY <1>7, <2>3, <3>2 DEF Publish, Serves
    <3>4. Len(wire[c]) + 1 \in 1..Len(wire'[c]) /\ wire'[c][Len(wire[c]) + 1] = n
      BY <1>0, <3>3
    <3> QED
      BY <3>4 DEF OnItsWay
  <2> QED
    BY <1>0, <2>1, <2>2, <2>3
<1>8. ASSUME NEW k \in Closer, Closes(k) PROVE FALSE
  BY <1>0, <1>8 DEF Closes, Close, CloseReturns, CloseThrows, Closing, TypeOK
<1> QED
  BY <1>3, <1>4, <1>5, <1>6, <1>7, <1>8, NextCases DEF Link

-----------------------------------------------------------------------------
(* The theorems                                                            *)

\* Every state of the transport satisfies the inductive invariant.
THEOREM Invariance == Spec => []IInv
<1> QED
  BY InitIInv, NextIInv, PTL DEF Spec

\* close(), from whomever and however often, quits no connection twice: what it quits
\* was the field, and the field is never a connection that was quit (node-redis 53-65).
THEOREM NoConnectionQuitTwice == Spec => []QuitOnce
<1>1. IInv => QuitOnce
  <2> SUFFICES ASSUME IInv, NEW c \in Handler PROVE quits[c] <= 1
    BY DEF QuitOnce
  <2>1. quits[c] = 0 \/ quits[c] = 1
    BY DEF IInv, QuitsOK
  <2> QED
    BY <2>1
<1> QED
  BY <1>1, Invariance, PTL

\* For any number of overlapping calls, what is up is the field, where close() finds it
\* (node-redis 31-41, ioredis 29-35).
THEOREM WhatIsUpIsTheField == Spec => []UpIsReachable
<1>1. IInv => UpIsReachable
  BY DEF IInv, FieldOK, UpIsReachable
<1> QED
  BY <1>1, Invariance, PTL

\* Nothing a close() silenced is registered again, and only registered handlers are
\* called (base-redis 82-86).
THEOREM SilencedStaysSilent == Spec => QuietAfterClose
<1>1. IInv /\ [Next]_vars => [\A h \in silenced : got'[h] = got[h]]_vars
  <2> SUFFICES ASSUME IInv, Next, NEW h \in silenced PROVE got'[h] = got[h]
    BY DEF vars
  <2>1. h \in Handler /\ h \notin handlers
    BY DEF IInv, TypeOK, CallsOK
  <2>2. ASSUME NEW g \in Handler, Calls(g) PROVE got'[h] = got[h]
    BY <2>2, SubscribeCases DEF Calls, Proceed, Confirm, Refuse, Return, feed
  <2>3. ASSUME NEW c \in Handler, Link(c) PROVE got'[h] = got[h]
    BY <2>1, <2>3 DEF Link, Connected, ConnectFails, Dispatch, feed
  <2>4. ASSUME NEW t \in Topic, Publish(t) PROVE got'[h] = got[h]
    BY <2>4 DEF Publish
  <2>5. ASSUME NEW k \in Closer, Closes(k) PROVE got'[h] = got[h]
    BY <2>5 DEF Closes, Close, CloseReturns, CloseThrows, feed
  <2> QED
    BY <2>2, <2>3, <2>4, <2>5, NextCases DEF vars, feed
<1> QED
  BY <1>1, Invariance, PTL DEF Spec, QuietAfterClose

\* What the messages need on top: one listener and one connection per topic.
FeedInv == IInv /\ UsesOK /\ OnceOK /\ FeedOK /\ ServedOK /\ NothingMissed

\* Every state of the transport satisfies that, too.
THEOREM FeedInvariance == Spec => []FeedInv
<1>1. Init => UsesOK /\ OnceOK /\ FeedOK /\ ServedOK /\ NothingMissed
  <2> SUFFICES ASSUME Init PROVE UsesOK /\ OnceOK /\ FeedOK /\ ServedOK /\ NothingMissed
    OBVIOUS
  <2>1. /\ \A c \in Handler : wire[c] = <<>> /\ got[c] = <<>> /\ call[c] = "idle" /\ via[c] = None
        /\ \A c \in Handler, t \in Topic : dispatches[c][t] = 0
        /\ \A c \in Handler : conn[c] = "none"
        /\ subscribed = {}
    BY DEF Init
  <2>2. \A c \in Handler, t \in Topic : ~Uses(c, t)
    BY <2>1, HandlerAssumption DEF Uses
  <2>3. UsesOK
    BY <2>2 DEF UsesOK
  <2>4. OnceOK
    BY <2>1, TopicType DEF OnceOK, InFlight
  <2>5. FeedOK
    BY <2>1 DEF FeedOK, OrderedOK, NewerOK
  <2>6. ServedOK /\ NothingMissed
    BY <2>1 DEF ServedOK, NothingMissed
  <2> QED
    BY <2>3, <2>4, <2>5, <2>6
<1>2. FeedInv /\ [Next]_vars => FeedInv'
  BY NextIInv, NextUses, NextFeed, NextServed, NextMissesNothing DEF FeedInv
<1> QED
  BY <1>1, <1>2, InitIInv, PTL DEF Spec, FeedInv

\* Until a close(), no message of its topic passes a handler whose subscribe() has
\* returned, whichever call made the connection and confirmed the topic (base-redis 55-59).
THEOREM NothingIsMissed == Spec => []NothingMissed
<1>1. FeedInv => NothingMissed
  BY DEF FeedInv
<1> QED
  BY <1>1, FeedInvariance, PTL

\* The transport implements the contract: a message is dispatched once for all handlers
\* of its topic, none of which has heard a newer one, through connections that come and
\* go and close() calls in between (base-redis 49-80; PROTOCOL.md 1.1).
THEOREM TransportKeepsContract == Spec => KeepsContract
<1>1. Init => Contract!Init
  BY DEF Init, Contract!Init
<1>2. FeedInv /\ [Next]_vars => [Contract!Next]_(Contract!vars)
  <2> SUFFICES ASSUME FeedInv, [Next]_vars PROVE Contract!Next \/ UNCHANGED <<published, got>>
    BY DEF Contract!vars
  <2>1. ASSUME NEW h \in Handler, Calls(h) PROVE UNCHANGED <<published, got>>
    BY <2>1, SubscribeCases DEF Calls, Proceed, Confirm, Refuse, Return, feed
  <2>2. ASSUME NEW c \in Handler, Connected(c) \/ ConnectFails(c) PROVE UNCHANGED <<published, got>>
    BY <2>2 DEF Connected, ConnectFails, feed
  <2>3. ASSUME NEW c \in Handler, Dispatch(c) PROVE Contract!Next
    <3>1. PICK n, t : n = Head(wire[c]) /\ t = published[n]
      OBVIOUS
    <3>2. /\ n \in 1..Len(published) /\ UNCHANGED published
          /\ got' = [h \in Handler |-> IF h \in handlers /\ TopicOf[h] = t
                                       THEN Append(got[h], n) ELSE got[h]]
          /\ \A h \in Handler : TopicOf[h] = t => \A k \in 1..Len(got[h]) : got[h][k] < n
      BY <2>3, <3>1, DispatchEffect DEF FeedInv
    <3> DEFINE audience == {h \in Handler : h \in handlers /\ TopicOf[h] = t}
    <3>3. got' = [h \in Handler |-> IF h \in audience THEN Append(got[h], n) ELSE got[h]]
      BY <3>2
    <3>4. Contract!Deliver(n, audience)
      BY <3>1, <3>2, <3>3 DEF Contract!Deliver
    <3>5. audience \in SUBSET Handler
      OBVIOUS
    <3> HIDE DEF audience
    <3> QED
      BY <3>2, <3>4, <3>5 DEF Contract!Next
  <2>4. ASSUME NEW t \in Topic, Publish(t) PROVE Contract!Next
    BY <2>4 DEF Publish, Contract!Next, Contract!Publish
  <2>5. ASSUME NEW k \in Closer, Closes(k) PROVE UNCHANGED <<published, got>>
    BY <2>5 DEF Closes, Close, CloseReturns, CloseThrows, feed
  <2>6. CASE UNCHANGED vars
    BY <2>6 DEF vars, feed
  <2> QED
    BY <2>1, <2>2, <2>3, <2>4, <2>5, <2>6, NextCases DEF Link
<1> QED
  BY <1>1, <1>2, FeedInvariance, PTL DEF Spec, KeepsContract, Contract!Spec

=============================================================================
