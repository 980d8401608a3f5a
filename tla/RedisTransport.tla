---------------------------- MODULE RedisTransport ----------------------------
(***************************************************************************)
(* One Redis transport of packages/redis: the base class, with the hooks   *)
(* of either client library, and the messages that reach its handlers.     *)
(* Every action is one synchronous stretch of the code, or one answer of   *)
(* the library, which is external.                                         *)
(*                                                                         *)
(* A connection is named by the handler whose subscribe() call made it.    *)
(* The prefix, put before a topic and taken off again, is left out, and so *)
(* is the fault of a handler, which dispatch() catches.  A connection is   *)
(* not interrupted: what the medium loses is RemoteReplEngine's.           *)
(***************************************************************************)
EXTENDS Naturals, Sequences

CONSTANTS
    Handler,       \* the handlers, each for one subscribe() call
    Topic,
    TopicOf,       \* the topic of each handler
    Closer,        \* the close() calls: Nest's hook and the service each make one
    MaxMessages,   \* bound on the messages published
    None

ASSUME HandlerAssumption == None \notin Handler /\ TopicOf \in [Handler -> Topic]
ASSUME MessagesAssumption == MaxMessages \in Nat

VARIABLES
    library,       \* "node" (node-redis) or "io" (ioredis); never changes
    handlers,      \* the handlers map
    subscribed,    \* the subscribed set
    subscriber,    \* the field
    connecting,    \* the field: the connection whose promise is memoized
    conn,          \* the state of each connection
    quits,         \* how often quit() was called on it
    dispatches,    \* how often a message of a topic is dispatched that comes in on it
    wire,          \* the messages on their way on it
    call,          \* how far each subscribe() call has come
    via,           \* the connection it uses
    closer,        \* how far each close() call has come
    quitting,      \* the connection it detached
    silenced,      \* the handlers a close() that has returned had found
    published,     \* the topics of the messages published
    since,         \* how many were when a subscribe() call returned
    got            \* the messages each handler was called with

fields  == <<handlers, subscribed, subscriber, connecting>>
links   == <<conn, quits, dispatches>>
calls   == <<call, via, since>>
closing == <<closer, quitting, silenced>>
feed    == <<wire, published, got>>
vars    == <<library, fields, links, calls, closing, feed>>

Call == {"idle",
         "connecting",    \* awaits ensureSubscriber() (node-redis only)
         "subscribing",   \* awaits the library's subscribe()
         "confirmed",     \* it resolved, and the continuation is due
         "returned", "failed"}

TypeOK ==
    /\ library \in {"node", "io"}
    /\ handlers \subseteq Handler /\ subscribed \subseteq Topic
    /\ subscriber \in Handler \cup {None} /\ connecting \in Handler \cup {None}
    /\ conn \in [Handler -> {"none", "connecting", "ready", "failed", "quitting", "closed"}]
    /\ quits \in [Handler -> Nat]
    /\ dispatches \in [Handler -> [Topic -> Nat]]
    /\ wire \in [Handler -> Seq(Nat)]
    /\ call \in [Handler -> Call]
    /\ via \in [Handler -> Handler \cup {None}]
    /\ closer \in [Closer -> {"idle", "quitting", "detached", "closed", "rejected"}]
    /\ quitting \in [Closer -> Handler \cup {None}]
    /\ silenced \subseteq Handler
    /\ published \in Seq(Topic)
    /\ since \in [Handler -> Nat]
    /\ got \in [Handler -> Seq(Nat)]

Init ==
    /\ library \in {"node", "io"}
    /\ handlers = {} /\ subscribed = {}
    /\ subscriber = None /\ connecting = None
    /\ conn = [c \in Handler |-> "none"]
    /\ quits = [c \in Handler |-> 0]
    /\ dispatches = [c \in Handler |-> [t \in Topic |-> 0]]
    /\ wire = [c \in Handler |-> <<>>]
    /\ call = [h \in Handler |-> "idle"]
    /\ via = [h \in Handler |-> None]
    /\ closer = [k \in Closer |-> "idle"]
    /\ quitting = [k \in Closer |-> None]
    /\ silenced = {}
    /\ published = <<>>
    /\ since = [h \in Handler |-> 0]
    /\ got = [h \in Handler |-> <<>>]

-----------------------------------------------------------------------------
(* What is assumed of the callers                                          *)

InFlight(h) == call[h] \notin {"idle", "returned", "failed"}

Closing == \E k \in Closer : closer[k] # "idle"

\* Two calls for one topic neither overlap on node-redis, which would register a
\* second listener, nor are made on two sides of a close(), which forgets the
\* first late; after a close() a call is only made where a start() that was under
\* way goes on to its next topic.
CallersTakeTurns(h) ==
    \A g \in Handler :
        /\ TopicOf[g] = TopicOf[h] /\ call[g] # "idle" => ~Closing
        /\ InFlight(g) => ~Closing /\ (library = "node" => TopicOf[g] # TopicOf[h])

-----------------------------------------------------------------------------
(* subscribe()                                                             *)

\* The connection a call reuses: the memoized one while node-redis connects.
ReusedUnmemoized == subscriber

Reused == IF subscriber # None THEN subscriber ELSE connecting

\* The subscribed set as subscribe() leaves it when it begins to wait.
SubscribedEarly(h) == subscribed \cup {TopicOf[h]}

SubscribedMeanwhile(h) == subscribed

\* subscribe() up to its first await: the handler is registered first of all.
\* ensureSubscriber() of ioredis sets the field at once, that of node-redis once
\* the connection is up.
Subscribe(h) ==
    LET reused == Reused
        c == IF reused = None THEN h ELSE reused
    IN /\ call[h] = "idle"
       /\ CallersTakeTurns(h)
       /\ handlers' = handlers \cup {h}
       /\ IF TopicOf[h] \in subscribed
          THEN /\ call' = [call EXCEPT ![h] = "returned"]
               /\ since' = [since EXCEPT ![h] = Len(published)]
               /\ UNCHANGED <<subscriber, connecting, conn, via>>
          ELSE /\ call' = [call EXCEPT ![h] =
                      IF library = "node" /\ subscriber = None THEN "connecting"
                                                               ELSE "subscribing"]
               /\ via' = [via EXCEPT ![h] = c]
               /\ conn' = IF reused = None THEN [conn EXCEPT ![h] = "connecting"] ELSE conn
               /\ subscriber' = IF library = "io" THEN c ELSE subscriber
               /\ connecting' = IF library = "node" /\ subscriber = None THEN c ELSE connecting
               /\ UNCHANGED since
       /\ subscribed' = SubscribedMeanwhile(h)
       /\ UNCHANGED <<library, quits, dispatches, closing, feed>>

\* The connection is up.  node-redis: connecting's then(), whether or not a
\* teardown has forgotten it meanwhile.
Connected(c) ==
    /\ conn[c] = "connecting"
    /\ conn' = [conn EXCEPT ![c] = "ready"]
    /\ subscriber' = IF library = "node" THEN c ELSE subscriber
    /\ UNCHANGED <<library, handlers, subscribed, connecting, quits, dispatches, calls, closing, feed>>

\* connect() rejects, and its promise stays memoized; ioredis goes on trying.
ConnectFails(c) ==
    /\ library = "node"
    /\ conn[c] = "connecting"
    /\ conn' = [conn EXCEPT ![c] = "failed"]
    /\ UNCHANGED <<library, fields, quits, dispatches, calls, closing, feed>>

AwaitsTheField(h) == subscriber = via[h]

\* The call awaits the promise it was given, not the field.
ConnectionAwaited(h) == TRUE

\* `const sub = await this.ensureSubscriber()` is over.
Proceed(h) ==
    /\ call[h] = "connecting"
    /\ conn[via[h]] # "connecting"
    /\ ConnectionAwaited(h)
    /\ call' = [call EXCEPT ![h] = IF conn[via[h]] = "failed" THEN "failed" ELSE "subscribing"]
    /\ UNCHANGED <<library, fields, links, via, since, closing, feed>>

ListenersPerCall(c, t) == dispatches[c][t] + 1

\* node-redis keeps the listener of every call; ioredis has the one of
\* ensureSubscriber() for all topics.
Listeners(c, t) == IF library = "node" THEN dispatches[c][t] + 1 ELSE 1

\* The server has confirmed the subscription, and the listener is in place.
Confirm(h) ==
    LET c == via[h]
    IN /\ call[h] = "subscribing"
       /\ conn[c] \in {"ready", "quitting"}
       /\ call' = [call EXCEPT ![h] = "confirmed"]
       /\ dispatches' = [dispatches EXCEPT ![c][TopicOf[h]] = Listeners(c, TopicOf[h])]
       /\ UNCHANGED <<library, fields, conn, quits, via, since, closing, feed>>

\* The library's subscribe() rejects: refused, or on a connection that is gone.
Refuse(h) ==
    /\ call[h] = "subscribing"
    /\ call' = [call EXCEPT ![h] = "failed"]
    /\ via' = [via EXCEPT ![h] = None]
    /\ UNCHANGED <<library, fields, links, since, closing, feed>>

Return(h) ==
    /\ call[h] = "confirmed"
    /\ call' = [call EXCEPT ![h] = "returned"]
    /\ since' = [since EXCEPT ![h] = Len(published)]
    /\ via' = [via EXCEPT ![h] = None]
    /\ subscribed' = subscribed \cup {TopicOf[h]}
    /\ UNCHANGED <<library, handlers, subscriber, connecting, links, closing, feed>>

-----------------------------------------------------------------------------
(* Messages                                                                *)

\* doPublish(), by whichever instance, on the publisher's own connection.  What goes
\* to nobody here, and nobody here has reason to expect, is no message.
Publish(t) ==
    LET subscribers == {c \in Handler : conn[c] \in {"ready", "quitting"} /\ dispatches[c][t] > 0}
    IN /\ Len(published) < MaxMessages
       /\ subscribers # {} \/ \E h \in handlers : TopicOf[h] = t /\ call[h] = "returned"
       /\ published' = Append(published, t)
       /\ wire' = [c \in Handler |-> IF c \in subscribers
                                      THEN Append(wire[c], Len(published) + 1) ELSE wire[c]]
       /\ UNCHANGED <<library, fields, links, calls, closing, got>>

\* dispatch(), once per listener, to every handler registered for the topic.
Dispatch(c) ==
    LET n == Head(wire[c])
        t == published[n]
        heard == [k \in 1..dispatches[c][t] |-> n]
    IN /\ conn[c] \in {"ready", "quitting"}
       /\ wire[c] # <<>>
       /\ wire' = [wire EXCEPT ![c] = Tail(@)]
       /\ got' = [h \in Handler |-> IF h \in handlers /\ TopicOf[h] = t
                                    THEN got[h] \o heard ELSE got[h]]
       /\ UNCHANGED <<library, fields, links, calls, closing, published>>

-----------------------------------------------------------------------------
(* close()                                                                 *)

SubscriberKept == subscriber

\* teardown() detaches before it awaits quit().
SubscriberDetached == None

\* close() up to its first await.
Close(k) ==
    /\ closer[k] = "idle"
    /\ subscriber' = SubscriberDetached
    /\ connecting' = None
    /\ quitting' = [quitting EXCEPT ![k] = subscriber]
    /\ IF subscriber = None
       THEN /\ closer' = [closer EXCEPT ![k] = "detached"]
            /\ UNCHANGED <<conn, quits>>
       ELSE /\ closer' = [closer EXCEPT ![k] = "quitting"]
            /\ conn' = [conn EXCEPT ![subscriber] = "quitting"]
            /\ quits' = [quits EXCEPT ![subscriber] = @ + 1]
    /\ UNCHANGED <<library, handlers, subscribed, dispatches, calls, silenced, feed>>

HandlersKept == handlers

\* What close() leaves in the handlers map.
HandlersLeft == {}

\* The connection is gone, with what was on its way on it.
Gone(k) ==
    /\ quitting' = [quitting EXCEPT ![k] = None]
    /\ conn' = [c \in Handler |-> IF c = quitting[k] THEN "closed" ELSE conn[c]]
    /\ wire' = [c \in Handler |-> IF c = quitting[k] THEN <<>> ELSE wire[c]]

\* quit() resolved, or there was nothing to quit: the maps are cleared.
CloseReturns(k) ==
    /\ closer[k] \in {"quitting", "detached"}
    /\ Gone(k)
    /\ closer' = [closer EXCEPT ![k] = "closed"]
    /\ silenced' = silenced \cup handlers
    /\ handlers' = HandlersLeft
    /\ subscribed' = {}
    /\ UNCHANGED <<library, subscriber, connecting, quits, dispatches, calls, published, got>>

\* quit() rejected: close() throws before it clears anything.
CloseThrows(k) ==
    /\ closer[k] = "quitting"
    /\ Gone(k)
    /\ closer' = [closer EXCEPT ![k] = "rejected"]
    /\ UNCHANGED <<library, fields, quits, dispatches, calls, silenced, published, got>>

Next ==
    \/ \E h \in Handler : Subscribe(h) \/ Connected(h) \/ ConnectFails(h) \/ Proceed(h)
                          \/ Confirm(h) \/ Refuse(h) \/ Return(h) \/ Dispatch(h)
    \/ \E t \in Topic : Publish(t)
    \/ \E k \in Closer : Close(k) \/ CloseReturns(k) \/ CloseThrows(k)

Spec == Init /\ [][Next]_vars

\* The library answers, one way or the other, and promises resolve.
Fairness ==
    \A h \in Handler : /\ WF_vars(Connected(h) \/ ConnectFails(h))
                       /\ WF_vars(Proceed(h) \/ Confirm(h) \/ Refuse(h) \/ Return(h))

FairSpec == Spec /\ Fairness

-----------------------------------------------------------------------------
(* Properties                                                              *)

Contract == INSTANCE PubSub WITH heard <- got

\* The transport keeps its contract (PROTOCOL.md 1.1): a handler hears each message
\* of its topic at most once and in order, whichever calls connected or subscribed
\* together and whatever close() left behind (base-redis 49-80).
KeepsContract == Contract!Spec

\* A handler registered when a close() returned is never called again, not even
\* through a connection that close() did not know of or by a start() that had not
\* yet returned (base-redis 82-86).
QuietAfterClose ==
    [][\A h \in silenced : got'[h] = got[h]]_vars

\* "A real client throws on a second quit()" (node-redis 53-56): Nest's hook and the
\* service close the same transport, at any distance, and no connection is quit twice.
QuitOnce == \A c \in Handler : quits[c] <= 1

\* A connection that came up is the one close() will find: no two calls connect
\* on their own, and none is overwritten (node-redis 31-41, ioredis 29-35).
UpIsReachable == \A c \in Handler : conn[c] = "ready" => subscriber = c

\* Until somebody closes the transport, a handler whose subscribe() has returned hears
\* every message of its topic "from then on" (PROTOCOL.md 1.1), even when its call
\* found the topic subscribed or another call subscribing it (base-redis 55-59).
NothingMissed ==
    ~Closing =>
        \A h \in Handler : call[h] = "returned" =>
            \A n \in since[h] + 1 .. Len(published) : published[n] = TopicOf[h] =>
                \/ \E k \in 1..Len(got[h]) : got[h][k] = n
                \/ \E c \in Handler : \E k \in 1..Len(wire[c]) : wire[c][k] = n

\* Every subscribe() call settles, be the connection it waits for refused, or
\* forgotten by a close() (node-redis 31-41): start() never hangs.
SubscribeSettles == \A h \in Handler : InFlight(h) ~> ~InFlight(h)

=============================================================================
