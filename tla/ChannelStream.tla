---------------------------- MODULE ChannelStream ----------------------------
(***************************************************************************)
(* The way of a channel's events to a browser, at one instance: the replay *)
(* buffer (ring-buffer.ts), the subscriptions of the engine (openStream()  *)
(* and events() of remote-repl-engine.ts), the frames the HTTP handlers    *)
(* make of them (handlers.ts, sse-frame.ts), the loop of a framework       *)
(* package that writes them (repl-router.ts, remote-repl.controller.ts),   *)
(* and an EventSource client that reconnects with its Last-Event-ID.  What *)
(* reaches the engine after stop() is left out.                            *)
(*                                                                         *)
(* Commands are RemoteReplEngine's: here a session is open or not.  Events *)
(* are numbered without a restart, which a cursor is only reliable for     *)
(* (PROTOCOL.md 4.4): an event is its id, and a ping is 0.                 *)
(***************************************************************************)
EXTENDS Naturals, Sequences, FiniteSets

CONSTANTS
    Stream,             \* the connections the client may make
    None,
    ReplayBufferSize,
    MaxEvents,          \* bound on the events of the channel
    MaxPings,           \* bound on the pings
    MaxReleases         \* bound on the releases

ASSUME StreamAssumption == None \notin Stream \cup Nat /\ IsFiniteSet(Stream)
ASSUME BoundsAssumption ==
    /\ ReplayBufferSize \in Nat /\ MaxEvents \in Nat
    /\ MaxPings \in Nat /\ MaxReleases \in Nat

VARIABLES
    \* the channel at this instance
    mapped,           \* the channels map has the channel
    buffer,           \* the events kept for replay
    subscriberCount,
    sinks,            \* the streams attached to the mapped state
    session,          \* whether the mapped state has a session
    handled,          \* the id of the last event onOut() handled
    releases,         \* releases handled
    stopped,          \* stop() was called
    pings,            \* pings sent
    \* the connections, seen from the server
    stream,
    \* the client
    conn,             \* its connection
    wire,             \* frames written to it and not yet received
    cursor,           \* its last event id
    got               \* the events it received, in order

channel == <<mapped, buffer, subscriberCount, sinks, session>>
feed    == <<handled, releases, stopped>>
client  == <<conn, wire, cursor, got>>
vars    == <<channel, feed, pings, stream, client>>

Ping == 0

Consumer == {"idle",      \* not started
             "awaiting",  \* awaits the promise of a next()
             "writing",   \* was given an event
             "ended"}     \* was given the end

Connection ==
    [opened: BOOLEAN, closed: BOOLEAN, done: BOOLEAN, queue: Seq(Nat), waiter: BOOLEAN,
     consumer: Consumer, value: Nat, lastRealId: Nat, written: Seq(Nat), since: Nat,
     missed: Nat]

\* Three fields only record, until the stream is closed: the events `written`, the last
\* event handled `since` when it was opened, and the last one not kept any more then.
Unopened ==
    [opened |-> FALSE, closed |-> FALSE, done |-> FALSE, queue |-> <<>>, waiter |-> FALSE,
     consumer |-> "idle", value |-> Ping, lastRealId |-> 0, written |-> <<>>, since |-> 0,
     missed |-> 0]

TypeOK ==
    /\ mapped \in BOOLEAN /\ session \in BOOLEAN /\ stopped \in BOOLEAN
    /\ buffer \in Seq(Nat) /\ subscriberCount \in Nat /\ sinks \subseteq Stream
    /\ handled \in Nat /\ releases \in Nat /\ pings \in Nat
    /\ stream \in [Stream -> Connection]
    /\ conn \in Stream \cup {None}
    /\ wire \in Seq([id: Nat, real: BOOLEAN])
    /\ cursor \in Nat \cup {None} /\ got \in Seq(Nat)

Init ==
    /\ mapped = FALSE /\ buffer = <<>> /\ subscriberCount = 0 /\ sinks = {}
    /\ session = FALSE
    /\ handled = 0 /\ releases = 0 /\ stopped = FALSE /\ pings = 0
    /\ stream = [s \in Stream |-> Unopened]
    /\ conn = None /\ wire = <<>> /\ cursor = None /\ got = <<>>

-----------------------------------------------------------------------------
(* The replay buffer                                                       *)

PushedOneShort(events, e) ==
    LET all == Append(events, e)
    IN IF Len(all) >= ReplayBufferSize THEN Tail(all) ELSE all

Pushed(events, e) ==
    LET all == Append(events, e)
    IN IF Len(all) > ReplayBufferSize THEN Tail(all) ELSE all

SinceInclusive(events, lastEventId) ==
    SelectSeq(events, LAMBDA e : lastEventId = None \/ e >= lastEventId)

\* since(): everything without a cursor, else what is beyond it, in the same order.
Since(events, lastEventId) ==
    LET kept == {n \in DOMAIN events : lastEventId = None \/ events[n] > lastEventId}
        At(m) == CHOOSE n \in kept : Cardinality({k \in kept : k < n}) = m - 1
    IN [m \in 1..Cardinality(kept) |-> events[At(m)]]

-----------------------------------------------------------------------------
(* events(): a queue and at most one waiting next()                        *)

SettleKeepsWaiter(st) ==
    IF ~st.waiter THEN st
    ELSE IF st.queue # <<>>
         THEN IF st.consumer = "awaiting"
              THEN [st EXCEPT !.queue = Tail(@), !.consumer = "writing", !.value = Head(st.queue)]
              ELSE [st EXCEPT !.queue = Tail(@)]
         ELSE IF st.done THEN [st EXCEPT !.consumer = "ended"] ELSE st

\* settle(): resolves the waiting next() with an event or the end.
Settle(st) ==
    IF ~st.waiter THEN st
    ELSE LET free == [st EXCEPT !.waiter = FALSE]
         IN IF st.queue # <<>>
            THEN [free EXCEPT !.queue = Tail(@), !.consumer = "writing", !.value = Head(st.queue)]
            ELSE IF st.done THEN [free EXCEPT !.consumer = "ended"] ELSE free

\* The sink's next() and complete().
SinkNext(st, e) == IF st.done THEN st ELSE Settle([st EXCEPT !.queue = Append(@, e)])

SinkComplete(st) == Settle([st EXCEPT !.done = TRUE])

FinishSilently(st) == [st EXCEPT !.done = TRUE, !.queue = <<>>]

\* finish(), apart from the close of the subscription.
Finish(st) == Settle([st EXCEPT !.done = TRUE, !.queue = <<>>])

-----------------------------------------------------------------------------
(* openStream() and the eviction                                           *)

\* getChannel() on a channel that may not be mapped.
Keep == mapped' = TRUE

\* maybeEvict(), when the handler leaves the channel with these values.
Evict(events, count, open) ==
    IF count = 0 /\ ~open /\ events = <<>>
    THEN mapped' = FALSE
    ELSE UNCHANGED mapped

ClosesTwice(st) == TRUE

\* The `closed` flag: only the first close() detaches.
Closes(st) == ~st.closed

\* close() of the subscription: detaches the sink, then onUnsubscribe(), which
\* finds the channel by its name.
Unsubscribe(s) ==
    IF Closes(stream[s])
    THEN LET count == IF subscriberCount = 0 THEN 0 ELSE subscriberCount - 1
         IN /\ sinks' = sinks \ {s}
            /\ IF mapped
               THEN /\ subscriberCount' = count
                    /\ Evict(buffer, count, session)
               ELSE UNCHANGED <<mapped, subscriberCount>>
            /\ UNCHANGED <<buffer, session>>
    ELSE UNCHANGED channel

\* The last event that the buffer does not keep any more.
Gone == handled - Len(buffer)

\* The client connects: the request handler opens the stream, which replays
\* into its queue, and the frames start from the client's cursor.
Connect(s) ==
    /\ conn = None /\ ~stopped
    /\ ~stream[s].opened
    /\ conn' = s
    /\ stream' = [stream EXCEPT ![s] =
            [Unopened EXCEPT !.opened = TRUE,
                             !.queue = Since(buffer, cursor),
                             !.lastRealId = IF cursor = None THEN 0 ELSE cursor,
                             !.since = handled,
                             !.missed = Gone]]
    /\ Keep
    /\ subscriberCount' = subscriberCount + 1
    /\ sinks' = sinks \cup {s}
    /\ UNCHANGED <<buffer, session, feed, pings, wire, cursor, got>>

-----------------------------------------------------------------------------
(* The engine's handlers                                                   *)

\* ensureSession(), when a command is executed here, whose events follow.
OpenSession ==
    /\ ~session /\ ~stopped
    /\ handled < MaxEvents
    /\ Keep
    /\ session' = TRUE
    /\ UNCHANGED <<buffer, subscriberCount, sinks, feed, pings, stream, client>>

\* onOut(): into the buffer, then to every sink attached.
OnOut ==
    LET e == handled + 1
    IN /\ handled < MaxEvents /\ ~stopped
       /\ Keep
       /\ handled' = e
       /\ buffer' = Pushed(buffer, e)
       /\ stream' = [s \in Stream |-> IF s \in sinks THEN SinkNext(stream[s], e) ELSE stream[s]]
       /\ UNCHANGED <<subscriberCount, sinks, session, releases, stopped, pings, client>>

\* onSys() of a release: the buffer is cleared where the session is.
OnRelease ==
    LET events == IF session THEN <<>> ELSE buffer
    IN /\ mapped
       /\ releases < MaxReleases
       /\ releases' = releases + 1
       /\ buffer' = events
       /\ session' = FALSE
       /\ Evict(events, subscriberCount, FALSE)
       /\ UNCHANGED <<subscriberCount, sinks, handled, stopped, pings, stream, client>>

\* The ping interval runs until the subscription is closed.
SendPing(s) ==
    /\ pings < MaxPings
    /\ stream[s].opened /\ ~stream[s].closed
    /\ pings' = pings + 1
    /\ stream' = [stream EXCEPT ![s] = SinkNext(@, Ping)]
    /\ UNCHANGED <<channel, feed, client>>

\* stop(): completes every sink and forgets the channel.
Stop ==
    /\ ~stopped
    /\ stopped' = TRUE
    /\ stream' = [s \in Stream |-> IF s \in sinks THEN SinkComplete(stream[s]) ELSE stream[s]]
    /\ mapped' = FALSE
    /\ buffer' = <<>> /\ subscriberCount' = 0 /\ sinks' = {} /\ session' = FALSE
    /\ UNCHANGED <<handled, releases, pings, client>>

-----------------------------------------------------------------------------
(* The loop that writes a response                                         *)

PulledBlindly(st) ==
    IF st.done THEN [st EXCEPT !.closed = TRUE, !.consumer = "ended"]
               ELSE [st EXCEPT !.waiter = TRUE, !.consumer = "awaiting"]

\* next(): an event that is queued, the end, or a promise to wait for.
Pulled(st) ==
    IF st.queue # <<>>
    THEN [st EXCEPT !.queue = Tail(@), !.consumer = "writing", !.value = Head(st.queue)]
    ELSE IF st.done
         THEN [st EXCEPT !.closed = TRUE, !.consumer = "ended"]
         ELSE [st EXCEPT !.waiter = TRUE, !.consumer = "awaiting"]

\* The loop calls next(), which closes the subscription when it finds the end.
Pull(s, st) ==
    /\ stream' = [stream EXCEPT ![s] = Pulled(st)]
    /\ IF Pulled(st).consumer = "ended" THEN Unsubscribe(s) ELSE UNCHANGED channel

StartLoop(s) ==
    /\ stream[s].opened /\ stream[s].consumer = "idle"
    /\ Pull(s, stream[s])
    /\ UNCHANGED <<feed, pings, client>>

StampedWithItsId(st) == st.value

\* toSseFrame(): a ping repeats the id of the last event sent here.
Stamped(st) == IF st.value = Ping THEN st.lastRealId ELSE st.value

\* The frame is made when its turn comes and written; then the loop calls next()
\* again.  A response whose client is gone swallows the frame.
Write(s) ==
    LET st == stream[s]
        real == st.value # Ping
    IN /\ st.consumer = "writing"
       /\ Pull(s, [st EXCEPT !.value = Ping,
                             !.lastRealId = IF real THEN st.value ELSE @,
                             !.written = IF real THEN Append(@, st.value) ELSE @])
       /\ wire' = IF conn = s THEN Append(wire, [id |-> Stamped(st), real |-> real]) ELSE wire
       /\ UNCHANGED <<feed, pings, conn, cursor, got>>

\* The response is closed, by the client or after its end: frames.return().
ResponseCloses(s) ==
    LET st == stream[s]
    IN /\ st.opened
       /\ ~st.closed \/ ~st.done
       /\ conn # s
       /\ Unsubscribe(s)
       /\ stream' = [stream EXCEPT ![s] =
              [Finish(st) EXCEPT !.closed = TRUE, !.written = <<>>, !.since = 0,
                                !.missed = 0]]
       /\ UNCHANGED <<feed, pings, client>>

-----------------------------------------------------------------------------
(* The client, an EventSource                                              *)

\* It takes over the id of every frame, a ping's too.
Receive ==
    /\ wire # <<>>
    /\ wire' = Tail(wire)
    /\ cursor' = Head(wire).id
    /\ got' = IF Head(wire).real THEN Append(got, Head(wire).id) ELSE got
    /\ UNCHANGED <<channel, feed, pings, stream, conn>>

\* The connection breaks, and what was on it is lost.
Break ==
    /\ conn # None
    /\ conn' = None
    /\ wire' = <<>>
    /\ UNCHANGED <<channel, feed, pings, stream, cursor, got>>

\* The server ended the response.
SeeEnd ==
    /\ conn # None
    /\ stream[conn].consumer = "ended" /\ wire = <<>>
    /\ conn' = None
    /\ UNCHANGED <<channel, feed, pings, stream, wire, cursor, got>>

Next ==
    \/ OpenSession \/ OnOut \/ OnRelease \/ Stop
    \/ Receive \/ Break \/ SeeEnd
    \/ \E s \in Stream : Connect(s) \/ SendPing(s) \/ StartLoop(s) \/ Write(s) \/ ResponseCloses(s)

Spec == Init /\ [][Next]_vars

\* Promises resolve, a closed response is noticed and an open connection delivers.
\* Nothing is assumed of the client's connecting, nor of events and pings.
Fairness ==
    /\ WF_vars(Receive \/ SeeEnd)
    /\ \A s \in Stream : WF_vars(StartLoop(s) \/ Write(s) \/ ResponseCloses(s))

FairSpec == Spec /\ Fairness

-----------------------------------------------------------------------------
(* Properties                                                              *)

\* What a stream was given, in order: written, in hand and queued.
Given(st) == st.written \o <<st.value>> \o st.queue

\* The replay is a snapshot and the live events follow, "so no event is skipped or
\* duplicated between the two" (PROTOCOL.md 6.3), at any interleaving of onOut() with
\* the next() calls of the loop: the events a stream was given, pings aside, increase,
\* leave nothing out up to the last event handled, and reach back to its opening.
StreamFollowsChannel ==
    \A s \in sinks :
        LET given  == Given(stream[s])
            events == {n \in 1..Len(given) : given[n] # Ping}
        IN /\ \E first \in 0..stream[s].since : {given[n] : n \in events} = (first + 1)..handled
           /\ \A m, n \in events : m < n => given[m] < given[n]

\* A client that reconnects, whatever its connections lost and whatever pings
\* it got, is never sent an event again that it has received, nor an older one
\* (sse-frame.ts:14-36).
DeliveredInOrder == \A m, n \in 1..Len(got) : m < n => got[m] < got[n]

\* Nor does it miss one: as long as it is connected, after stop() too, each event beyond
\* those that were gone when it connected was received or is on its way, and until a
\* release only those are gone that the buffer had no place for (ring-buffer.ts:8-18).
NothingSkipped ==
    conn # None =>
        LET st == stream[conn]
        IN /\ \A e \in (st.missed + 1)..handled :
                 \/ \E n \in 1..Len(got) : got[n] = e
                 \/ \E n \in 1..Len(Given(st)) : Given(st)[n] = e
           /\ releases = 0 => st.missed = 0 \/ st.missed + ReplayBufferSize <= st.since

\* The client reads a log of the events, of which the buffer keeps the last: whatever is
\* queued, in hand, on a wire or lost, it goes on with the next event each time, and no
\* ping moves its cursor.  Only a release or stop() lets the buffer forget.
Log == INSTANCE EventLog WITH
    Size <- ReplayBufferSize,
    length <- handled,
    kept <- Len(buffer),
    open <- conn # None,
    missed <- IF conn = None THEN 0 ELSE stream[conn].missed,
    position <- IF cursor = None THEN 0 ELSE cursor,
    received <- got

ReadsTheLog == Log!Spec

\* The count maybeEvict() trusts is the number of sinks attached, however often a
\* stream is closed: by its loop, by its response and by stop() (246-261, 294-309,
\* 509-514).  A stream is never evicted from under a client.
SubscribersCounted ==
    ~stopped => subscriberCount = Cardinality(sinks) /\ (sinks # {} => mapped)

Abandoned(s) == stream[s].opened /\ (conn # s \/ stream[s].done)
Detached(s)  == stream[s].closed /\ stream[s].consumer = "ended"

\* A stream whose client is gone or whose engine stopped leaves nothing behind: its
\* loop ends, even if it awaits an event, and its subscription is closed (268-270).
\* A stream stays abandoned, so this is Abandoned(s) ~> Detached(s) for each.
AbandonedStreamDetaches == []<>(\A s \in Stream : Abandoned(s) => Detached(s))

\* The event is queued, in hand or on the wire of the client's connection.
Travels(e) ==
    /\ conn # None
    /\ \/ stream[conn].value = e
       \/ \E n \in 1..Len(stream[conn].queue) : stream[conn].queue[n] = e
       \/ \E n \in 1..Len(wire) : wire[n] = [id |-> e, real |-> TRUE]

\* No event gets stuck on its way: it arrives or the connection breaks.
EventsArrive == []<>(\A e \in 1..MaxEvents : ~Travels(e))

=============================================================================
