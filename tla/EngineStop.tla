------------------------------ MODULE EngineStop ------------------------------
(***************************************************************************)
(* One engine of packages/core/src/engine/remote-repl-engine.ts and one    *)
(* channel, from start() to what is left running after stop().  Where      *)
(* RemoteReplEngine has one state per instance, here the ChannelStates are *)
(* objects: a command, a stream, a timer and a session's callback each     *)
(* hold on to the one they began with, whatever the channels map holds by  *)
(* then, and getChannel() makes a new one where it holds none.             *)
(*                                                                         *)
(* The transport delivers the engine its own messages, until it is closed  *)
(* by stop(): at once (in memory) or later (Redis).  Event ids, the tags   *)
(* of output and heartbeats are RemoteReplEngine's.                        *)
(***************************************************************************)
EXTENDS Naturals, Sequences, FiniteSets

CONSTANTS
    Command,
    Stream,
    Object,             \* the ChannelStates that may be in use at once
    None,
    ReplayBufferSize,
    MaxTtls,            \* bound on the TTL timers that fire
    MaxChunks,          \* bound on the output chunks
    MaxFaults           \* bound on the failures of the context factory

\* There is always an object to spare.
ASSUME ObjectAssumption ==
    /\ IsFiniteSet(Command) /\ IsFiniteSet(Stream) /\ IsFiniteSet(Object)
    /\ Cardinality(Object) > Cardinality(Command) + Cardinality(Stream)

ASSUME StopAssumption ==
    /\ None \notin Command \cup Object
    /\ ReplayBufferSize \in Nat /\ MaxTtls \in Nat /\ MaxChunks \in Nat /\ MaxFaults \in Nat

VARIABLES
    stopped,      \* stop() was called
    listening,    \* the transport still delivers to the engine
    owned,        \* the ownership map names this instance
    channel,      \* the channels map's entry, if there is one
    state,        \* the objects
    posted,       \* the commands dispatched
    phase,        \* how far each command has come
    at,           \* the state onCmd() captured for it, and its session's callback
    ranIn,        \* the session executeCommand() captured
    open,         \* REPL servers not closed, named by the command that made them
    stream,       \* how far each stream has come
    on,           \* the state it is attached to
    bus,          \* messages published and not yet delivered, until it closes
    left          \* what is left of the bounds

map      == <<channel, state>>
commands == <<posted, phase, at, ranIn, open>>
streams  == <<stream, on>>
vars     == <<stopped, listening, owned, map, commands, streams, bus, left>>

Phase == {"idle", "claiming", "queued", "echoing", "evaluating", "finishing", "failing", "settled"}

Message == [topic: {"cmd"}, commandId: Command] \cup [topic: {"out"}]
           \cup [topic: {"sys"}, kind: {"claim", "release"}]

ChannelState == [session: Command \cup {None}, execQueue: Seq(Command), pending: Nat,
                 subscriberCount: Nat, buffer: Nat, ttlTimer: BOOLEAN]

TypeOK ==
    /\ stopped \in BOOLEAN /\ listening \in BOOLEAN /\ owned \in BOOLEAN
    /\ channel \in Object \cup {None}
    /\ state \in [Object -> ChannelState]
    /\ posted \subseteq Command
    /\ phase \in [Command -> Phase]
    /\ at \in [Command -> Object \cup {None}]
    /\ ranIn \in [Command -> Command \cup {None}]
    /\ open \subseteq Command
    /\ stream \in [Stream -> {"unopened", "open", "completed", "closed"}]
    /\ on \in [Stream -> Object \cup {None}]
    /\ bus \in Seq(Message)
    /\ left \in [ttls: Nat, chunks: Nat, faults: Nat]

NewChannelState ==
    [session |-> None, execQueue |-> <<>>, pending |-> 0, subscriberCount |-> 0,
     buffer |-> 0, ttlTimer |-> FALSE]

Init ==
    /\ stopped = FALSE /\ listening = TRUE /\ owned = FALSE
    /\ channel = None
    /\ state = [o \in Object |-> NewChannelState]
    /\ posted = {}
    /\ phase = [c \in Command |-> "idle"]
    /\ at = [c \in Command |-> None]
    /\ ranIn = [c \in Command |-> None]
    /\ open = {}
    /\ stream = [s \in Stream |-> "unopened"]
    /\ on = [s \in Stream |-> None]
    /\ bus = <<>>
    /\ left = [ttls |-> MaxTtls, chunks |-> MaxChunks, faults |-> MaxFaults]

-----------------------------------------------------------------------------
(* Helpers                                                                 *)

InFlight(c) == phase[c] \notin {"idle", "settled"}
Attached(s) == stream[s] \in {"open", "completed"}

Spend(kind) == left[kind] > 0 /\ left' = [left EXCEPT ![kind] = @ - 1]

\* An object that nothing refers to: JavaScript would make a new one instead.
Unreferenced(o) ==
    /\ o # channel
    /\ \A c \in Command : InFlight(c) => at[c] # o
    /\ \A s \in Stream : Attached(s) => on[s] # o
    /\ state[o].session = None /\ ~state[o].ttlTimer

Fresh == CHOOSE o \in Object : Unreferenced(o)

\* getChannel(): the object the map holds, or a new one in its place.
Mapped == IF channel # None THEN channel ELSE Fresh

MappedState == IF channel # None THEN state[channel] ELSE NewChannelState

Claim   == [topic |-> "sys", kind |-> "claim"]
Release == [topic |-> "sys", kind |-> "release"]

\* What is published once the transport has closed reaches nobody.
Published(m) == IF listening THEN Append(bus, m) ELSE bus

\* emit() looks the channel up anew, and publishes.
Emit(states) ==
    /\ channel' = Mapped
    /\ state' = IF channel # None THEN states ELSE [states EXCEPT ![Mapped] = NewChannelState]
    /\ bus' = Published([topic |-> "out"])

EvictableWhilePending(st) == st.subscriberCount = 0 /\ st.session = None /\ st.buffer = 0

EvictableWithSession(st) == st.pending = 0 /\ st.subscriberCount = 0

EvictableWithStreams(st) == st.pending = 0 /\ st.session = None /\ st.buffer = 0

Evictable(st) ==
    /\ st.pending = 0 /\ st.subscriberCount = 0
    /\ st.session = None /\ st.buffer = 0

\* maybeEvict(): judges the state it is given, and drops the one the map holds.
MaybeEvict(o, st) ==
    /\ state' = [state EXCEPT ![o] = st]
    /\ channel' = IF Evictable(st) THEN None ELSE channel

\* The first message of the bus reaches the handler of its topic.
Receives(topic) ==
    /\ bus # <<>> /\ Head(bus).topic = topic

-----------------------------------------------------------------------------
(* Commands                                                                *)

Dispatch(c) ==
    /\ c \notin posted
    /\ posted' = posted \cup {c}
    /\ bus' = Published([topic |-> "cmd", commandId |-> c])
    /\ UNCHANGED <<stopped, listening, owned, map, phase, at, ranIn, open, streams, left>>

\* touchTtl() and the link chained onto execQueue.
Enqueued(st, c) == [st EXCEPT !.ttlTimer = TRUE, !.execQueue = Append(@, c)]

\* onCmd() up to its first await: the only instance owns the channel or claims it.
OnCmd ==
    LET c  == Head(bus).commandId
        st == [MappedState EXCEPT !.pending = @ + 1]
    IN /\ Receives("cmd")
       /\ channel' = Mapped
       /\ at' = [at EXCEPT ![c] = Mapped]
       /\ owned' = TRUE
       /\ IF owned
          THEN /\ state' = [state EXCEPT ![Mapped] = Enqueued(st, c)]
               /\ phase' = [phase EXCEPT ![c] = "queued"]
               /\ bus' = Tail(bus)
          ELSE /\ state' = [state EXCEPT ![Mapped] = st]
               /\ phase' = [phase EXCEPT ![c] = "claiming"]
               /\ bus' = Append(Tail(bus), Claim)
       /\ UNCHANGED <<stopped, listening, posted, ranIn, open, streams, left>>

\* The claim was published: onCmd() goes on with the state it captured.
Claimed(c) ==
    /\ phase[c] = "claiming"
    /\ phase' = [phase EXCEPT ![c] = "queued"]
    /\ state' = [state EXCEPT ![at[c]] = Enqueued(@, c)]
    /\ UNCHANGED <<stopped, listening, owned, channel, posted, at, ranIn, open, streams, bus, left>>

MayBeginOutOfTurn(c) == phase[c] = "queued"

MayBegin(c) ==
    phase[c] = "queued" /\ Head(state[at[c]].execQueue) = c

\* ensureSession() on the captured state, the echo on the mapped one.
BeginExecute(c) ==
    LET session == IF state[at[c]].session = None THEN c ELSE state[at[c]].session
    IN /\ MayBegin(c)
       /\ phase' = [phase EXCEPT ![c] = "echoing"]
       /\ ranIn' = [ranIn EXCEPT ![c] = session]
       /\ open' = IF session = c THEN open \cup {c} ELSE open
       /\ Emit([state EXCEPT ![at[c]].session = session])
       /\ UNCHANGED <<stopped, listening, owned, posted, at, streams, left>>

\* The context factory throws, and the link's catch reports it.
FailExecute(c) ==
    /\ MayBegin(c)
    /\ state[at[c]].session = None
    /\ Spend("faults")
    /\ phase' = [phase EXCEPT ![c] = "failing"]
    /\ Emit(state)
    /\ UNCHANGED <<stopped, listening, owned, posted, at, ranIn, open, streams>>

StartEval(c) ==
    /\ phase[c] = "echoing"
    /\ phase' = [phase EXCEPT ![c] = "evaluating"]
    /\ UNCHANGED <<stopped, listening, owned, map, posted, at, ranIn, open, streams, bus, left>>

\* onOutput, while its session is that of the state it captured: also from a
\* server that was closed by stop(), which leaves the field as it is.
WriteOutput(o) ==
    LET s == state[o].session
    IN /\ s # None
       /\ phase[s] \in {"evaluating", "finishing", "settled"}
       /\ Spend("chunks")
       /\ Emit(state)
       /\ UNCHANGED <<stopped, listening, owned, commands, streams>>

\* session.eval() resolves, and the done event is emitted.
EvalSettles(c) ==
    /\ phase[c] = "evaluating"
    /\ phase' = [phase EXCEPT ![c] = "finishing"]
    /\ Emit(state)
    /\ UNCHANGED <<stopped, listening, owned, posted, at, ranIn, open, streams, left>>

FinishedTwice(st) == [st EXCEPT !.pending = IF @ < 2 THEN 0 ELSE @ - 2, !.execQueue = Tail(@)]

Finished(st) == [st EXCEPT !.pending = @ - 1, !.execQueue = Tail(@)]

\* The link's finally.
Settle(c) ==
    /\ phase[c] \in {"finishing", "failing"}
    /\ phase' = [phase EXCEPT ![c] = "settled"]
    /\ MaybeEvict(at[c], Finished(state[at[c]]))
    /\ UNCHANGED <<stopped, listening, owned, posted, at, ranIn, open, streams, bus, left>>

-----------------------------------------------------------------------------
(* Events, ownership, timers and streams                                   *)

Pushed(n) == IF n + 1 > ReplayBufferSize THEN ReplayBufferSize ELSE n + 1

OnOut ==
    /\ Receives("out")
    /\ bus' = Tail(bus)
    /\ channel' = Mapped
    /\ state' = [state EXCEPT ![Mapped] = [MappedState EXCEPT !.buffer = Pushed(@)]]
    /\ UNCHANGED <<stopped, listening, owned, commands, streams, left>>

OnClaim ==
    /\ Receives("sys") /\ Head(bus).kind = "claim"
    /\ bus' = Tail(bus)
    /\ owned' = TRUE
    /\ UNCHANGED <<stopped, listening, map, commands, streams, left>>

OnRelease ==
    LET st == MappedState
    IN /\ Receives("sys") /\ Head(bus).kind = "release"
       /\ bus' = Tail(bus)
       /\ owned' = FALSE
       /\ open' = open \ {st.session}
       /\ IF channel = None THEN UNCHANGED map
          ELSE MaybeEvict(channel, IF st.session = None THEN st
                                   ELSE [st EXCEPT !.session = None, !.buffer = 0])
       /\ UNCHANGED <<stopped, listening, posted, phase, at, ranIn, streams, left>>

\* Of any state, the mapped one or another: nothing but a new command, or a stop()
\* that finds the state in the map, disarms a timer.
TtlFires(o) ==
    /\ state[o].ttlTimer
    /\ Spend("ttls")
    /\ state' = [state EXCEPT ![o].ttlTimer = FALSE]
    /\ bus' = Published(Release)
    /\ UNCHANGED <<stopped, listening, owned, channel, commands, streams>>

OpenStream(s) ==
    /\ stream[s] = "unopened"
    /\ stream' = [stream EXCEPT ![s] = "open"]
    /\ on' = [on EXCEPT ![s] = Mapped]
    /\ channel' = Mapped
    /\ state' = [state EXCEPT ![Mapped] = [MappedState EXCEPT !.subscriberCount = @ + 1]]
    /\ UNCHANGED <<stopped, listening, owned, commands, bus, left>>

\* close() of a subscription: onUnsubscribe() counts down whichever state is mapped.
CloseStream(s) ==
    /\ Attached(s)
    /\ stream' = [stream EXCEPT ![s] = "closed"]
    /\ on' = [on EXCEPT ![s] = None]
    /\ IF channel = None THEN UNCHANGED map
       ELSE MaybeEvict(channel, [state[channel] EXCEPT !.subscriberCount =
                                     IF @ = 0 THEN 0 ELSE @ - 1])
    /\ UNCHANGED <<stopped, listening, owned, commands, bus, left>>

-----------------------------------------------------------------------------
(* stop()                                                                  *)

SessionsLeftOpen(st) == open

\* state.session?.close(); the field is not cleared.
SessionsAfterStop(st) == open \ {st.session}

\* The synchronous stretch of stop(), up to the transport's close().
Stop ==
    /\ ~stopped
    /\ stopped' = TRUE
    /\ channel' = None
    /\ IF channel = None THEN UNCHANGED <<state, open, stream>>
       ELSE /\ state' = [state EXCEPT ![channel].ttlTimer = FALSE]
            /\ open' = SessionsAfterStop(state[channel])
            /\ stream' = [s \in Stream |-> IF stream[s] = "open" /\ on[s] = channel
                                           THEN "completed" ELSE stream[s]]
    /\ UNCHANGED <<listening, owned, posted, phase, at, ranIn, on, bus, left>>

\* The transport has closed: nothing is delivered any more.
TransportCloses ==
    /\ stopped /\ listening
    /\ listening' = FALSE
    /\ bus' = <<>>
    /\ UNCHANGED <<stopped, owned, map, commands, streams, left>>

Handle == OnCmd \/ OnOut \/ OnClaim \/ OnRelease

Proceed(c) == Claimed(c) \/ BeginExecute(c) \/ FailExecute(c) \/ StartEval(c) \/ Settle(c)

Next ==
    \/ \E c \in Command : Dispatch(c) \/ Proceed(c) \/ EvalSettles(c)
    \/ \E o \in Object : WriteOutput(o) \/ TtlFires(o)
    \/ \E s \in Stream : OpenStream(s) \/ CloseStream(s)
    \/ Handle \/ Stop \/ TransportCloses

Spec == Init /\ [][Next]_vars

\* Messages are delivered and promises resolve, but an evaluation ends for sure
\* only because its session was closed.
Fairness ==
    /\ WF_vars(Handle)
    /\ \A c \in Command : WF_vars(Proceed(c)) /\ WF_vars(ranIn[c] \notin open /\ EvalSettles(c))

FairSpec == Spec /\ Fairness

-----------------------------------------------------------------------------
(* Properties                                                              *)

\* Until stop(), whatever a command or a stream captured is what the map holds: no
\* eviction comes between onCmd() and its link, nor between a client and its events,
\* so emit() and onUnsubscribe() find the same state again (346-360, 500-508).
NothingOrphaned ==
    ~stopped => /\ \A c \in Command : InFlight(c) => at[c] = channel
                /\ \A s \in Stream : Attached(s) => on[s] = channel

\* Each state counts the commands that hold it, also those that go on, on a state
\* that is no longer mapped, after stop() (416-422).
PendingPerState ==
    \A o \in Object :
        state[o].pending = Cardinality({c \in Command : InFlight(c) /\ at[c] = o})

\* stop() leaves no REPL server open: the map leads to every one there is (178-188).
StopClosesSessions == [][~stopped /\ stopped' => open' = {}]_vars

\* The promise chain of each state, seen as a SerialQueue: its head runs once it has
\* begun, and what has settled settled on the state that it was queued on.
Chain(o)    == state[o].execQueue
HeadRuns(o) == Chain(o) # <<>> /\ phase[Head(Chain(o))] # "queued"
Waiting(o)  == IF HeadRuns(o) THEN Tail(Chain(o)) ELSE Chain(o)
Running(o)  == IF HeadRuns(o) THEN Head(Chain(o)) ELSE None
Over(o)     == {c \in Command : phase[c] = "settled" /\ at[c] = o}

Queues == INSTANCE SerialQueue WITH
    Worker   <- Object,
    Mortal   <- {},
    Job      <- Command,
    waiting  <- [o \in Object |-> Waiting(o)],
    running  <- [o \in Object |-> Running(o)],
    finished <- [o \in Object |-> Over(o)]

\* Each state runs what it accepted one at a time, in order, each to its end and none
\* twice, also one that stop() left with links on its chain while a new one takes the
\* commands that come (380-425).
SerialPerState == Queues!Spec

\* "shutdown never leaves it hanging" (repl-session.ts:266-267): a command that
\* evaluates when stop() is called is finished, although only close() can end it and
\* its state is no longer mapped.
StopEndsEvaluations ==
    \A c \in Command :
        <>stopped => [](phase[c] = "evaluating" /\ ~stopped => <>(phase[c] = "settled"))

=============================================================================
