--------------------------- MODULE RemoteReplEngine ---------------------------
(***************************************************************************)
(* The engine of packages/core/src/engine/remote-repl-engine.ts, run by a  *)
(* fleet of instances that share one pub/sub transport.  Channels never    *)
(* share state, so ONE channel is modelled: every Map keyed by channel     *)
(* becomes a value per instance.  An action is one synchronous stretch of  *)
(* the code, from one await to the next.                                   *)
(*                                                                         *)
(* A process ends by Crash here: stop() is EngineStop's.                   *)
(***************************************************************************)
EXTENDS Naturals, Sequences, FiniteSets

CONSTANTS
    Instance,           \* instance ids (RemoteReplOptions.instanceId)
    Command,            \* command ids the clients may dispatch
    Booted,             \* the instances that have started at the beginning
    None,               \* JavaScript's undefined and null
    ReplayBufferSize,   \* capacity of the replay buffer
    MaxSubscribers,     \* bound on the streams open at one instance
    MaxInbox,           \* bound on the deliveries waiting at one instance
    Budget              \* bound on how often each kind of environment step happens

\* Environment steps: heartbeat ticks, TTL firings, lease lapses, lost
\* deliveries, crashes, output chunks, failures of the context factory.
Kind == {"beat", "ttl", "lapse", "loss", "crash", "chunk", "fault"}

ASSUME InstanceAssumption == None \notin Instance /\ Booted \subseteq Instance
ASSUME CommandAssumption  == None \notin Command /\ IsFiniteSet(Command)
ASSUME BoundsAssumption   ==
    /\ ReplayBufferSize \in Nat /\ MaxSubscribers \in Nat /\ MaxInbox \in Nat
    /\ Budget \in [Kind -> Nat]

VARIABLES
    listening,    \* how many topics an instance has subscribed to, in start()'s order
    ownership,    \* the ownership map's entry for the channel
    ownerSeenAt,  \* age class of the ownerSeenAt map's entry
    channels,     \* the instances whose channels map has the channel
    state,        \* the ChannelState (as new where the map has none)
    strayTimers,  \* armed TTL timers of channel states no longer in the map
    phase,        \* how far each command has come at each instance
    ranIn,        \* the session executeCommand() captured
    open,         \* REPL servers created and not closed; a session is named by
                  \* the command that created it
    outbox,       \* messages published and not yet broadcast, oldest first
    inbox,        \* messages broadcast and not yet handled, oldest first
    posted,       \* the commands dispatched so far, in order
    left          \* what is left of Budget

lease == <<ownership, ownerSeenAt>>
map   == <<channels, state, strayTimers>>
exec  == <<phase, ranIn, open>>
env   == <<listening, posted, left>>
vars  == <<lease, map, exec, outbox, inbox, env>>

-----------------------------------------------------------------------------
(* Messages and records                                                    *)

EventType == {"command", "output", "done", "error"}
Phase == {"idle",        \* not accepted here
          "claiming",    \* awaiting the publication of the claim
          "queued",      \* on the channel's execQueue
          "echoing",     \* awaiting the publication of the command event
          "evaluating",  \* awaiting session.eval()
          "skipped",     \* session.eval() found its session closed
          "finishing",   \* awaiting the publication of the done event
          "failing",     \* awaiting the publication of the error event
          "settled"}     \* execQueue unit over

Event == [id: Nat, type: EventType, commandId: Command \cup {None}]

ChannelState == [nextId: Nat, buffer: Nat, session: Command \cup {None},
                 currentCommandId: Command \cup {None}, execQueue: Seq(Command),
                 pending: Nat, subscriberCount: Nat, ttlTimer: BOOLEAN]

\* `awaited` is the command whose handler awaits the publication and `writer`
\* the session that wrote an output chunk; no instance reads either.
CmdMessage == [topic: {"cmd"}, commandId: Command, originInstanceId: Instance,
               awaited: {None}]
OutMessage == [topic: {"out"}, event: Event, writer: Command \cup {None},
               awaited: Command \cup {None}]
SysMessage == [topic: {"sys"}, kind: {"claim", "release"}, instanceId: Instance,
               awaited: Command \cup {None}]
Message == CmdMessage \cup OutMessage \cup SysMessage

NewChannelState ==
    [nextId |-> 0, buffer |-> 0, session |-> None, currentCommandId |-> None,
     execQueue |-> <<>>, pending |-> 0, subscriberCount |-> 0, ttlTimer |-> FALSE]

\* start() subscribes to cmd, then out, then sys, awaiting each.
TopicRank == [cmd |-> 1, out |-> 2, sys |-> 3]
Started(i) == listening[i] = 3

TypeOK ==
    /\ listening \in [Instance -> 0..3]
    /\ ownership \in [Instance -> Instance \cup {None}]
    /\ ownerSeenAt \in [Instance -> {"none", "fresh", "stale"}]
    /\ channels \subseteq Instance
    /\ state \in [Instance -> ChannelState]
    /\ strayTimers \in [Instance -> Nat]
    /\ phase \in [Instance -> [Command -> Phase]]
    /\ ranIn \in [Instance -> [Command -> Command \cup {None}]]
    /\ open \in [Instance -> SUBSET Command]
    /\ outbox \in [Instance -> Seq(Message)]
    /\ inbox \in [Instance -> Seq(Message)]
    /\ posted \in Seq(Command)
    /\ left \in [Kind -> Nat]

Init ==
    /\ listening = [i \in Instance |-> IF i \in Booted THEN 3 ELSE 0]
    /\ ownership = [i \in Instance |-> None]
    /\ ownerSeenAt = [i \in Instance |-> "none"]
    /\ channels = {}
    /\ state = [i \in Instance |-> NewChannelState]
    /\ strayTimers = [i \in Instance |-> 0]
    /\ phase = [i \in Instance |-> [c \in Command |-> "idle"]]
    /\ ranIn = [i \in Instance |-> [c \in Command |-> None]]
    /\ open = [i \in Instance |-> {}]
    /\ outbox = [i \in Instance |-> <<>>]
    /\ inbox = [i \in Instance |-> <<>>]
    /\ posted = <<>>
    /\ left = Budget

-----------------------------------------------------------------------------
(* Helpers                                                                 *)

InFlight(i, c) == phase[i][c] \notin {"idle", "settled"}
Dispatched(c)  == \E n \in 1..Len(posted) : posted[n] = c

Spend(kind) == left[kind] > 0 /\ left' = [left EXCEPT ![kind] = @ - 1]

Publish(i, m) == outbox' = [outbox EXCEPT ![i] = Append(@, m)]

\* The await on a publication is over once the transport has broadcast it.
PublishSettled(i, c) == \A n \in 1..Len(outbox[i]) : outbox[i][n].awaited # c

\* The first message of the inbox, if it is on that topic.
Receives(i, topic) ==
    /\ inbox[i] # <<>>
    /\ Head(inbox[i]).topic = topic
    /\ inbox' = [inbox EXCEPT ![i] = Tail(@)]

Moves(i, c, from, to) ==
    /\ phase[i][c] = from
    /\ phase' = [phase EXCEPT ![i][c] = to]

Claim(i, c)   == [topic |-> "sys", kind |-> "claim", instanceId |-> i, awaited |-> c]
Release(i)    == [topic |-> "sys", kind |-> "release", instanceId |-> i, awaited |-> None]

\* getChannel() and the assignments a handler makes to the state it returns.
Keep(i, st) ==
    /\ channels' = channels \cup {i}
    /\ state' = [state EXCEPT ![i] = st]
    /\ UNCHANGED strayTimers

\* emit(): numbers the event on the channel's state and publishes it.
Emit(i, st, type, c, writer, awaited) ==
    /\ Keep(i, [st EXCEPT !.nextId = @ + 1])
    /\ Publish(i, [topic |-> "out", writer |-> writer, awaited |-> awaited,
                   event |-> [id |-> st.nextId + 1, type |-> type, commandId |-> c]])

\* EventRingBuffer.push(), seen through isEmpty(): how many events are kept.
Pushed(n) == IF n + 1 > ReplayBufferSize THEN ReplayBufferSize ELSE n + 1

EvictableWhilePending(st) ==
    st.subscriberCount = 0 /\ st.session = None /\ st.buffer = 0

EvictableWithSession(st) == st.pending = 0 /\ st.subscriberCount = 0

EvictableOnceTimerFired(st) ==
    /\ st.pending = 0 /\ st.subscriberCount = 0
    /\ st.session = None /\ st.buffer = 0
    /\ ~st.ttlTimer

Evictable(st) ==
    /\ st.pending = 0
    /\ st.subscriberCount = 0
    /\ st.session = None
    /\ st.buffer = 0

OwnershipCleared(owner) == None

\* Eviction is local bookkeeping: the ownership entry stays.
OwnershipOnEviction(owner) == owner

\* maybeEvict() on the state st, once the handler has left the ownership maps
\* at owner and seenAt.  The timer of an evicted state stays armed.
MaybeEvict(i, st, owner, seenAt) ==
    IF Evictable(st)
    THEN /\ channels' = channels \ {i}
         /\ state' = [state EXCEPT ![i] = NewChannelState]
         /\ strayTimers' = [strayTimers EXCEPT ![i] = IF st.ttlTimer THEN @ + 1 ELSE @]
         /\ ownership' = [ownership EXCEPT ![i] = OwnershipOnEviction(owner)]
         /\ ownerSeenAt' = [ownerSeenAt EXCEPT ![i] = "none"]
    ELSE /\ state' = [state EXCEPT ![i] = st]
         /\ ownership' = [ownership EXCEPT ![i] = owner]
         /\ ownerSeenAt' = [ownerSeenAt EXCEPT ![i] = seenAt]
         /\ UNCHANGED <<channels, strayTimers>>

-----------------------------------------------------------------------------
(* The transport, as the engine uses it: a total order of the messages,    *)
(* first in first out per publisher and per subscriber, where a delivery   *)
(* may be lost (a publication nobody receives is one that failed).         *)

Transmit(i) ==
    /\ outbox[i] # <<>>
    /\ LET m == Head(outbox[i])
           audience == {j \in Instance : listening[j] >= TopicRank[m.topic]}
       IN \E lost \in SUBSET audience :
            /\ \A j \in audience \ lost : Len(inbox[j]) < MaxInbox
            /\ IF lost = {} THEN UNCHANGED left ELSE Spend("loss")
            /\ inbox' = [j \in Instance |-> IF j \in audience \ lost
                                            THEN Append(inbox[j], m) ELSE inbox[j]]
    /\ outbox' = [outbox EXCEPT ![i] = Tail(@)]
    /\ UNCHANGED <<lease, map, exec, listening, posted>>

-----------------------------------------------------------------------------
(* Commands: dispatch(), onCmd() and executeCommand()                      *)

Dispatch(i, c) ==
    /\ Started(i)
    /\ ~Dispatched(c)
    /\ posted' = Append(posted, c)
    /\ Publish(i, [topic |-> "cmd", commandId |-> c, originInstanceId |-> i,
                   awaited |-> None])
    /\ UNCHANGED <<lease, map, exec, inbox, listening, left>>

\* `ownerSeenAt.get(channel) ?? 0`: no entry reads as a lease that ran out.
LeaseExpired(i) == ownership[i] # None /\ ownerSeenAt[i] # "fresh"

EffectivelyOwnerless(i) ==
    ownership[i] = None \/ (LeaseExpired(i) /\ ownership[i] # i)

OnCmdIgnored(i) ==
    /\ Receives(i, "cmd")
    /\ ownership[i] # i
    /\ ~(EffectivelyOwnerless(i) /\ Head(inbox[i]).originInstanceId = i)
    /\ UNCHANGED <<lease, map, exec, outbox, env>>

\* touchTtl() and the link chained onto execQueue.
Enqueued(st, c) == [st EXCEPT !.ttlTimer = TRUE, !.execQueue = Append(@, c)]

\* The owner queues the command within the same synchronous stretch.
OnCmdOwner(i) ==
    LET c == Head(inbox[i]).commandId
    IN /\ Receives(i, "cmd")
       /\ ownership[i] = i
       /\ Keep(i, Enqueued([state[i] EXCEPT !.pending = @ + 1], c))
       /\ phase' = [phase EXCEPT ![i][c] = "queued"]
       /\ UNCHANGED <<lease, ranIn, open, outbox, env>>

\* The origin claims a channel without an owner, and awaits the publication.
OnCmdClaim(i) ==
    LET c == Head(inbox[i]).commandId
    IN /\ Receives(i, "cmd")
       /\ ownership[i] # i
       /\ EffectivelyOwnerless(i)
       /\ Head(inbox[i]).originInstanceId = i
       /\ Keep(i, [state[i] EXCEPT !.pending = @ + 1])
       /\ ownership' = [ownership EXCEPT ![i] = i]
       /\ ownerSeenAt' = [ownerSeenAt EXCEPT ![i] = "fresh"]
       /\ Publish(i, Claim(i, c))
       /\ phase' = [phase EXCEPT ![i][c] = "claiming"]
       /\ UNCHANGED <<ranIn, open, env>>

\* onCmd() after the await: only now is the command queued.
Claimed(i, c) ==
    /\ Moves(i, c, "claiming", "queued")
    /\ PublishSettled(i, c)
    /\ Keep(i, Enqueued(state[i], c))
    /\ UNCHANGED <<lease, ranIn, open, outbox, inbox, env>>

MayBeginUnchained(i, c) == \E n \in 1..Len(state[i].execQueue) : state[i].execQueue[n] = c

\* The promise chain starts a link once the link before it has settled.
MayBegin(i, c) == state[i].execQueue # <<>> /\ Head(state[i].execQueue) = c

\* executeCommand() up to its first await: ensureSession() and the echo.
BeginExecute(i, c) ==
    LET session == IF state[i].session = None THEN c ELSE state[i].session
    IN /\ MayBegin(i, c)
       /\ Moves(i, c, "queued", "echoing")
       /\ ranIn' = [ranIn EXCEPT ![i][c] = session]
       /\ open' = [open EXCEPT ![i] = IF state[i].session = None THEN @ \cup {c} ELSE @]
       /\ Emit(i, [state[i] EXCEPT !.session = session, !.currentCommandId = c],
               "command", c, None, c)
       /\ UNCHANGED <<lease, inbox, env>>

\* The context factory throws: no session, and the failure is reported.
FailExecute(i, c) ==
    /\ MayBegin(i, c)
    /\ state[i].session = None
    /\ Spend("fault")
    /\ Moves(i, c, "queued", "failing")
    /\ Emit(i, state[i], "error", c, None, c)
    /\ UNCHANGED <<lease, ranIn, open, inbox, listening, posted>>

\* session.eval() on the session captured before the echo was awaited.
StartEval(i, c) ==
    /\ PublishSettled(i, c)
    /\ Moves(i, c, "echoing", IF ranIn[i][c] \in open[i] THEN "evaluating" ELSE "skipped")
    /\ UNCHANGED <<lease, map, ranIn, open, outbox, inbox, env>>

AnyOutput(i, s) == TRUE

\* The onOutput guard: a session that is no longer the channel's is not heard.
OutputAccepted(i, s) == state[i].session = s

\* A session writes while it evaluates, and in the background afterwards.
WriteOutput(i, s) ==
    /\ \E c \in Command : ranIn[i][c] = s /\ phase[i][c] \in {"evaluating", "finishing", "settled"}
    /\ OutputAccepted(i, s)
    /\ Spend("chunk")
    /\ Emit(i, state[i], "output", state[i].currentCommandId, s, None)
    /\ UNCHANGED <<lease, exec, inbox, listening, posted>>

\* session.eval() resolves: the sentinel, a recovery, the watchdog or close().
EvalSettles(i, c) ==
    /\ phase[i][c] \in {"evaluating", "skipped"}
    /\ phase' = [phase EXCEPT ![i][c] = "finishing"]
    /\ Emit(i, state[i], "done", c, None, c)
    /\ UNCHANGED <<lease, ranIn, open, inbox, env>>

PoisonedByFailure(i, c) == phase[i][c] = "finishing"

\* Every link resolves, whether executeCommand() returned or threw.
LinkResolves(i, c) == phase[i][c] \in {"finishing", "failing"}

FinishedTwice(st) == [st EXCEPT !.pending = @ - 2, !.execQueue = Tail(@)]

Finished(st) == [st EXCEPT !.pending = @ - 1, !.execQueue = Tail(@)]

\* finally: the unit is over, and the channel may be evicted.
Settle(i, c) ==
    /\ LinkResolves(i, c)
    /\ PublishSettled(i, c)
    /\ phase' = [phase EXCEPT ![i][c] = "settled"]
    /\ MaybeEvict(i, Finished(state[i]), ownership[i], ownerSeenAt[i])
    /\ UNCHANGED <<ranIn, open, outbox, inbox, env>>

-----------------------------------------------------------------------------
(* Events and ownership: onOut() and onSys()                               *)

OnOutForgetsId(i) ==
    /\ Receives(i, "out")
    /\ Keep(i, [state[i] EXCEPT !.buffer = Pushed(@)])
    /\ UNCHANGED <<lease, exec, outbox, env>>

OnOut(i) ==
    LET event == Head(inbox[i]).event
        st == state[i]
    IN /\ Receives(i, "out")
       /\ Keep(i, [st EXCEPT !.nextId = IF event.id > @ THEN event.id ELSE @,
                             !.buffer = Pushed(@)])
       /\ UNCHANGED <<lease, exec, outbox, env>>

OwnerKeepsItsClaim(i, claimant) == IF ownership[i] = i THEN i ELSE claimant

\* The last claim on the bus wins, whoever believed to own the channel.
OwnerAfterClaim(i, claimant) == claimant

OnSysClaim(i) ==
    /\ Receives(i, "sys")
    /\ Head(inbox[i]).kind = "claim"
    /\ ownership' = [ownership EXCEPT ![i] = OwnerAfterClaim(i, Head(inbox[i]).instanceId)]
    /\ ownerSeenAt' = [ownerSeenAt EXCEPT ![i] = "fresh"]
    /\ UNCHANGED <<map, exec, outbox, env>>

\* Whoever sent it, a release ends the tenure and any session held here.
OnSysRelease(i) ==
    LET s  == state[i].session
        st == IF s = None THEN state[i]
                          ELSE [state[i] EXCEPT !.session = None, !.buffer = 0]
    IN /\ Receives(i, "sys")
       /\ Head(inbox[i]).kind = "release"
       /\ open' = [open EXCEPT ![i] = @ \ {s}]
       /\ IF i \in channels
          THEN MaybeEvict(i, st, None, "none")
          ELSE /\ ownership' = [ownership EXCEPT ![i] = None]
               /\ ownerSeenAt' = [ownerSeenAt EXCEPT ![i] = "none"]
               /\ UNCHANGED map
       /\ UNCHANGED <<phase, ranIn, outbox, env>>

-----------------------------------------------------------------------------
(* Timers and streams                                                      *)

\* heartbeatOwnedChannels()
Heartbeat(i) ==
    /\ Started(i)
    /\ i \in channels
    /\ ownership[i] = i
    /\ state[i].session # None
    /\ Spend("beat")
    /\ Publish(i, Claim(i, None))
    /\ UNCHANGED <<lease, map, exec, inbox, listening, posted>>

\* The clock passes ownerLeaseTtl since the last claim this instance saw.
LeaseLapses(i) ==
    /\ ownerSeenAt[i] = "fresh"
    /\ Spend("lapse")
    /\ ownerSeenAt' = [ownerSeenAt EXCEPT ![i] = "stale"]
    /\ UNCHANGED <<ownership, map, exec, outbox, inbox, listening, posted>>

TtlFires(i) ==
    /\ state[i].ttlTimer
    /\ Spend("ttl")
    /\ state' = [state EXCEPT ![i].ttlTimer = FALSE]
    /\ Publish(i, Release(i))
    /\ UNCHANGED <<lease, channels, strayTimers, exec, inbox, listening, posted>>

\* maybeEvict() does not clear the timer of the state it drops.
StrayTtlFires(i) ==
    /\ strayTimers[i] > 0
    /\ Spend("ttl")
    /\ strayTimers' = [strayTimers EXCEPT ![i] = @ - 1]
    /\ Publish(i, Release(i))
    /\ UNCHANGED <<lease, channels, state, exec, inbox, listening, posted>>

\* openStream(): counted and attached before anything can be evicted.
OpenStream(i) ==
    /\ Started(i)
    /\ state[i].subscriberCount < MaxSubscribers
    /\ Keep(i, [state[i] EXCEPT !.subscriberCount = @ + 1])
    /\ UNCHANGED <<lease, exec, outbox, inbox, env>>

\* close() of the subscription, then onUnsubscribe().
CloseStream(i) ==
    /\ i \in channels
    /\ state[i].subscriberCount > 0
    /\ MaybeEvict(i, [state[i] EXCEPT !.subscriberCount = @ - 1], ownership[i], ownerSeenAt[i])
    /\ UNCHANGED <<exec, outbox, inbox, env>>

-----------------------------------------------------------------------------
(* Processes                                                               *)

\* One `await transport.subscribe()` of start().
Boot(i) ==
    /\ listening[i] < 3
    /\ listening' = [listening EXCEPT ![i] = @ + 1]
    /\ UNCHANGED <<lease, map, exec, outbox, inbox, posted, left>>

\* The process dies; it may boot again under the same configured instanceId.
Crash(i) ==
    /\ Started(i)
    /\ Spend("crash")
    /\ listening' = [listening EXCEPT ![i] = 0]
    /\ ownership' = [ownership EXCEPT ![i] = None]
    /\ ownerSeenAt' = [ownerSeenAt EXCEPT ![i] = "none"]
    /\ channels' = channels \ {i}
    /\ state' = [state EXCEPT ![i] = NewChannelState]
    /\ strayTimers' = [strayTimers EXCEPT ![i] = 0]
    /\ phase' = [phase EXCEPT ![i] = [c \in Command |-> IF InFlight(i, c) THEN "idle" ELSE @[c]]]
    /\ ranIn' = [ranIn EXCEPT ![i] = [c \in Command |-> None]]
    /\ open' = [open EXCEPT ![i] = {}]
    /\ outbox' = [outbox EXCEPT ![i] = <<>>]
    /\ inbox' = [inbox EXCEPT ![i] = <<>>]
    /\ UNCHANGED posted

Handle(i) == OnCmdIgnored(i) \/ OnCmdOwner(i) \/ OnCmdClaim(i) \/ OnOut(i)
             \/ OnSysClaim(i) \/ OnSysRelease(i)

Proceed(i, c) == Claimed(i, c) \/ BeginExecute(i, c) \/ FailExecute(i, c) \/ StartEval(i, c)
                 \/ EvalSettles(i, c) \/ Settle(i, c)

Next ==
    \E i \in Instance :
        \/ Transmit(i) \/ Handle(i)
        \/ \E c \in Command : Dispatch(i, c) \/ Proceed(i, c) \/ WriteOutput(i, c)
        \/ Heartbeat(i) \/ LeaseLapses(i) \/ TtlFires(i) \/ StrayTtlFires(i)
        \/ OpenStream(i) \/ CloseStream(i)
        \/ Boot(i) \/ Crash(i)

Spec == Init /\ [][Next]_vars

\* A running process drains its microtask queue and its connection, the
\* transport delivers, and the watchdog bounds every evaluation.
Fairness ==
    \A i \in Instance :
        /\ WF_vars(Transmit(i)) /\ WF_vars(Handle(i))
        /\ \A c \in Command : WF_vars(Proceed(i, c))

FairSpec == Spec /\ Fairness

-----------------------------------------------------------------------------
(* Properties                                                              *)

\* Every command an instance accepted and has not finished holds exactly one
\* unit of `pending`, so maybeEvict() never drops a channel state from under a
\* command that awaits (remote-repl-engine.ts:346-360, 416-422).
PendingCountsInFlight ==
    \A i \in Instance : state[i].pending = Cardinality({c \in Command : InFlight(i, c)})

\* No REPL server leaks: the only open one is the session of the channel's
\* state, through releases, evictions and takeovers (444-462, 483-498, 516-541).
SessionsAccountedFor ==
    \A i \in Instance : open[i] = {state[i].session} \ {None}

\* The channels map holds nothing collectable between two handlers: whichever
\* of a stream, a session, the buffer or a command goes last, its handler runs
\* the eviction (500-508).  A buffer without capacity is always empty.
NoIdleChannelState ==
    ReplayBufferSize > 0 =>
        \A i \in channels : \/ state[i].pending > 0 \/ state[i].subscriberCount > 0
                           \/ state[i].session # None \/ state[i].buffer > 0

\* The whole announce, eval, done unit is serialized: a command between its
\* echo and its done event is the head of the queue, hence the only one (380-388).
SerialExecution ==
    \A i \in Instance, c \in Command :
        phase[i][c] \in {"echoing", "evaluating", "skipped", "finishing", "failing"} =>
            state[i].execQueue # <<>> /\ Head(state[i].execQueue) = c

\* A chunk is tagged with a command that ran in the session that wrote it, even
\* if the session was closed and replaced while it wrote (448-458).
OutputBelongsToItsSession ==
    \A i \in Instance : \A n \in 1..Len(outbox[i]) :
        LET m == outbox[i][n]
        IN m.topic = "out" /\ m.event.type = "output" =>
               m.event.commandId # None /\ ranIn[i][m.event.commandId] = m.writer

InTransit(m) ==
    \E i \in Instance : \/ \E n \in 1..Len(outbox[i]) : outbox[i][n] = m
                        \/ \E n \in 1..Len(inbox[i])  : inbox[i][n] = m

Quiet(topic) ==
    \A i \in Instance : /\ \A n \in 1..Len(outbox[i]) : outbox[i][n].topic # topic
                        /\ \A n \in 1..Len(inbox[i])  : inbox[i][n].topic # topic

\* A fleet that was up from the start, loses no message and no process.
Undisturbed ==
    Booted = Instance /\ \A k \in {"loss", "crash"} : left[k] = Budget[k]

\* Whatever claims and releases raced, all instances of such a fleet name the same
\* owner once the sys topic is quiet (483-489; PROTOCOL.md "Ownership").
OwnershipAgreed ==
    Undisturbed /\ Quiet("sys") => \A i, j \in Instance : ownership[i] = ownership[j]

\* A dispatched command is never dropped by every instance, although each
\* decides alone: somebody accepts it (322-344).  Same fleet as above.
EveryCommandAccepted ==
    Undisturbed =>
        \A c \in Command :
            Dispatched(c) /\ (\A i \in Instance : phase[i][c] = "idle") =>
                \E i \in Instance :
                    InTransit([topic |-> "cmd", commandId |-> c, originInstanceId |-> i,
                               awaited |-> None])

\* The last message of the topic before position n of q is at m; 0 says there is none.
LastBefore(q, topic, n, m) ==
    /\ m = 0 \/ (m \in 1..(n - 1) /\ q[m].topic = topic)
    /\ \A k \in (m + 1)..(n - 1) : q[k].topic # topic

\* Only i has executed anything, and nothing failed, was lost or released.
SoleExecutor(i) ==
    /\ Undisturbed /\ \A k \in {"ttl", "fault"} : left[k] = Budget[k]
    /\ \A j \in Instance \ {i}, c \in Command : phase[j][c] \in {"idle", "claiming", "queued"}

\* "Ids are unique and monotonic within one owner's tenure", and every instance is
\* ready to go on from the highest (PROTOCOL.md 4.4): in a fleet that is up from the
\* start, the events on their way to another instance continue its count without a
\* gap (471-478).
IdsContinue ==
    \A i, j \in Instance :
        SoleExecutor(i) /\ i # j /\ ReplayBufferSize > 0 =>
            LET coming == inbox[j] \o outbox[i]
            IN \A n \in 1..Len(coming), m \in 0..Len(coming) :
                   coming[n].topic = "out" /\ LastBefore(coming, "out", n, m) =>
                       coming[n].event.id =
                           1 + IF m = 0 THEN state[j].nextId ELSE coming[m].event.id

\* The owner of a session that nobody is taking over or releasing.
LiveOwner(i) == ownership[i] = i /\ state[i].session # None /\ Quiet("sys")

\* "a live, heartbeating owner is never preempted" (PROTOCOL.md 5.4): nobody claims
\* the channel of a live owner whose lease did not lapse.  Refuted: an instance that
\* evicts its state forgets when it saw the owner (332, 526).
LiveOwnerKeepsChannel ==
    [][\A i, j \in Instance :
            LiveOwner(i) /\ i # j => ~(ownership[j] # j /\ ownership'[j] = j)]_vars

\* A command runs on one instance (GLOSSARY.md "Owner").  Refuted: an instance
\* that has just claimed also executes the commands of the others that raced it.
Begun(i, c) == phase[i][c] \notin {"idle", "claiming", "queued"}

CommandRunsOnce ==
    \A c \in Command : \A i, j \in Instance : Begun(i, c) /\ Begun(j, c) => i = j

\* One instance runs the commands of a channel in post order (SKILL.md, "Commands
\* on one channel run one after another, in post order").  Refuted: the command
\* that claims is queued only after its claim was published.
RunsInPostOrder ==
    \A i \in Instance : \A m, n \in 1..Len(posted) :
        m < n /\ Begun(i, posted[n]) => Begun(i, posted[m])

\* Every dispatched command settles at some instance, whatever failed before it
\* on its channel (390-399) and whoever claimed the channel meanwhile.
DispatchedCommandSettles ==
    \A c \in Command : Dispatched(c) ~> \E i \in Instance : phase[i][c] = "settled"

\* Nor does an instance keep a command it accepted, even one it runs twice over.
AcceptedCommandSettles ==
    \A i \in Instance, c \in Command : InFlight(i, c) ~> ~InFlight(i, c)

=============================================================================
