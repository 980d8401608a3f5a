------------------------ MODULE RemoteReplEngine_proofs ------------------------
(***************************************************************************)
(* The safety of one instance's executor, proved for every fleet, every    *)
(* set of commands and every budget of RemoteReplEngine; and, with it,     *)
(* that the execQueue of every instance implements SerialQueue: a step of  *)
(* an instance is Submit, Start, Finish or Die of its own worker, or       *)
(* leaves all workers as they are.                                         *)
(***************************************************************************)
EXTENDS EngineQueue, FiniteSetTheorems, TLAPS

USE InstanceAssumption, CommandAssumption DEF InstanceAssumption, CommandAssumption

-----------------------------------------------------------------------------
(* The type invariant in parts                                             *)

LeaseOK == /\ ownership \in [Instance -> Instance \cup {None}]
           /\ ownerSeenAt \in [Instance -> {"none", "fresh", "stale"}]
MapOK   == /\ channels \subseteq Instance
           /\ state \in [Instance -> ChannelState]
           /\ strayTimers \in [Instance -> Nat]
ExecOK  == /\ phase \in [Instance -> [Command -> Phase]]
           /\ ranIn \in [Instance -> [Command -> Command \cup {None}]]
           /\ open \in [Instance -> SUBSET Command]
OutboxOK == outbox \in [Instance -> Seq(Message)]
InboxOK  == inbox \in [Instance -> Seq(Message)]
ListeningOK == listening \in [Instance -> 0..3]
PostedOK == posted \in Seq(Command)
LeftOK   == left \in [Kind -> Nat]

LEMMA TypeParts ==
    TypeOK <=> /\ LeaseOK /\ MapOK /\ ExecOK /\ OutboxOK /\ InboxOK
               /\ ListeningOK /\ PostedOK /\ LeftOK
BY DEF TypeOK, LeaseOK, MapOK, ExecOK, OutboxOK, InboxOK, ListeningOK, PostedOK, LeftOK

LEMMA TypePartsPrimed ==
    TypeOK' <=> /\ LeaseOK' /\ MapOK' /\ ExecOK' /\ OutboxOK' /\ InboxOK'
                /\ ListeningOK' /\ PostedOK' /\ LeftOK'
BY DEF TypeOK, LeaseOK, MapOK, ExecOK, OutboxOK, InboxOK, ListeningOK, PostedOK, LeftOK

LEMMA NewStateType == NewChannelState \in ChannelState
BY DEF NewChannelState, ChannelState

\* The updates the handlers make to a channel state.
LEMMA UpdateType ==
    ASSUME NEW st \in ChannelState
    PROVE  /\ [st EXCEPT !.pending = @ + 1] \in ChannelState
           /\ [st EXCEPT !.subscriberCount = @ + 1] \in ChannelState
           /\ st.subscriberCount > 0 => [st EXCEPT !.subscriberCount = @ - 1] \in ChannelState
           /\ [st EXCEPT !.session = None, !.buffer = 0] \in ChannelState
<1>1. [st EXCEPT !.pending = @ + 1] \in ChannelState
  <2>1. st.pending + 1 \in Nat
    BY DEF ChannelState
  <2> QED
    BY <2>1 DEF ChannelState
<1>2. [st EXCEPT !.subscriberCount = @ + 1] \in ChannelState
  BY DEF ChannelState
<1>3. st.subscriberCount > 0 => [st EXCEPT !.subscriberCount = @ - 1] \in ChannelState
  BY DEF ChannelState
<1>4. [st EXCEPT !.session = None, !.buffer = 0] \in ChannelState
  BY DEF ChannelState
<1> QED
  BY <1>1, <1>2, <1>3, <1>4

LEMMA SessionUpdateType ==
    ASSUME NEW st \in ChannelState, NEW s \in Command, NEW c \in Command
    PROVE  [st EXCEPT !.session = s, !.currentCommandId = c] \in ChannelState
BY DEF ChannelState

LEMMA EnqueuedType ==
    ASSUME NEW st \in ChannelState, NEW c \in Command
    PROVE  Enqueued(st, c) \in ChannelState
<1>1. [st EXCEPT !.ttlTimer = TRUE] \in ChannelState
  BY DEF ChannelState
<1>2. Append(st.execQueue, c) \in Seq(Command)
  BY DEF ChannelState
<1> QED
  BY <1>1, <1>2 DEF Enqueued, ChannelState

LEMMA FinishedType ==
    ASSUME NEW st \in ChannelState, st.pending > 0, st.execQueue # <<>>
    PROVE  Finished(st) \in ChannelState
<1>1. Tail(st.execQueue) \in Seq(Command)
  BY DEF ChannelState
<1>2. [st EXCEPT !.pending = @ - 1] \in ChannelState
  BY DEF ChannelState
<1> QED
  BY <1>1, <1>2 DEF Finished, ChannelState

LEMMA KindsOfMessage ==
    ASSUME NEW m \in Message
    PROVE  /\ m.topic \in {"cmd", "out", "sys"}
           /\ m.topic = "cmd" => m.commandId \in Command /\ m.originInstanceId \in Instance
           /\ m.topic = "out" => m.event \in Event
           /\ m.topic = "sys" => m.kind \in {"claim", "release"} /\ m.instanceId \in Instance
           /\ m.awaited \in Command \cup {None}
BY DEF Message, CmdMessage, OutMessage, SysMessage

LEMMA ReceivesType ==
    ASSUME InboxOK, NEW i \in Instance, NEW topic, Receives(i, topic)
    PROVE  Head(inbox[i]) \in Message /\ Head(inbox[i]).topic = topic /\ InboxOK'
BY DEF InboxOK, Receives

LEMMA KeepType ==
    ASSUME MapOK, NEW i \in Instance, NEW st \in ChannelState, Keep(i, st)
    PROVE  MapOK'
BY DEF MapOK, Keep

LEMMA PublishType ==
    ASSUME OutboxOK, NEW i \in Instance, NEW m \in Message, Publish(i, m)
    PROVE  OutboxOK'
BY DEF OutboxOK, Publish

LEMMA EmitType ==
    ASSUME MapOK, OutboxOK, NEW i \in Instance, NEW st \in ChannelState,
           NEW type \in EventType, NEW c \in Command \cup {None},
           NEW writer \in Command \cup {None}, NEW awaited \in Command \cup {None},
           Emit(i, st, type, c, writer, awaited)
    PROVE  MapOK' /\ OutboxOK'
<1>1. [st EXCEPT !.nextId = @ + 1] \in ChannelState
  BY DEF ChannelState
<1>2. [topic |-> "out", writer |-> writer, awaited |-> awaited,
       event |-> [id |-> st.nextId + 1, type |-> type, commandId |-> c]] \in Message
  BY DEF Message, OutMessage, Event, ChannelState
<1> QED
  BY <1>1, <1>2, KeepType, PublishType DEF Emit

LEMMA EvictType ==
    ASSUME MapOK, LeaseOK, NEW i \in Instance, NEW st \in ChannelState,
           NEW owner \in Instance \cup {None}, NEW seenAt \in {"none", "fresh", "stale"},
           MaybeEvict(i, st, owner, seenAt)
    PROVE  MapOK' /\ LeaseOK'
BY NewStateType DEF MapOK, LeaseOK, MaybeEvict, OwnershipOnEviction

LEMMA SpendType ==
    ASSUME LeftOK, NEW kind \in Kind, Spend(kind)
    PROVE  LeftOK'
BY DEF LeftOK, Spend

LEMMA MovesType ==
    ASSUME ExecOK, NEW i \in Instance, NEW c \in Command, NEW to \in Phase,
           phase' = [phase EXCEPT ![i][c] = to]
    PROVE  phase' \in [Instance -> [Command -> Phase]]
BY DEF ExecOK

LEMMA SysMessageType ==
    ASSUME NEW i \in Instance, NEW c \in Command \cup {None}
    PROVE  Claim(i, c) \in Message /\ Release(i) \in Message
BY DEF Claim, Release, Message, SysMessage

\* What Settle finds: a counted command at the head of the queue.
Settleable ==
    \A i \in Instance, c \in Command :
        LinkResolves(i, c) => state[i].pending > 0 /\ state[i].execQueue # <<>>

LEMMA InitTypeOK == Init => TypeOK
BY NewStateType, BoundsAssumption DEF Init, TypeOK, Phase, BoundsAssumption

LEMMA HandleType ==
    ASSUME TypeOK, NEW i \in Instance, Handle(i)
    PROVE  TypeOK'
<1>0. LeaseOK /\ MapOK /\ ExecOK /\ OutboxOK /\ InboxOK /\ ListeningOK /\ PostedOK /\ LeftOK
  BY TypeParts
<1>st. state[i] \in ChannelState
  BY <1>0 DEF MapOK
<1>m. Head(inbox[i]) \in Message /\ InboxOK'
  BY <1>0, ReceivesType DEF Handle, OnCmdIgnored, OnCmdOwner, OnCmdClaim, OnOut,
                            OnSysClaim, OnSysRelease
<1> USE <1>0, <1>m
<1>1. CASE OnCmdIgnored(i)
  BY <1>1, TypePartsPrimed
     DEF OnCmdIgnored, lease, map, exec, env, LeaseOK, MapOK, ExecOK, OutboxOK,
         ListeningOK, PostedOK, LeftOK
<1>2. CASE OnCmdOwner(i)
  <2> DEFINE c == Head(inbox[i]).commandId
  <2>1. c \in Command
    BY <1>2, KindsOfMessage DEF OnCmdOwner, Receives
  <2>2. Enqueued([state[i] EXCEPT !.pending = @ + 1], c) \in ChannelState
    BY <1>st, <2>1, UpdateType, EnqueuedType
  <2>3. MapOK'
    BY <1>2, <2>2, KeepType DEF OnCmdOwner
  <2>4. ExecOK'
    BY <1>2, <2>1 DEF OnCmdOwner, ExecOK, Phase
  <2> QED
    BY <1>2, <2>3, <2>4, TypePartsPrimed
       DEF OnCmdOwner, lease, env, LeaseOK, OutboxOK, ListeningOK, PostedOK, LeftOK
<1>3. CASE OnCmdClaim(i)
  <2> DEFINE c == Head(inbox[i]).commandId
  <2>1. c \in Command
    BY <1>3, KindsOfMessage DEF OnCmdClaim, Receives
  <2>2. [state[i] EXCEPT !.pending = @ + 1] \in ChannelState
    BY <1>st, UpdateType
  <2>3. MapOK'
    BY <1>3, <2>2, KeepType DEF OnCmdClaim
  <2>4. ExecOK' /\ LeaseOK'
    BY <1>3, <2>1 DEF OnCmdClaim, ExecOK, LeaseOK, Phase
  <2>5. OutboxOK'
    BY <1>3, <2>1, SysMessageType, PublishType DEF OnCmdClaim
  <2> QED
    BY <1>3, <2>3, <2>4, <2>5, TypePartsPrimed
       DEF OnCmdClaim, env, ListeningOK, PostedOK, LeftOK
<1>4. CASE OnOut(i)
  <2> DEFINE event == Head(inbox[i]).event
             st == [state[i] EXCEPT !.nextId = IF event.id > @ THEN event.id ELSE @,
                                    !.buffer = Pushed(@)]
  <2>1. event.id \in Nat
    BY <1>4, KindsOfMessage DEF OnOut, Receives, Event
  <2>2. Pushed(state[i].buffer) \in Nat
    BY <1>st, BoundsAssumption DEF Pushed, ChannelState, BoundsAssumption
  <2>3. st \in ChannelState
    BY <1>st, <2>1, <2>2 DEF ChannelState
  <2>4. MapOK'
    BY <1>4, <2>3, KeepType DEF OnOut
  <2> QED
    BY <1>4, <2>4, TypePartsPrimed
       DEF OnOut, lease, exec, env, LeaseOK, ExecOK, OutboxOK, ListeningOK, PostedOK, LeftOK
<1>5. CASE OnSysClaim(i)
  <2>1. Head(inbox[i]).instanceId \in Instance
    BY <1>5, KindsOfMessage DEF OnSysClaim, Receives
  <2>2. LeaseOK'
    BY <1>5, <2>1 DEF OnSysClaim, LeaseOK, OwnerAfterClaim
  <2> QED
    BY <1>5, <2>2, TypePartsPrimed
       DEF OnSysClaim, map, exec, env, MapOK, ExecOK, OutboxOK, ListeningOK, PostedOK, LeftOK
<1>6. CASE OnSysRelease(i)
  <2> DEFINE s  == state[i].session
             st == IF s = None THEN state[i]
                               ELSE [state[i] EXCEPT !.session = None, !.buffer = 0]
  <2>1. st \in ChannelState
    BY <1>st DEF ChannelState
  <2>2. ExecOK'
    BY <1>6 DEF OnSysRelease, ExecOK
  <2>3. LeaseOK' /\ MapOK'
    <3>1. CASE i \in channels
      <4>1. MaybeEvict(i, st, None, "none")
        BY <1>6, <3>1 DEF OnSysRelease
      <4> QED
        BY <4>1, <2>1, EvictType
    <3>2. CASE i \notin channels
      BY <1>6, <3>2 DEF OnSysRelease, LeaseOK, MapOK, map
    <3> QED
      BY <3>1, <3>2
  <2> QED
    BY <1>6, <2>2, <2>3, TypePartsPrimed
       DEF OnSysRelease, env, OutboxOK, ListeningOK, PostedOK, LeftOK
<1> QED
  BY <1>1, <1>2, <1>3, <1>4, <1>5, <1>6 DEF Handle

LEMMA ProceedType ==
    ASSUME TypeOK, Settleable, NEW i \in Instance, NEW c \in Command, Proceed(i, c)
    PROVE  TypeOK'
<1>0. LeaseOK /\ MapOK /\ ExecOK /\ OutboxOK /\ InboxOK /\ ListeningOK /\ PostedOK /\ LeftOK
  BY TypeParts
<1>st. state[i] \in ChannelState
  BY <1>0 DEF MapOK
<1> USE <1>0
<1>1. CASE Claimed(i, c)
  <2>1. MapOK'
    BY <1>1, <1>st, EnqueuedType, KeepType DEF Claimed
  <2>2. ExecOK'
    BY <1>1 DEF Claimed, Moves, ExecOK, Phase
  <2> QED
    BY <1>1, <2>1, <2>2, TypePartsPrimed
       DEF Claimed, lease, env, LeaseOK, OutboxOK, InboxOK, ListeningOK, PostedOK, LeftOK
<1>2. CASE BeginExecute(i, c)
  <2> DEFINE s  == IF state[i].session = None THEN c ELSE state[i].session
             st == [state[i] EXCEPT !.session = s, !.currentCommandId = c]
  <2>1. s \in Command
    BY <1>st DEF ChannelState
  <2>2. st \in ChannelState
    BY <1>st, <2>1, SessionUpdateType
  <2>3. Emit(i, st, "command", c, None, c)
    BY <1>2 DEF BeginExecute
  <2>4. MapOK' /\ OutboxOK'
    BY <2>2, <2>3, EmitType DEF EventType
  <2>5. ExecOK'
    BY <1>2, <2>1 DEF BeginExecute, Moves, ExecOK, Phase
  <2> QED
    BY <1>2, <2>4, <2>5, TypePartsPrimed
       DEF BeginExecute, lease, env, LeaseOK, InboxOK, ListeningOK, PostedOK, LeftOK
<1>3. CASE FailExecute(i, c)
  <2>1. MapOK' /\ OutboxOK'
    BY <1>3, <1>st, EmitType DEF FailExecute, EventType
  <2>2. ExecOK'
    BY <1>3 DEF FailExecute, Moves, ExecOK, Phase
  <2>3. LeftOK'
    BY <1>3, SpendType DEF FailExecute, Kind
  <2> QED
    BY <1>3, <2>1, <2>2, <2>3, TypePartsPrimed
       DEF FailExecute, lease, LeaseOK, InboxOK, ListeningOK, PostedOK
<1>4. CASE StartEval(i, c)
  <2>1. ExecOK'
    BY <1>4 DEF StartEval, Moves, ExecOK, Phase
  <2> QED
    BY <1>4, <2>1, TypePartsPrimed
       DEF StartEval, lease, map, env, LeaseOK, MapOK, OutboxOK, InboxOK, ListeningOK,
           PostedOK, LeftOK
<1>5. CASE EvalSettles(i, c)
  <2>1. MapOK' /\ OutboxOK'
    BY <1>5, <1>st, EmitType DEF EvalSettles, EventType
  <2>2. ExecOK'
    BY <1>5 DEF EvalSettles, ExecOK, Phase
  <2> QED
    BY <1>5, <2>1, <2>2, TypePartsPrimed
       DEF EvalSettles, lease, env, LeaseOK, InboxOK, ListeningOK, PostedOK, LeftOK
<1>6. CASE Settle(i, c)
  <2>1. Finished(state[i]) \in ChannelState
    BY <1>6, <1>st, FinishedType DEF Settle, Settleable
  <2>2. MapOK' /\ LeaseOK'
    <3>1. ownership[i] \in Instance \cup {None} /\ ownerSeenAt[i] \in {"none", "fresh", "stale"}
      BY DEF LeaseOK
    <3>2. MaybeEvict(i, Finished(state[i]), ownership[i], ownerSeenAt[i])
      BY <1>6 DEF Settle
    <3> QED
      BY <2>1, <3>1, <3>2, EvictType
  <2>3. ExecOK'
    BY <1>6 DEF Settle, ExecOK, Phase
  <2> QED
    BY <1>6, <2>2, <2>3, TypePartsPrimed
       DEF Settle, env, OutboxOK, InboxOK, ListeningOK, PostedOK, LeftOK
<1> QED
  BY <1>1, <1>2, <1>3, <1>4, <1>5, <1>6 DEF Proceed

\* The steps of the transport, the clients, the timers and the processes.
Environment(i) ==
    \/ Transmit(i)
    \/ \E c \in Command : Dispatch(i, c) \/ WriteOutput(i, c)
    \/ Heartbeat(i) \/ LeaseLapses(i) \/ TtlFires(i) \/ StrayTtlFires(i)
    \/ OpenStream(i) \/ CloseStream(i) \/ Boot(i) \/ Crash(i)

LEMMA EnvironmentType ==
    ASSUME TypeOK, NEW i \in Instance, Environment(i)
    PROVE  TypeOK'
<1>0. LeaseOK /\ MapOK /\ ExecOK /\ OutboxOK /\ InboxOK /\ ListeningOK /\ PostedOK /\ LeftOK
  BY TypeParts
<1>st. state[i] \in ChannelState
  BY <1>0 DEF MapOK
<1> USE <1>0 DEF lease, map, exec, env
<1>1. CASE Transmit(i)
  <2>1. Head(outbox[i]) \in Message
    BY <1>1 DEF Transmit, OutboxOK
  <2>2. InboxOK'
    BY <1>1, <2>1 DEF Transmit, InboxOK
  <2>3. OutboxOK'
    BY <1>1 DEF Transmit, OutboxOK
  <2>4. LeftOK'
    BY <1>1 DEF Transmit, LeftOK, Spend, Kind
  <2> QED
    BY <1>1, <2>2, <2>3, <2>4, TypePartsPrimed
       DEF Transmit, LeaseOK, MapOK, ExecOK, ListeningOK, PostedOK
<1>2. ASSUME NEW c \in Command, Dispatch(i, c) PROVE TypeOK'
  <2>1. [topic |-> "cmd", commandId |-> c, originInstanceId |-> i, awaited |-> None] \in Message
    BY DEF Message, CmdMessage
  <2>2. OutboxOK' /\ PostedOK'
    BY <1>2, <2>1, PublishType DEF Dispatch, PostedOK
  <2> QED
    BY <1>2, <2>2, TypePartsPrimed
       DEF Dispatch, LeaseOK, MapOK, ExecOK, InboxOK, ListeningOK, LeftOK
<1>3. ASSUME NEW s \in Command, WriteOutput(i, s) PROVE TypeOK'
  <2>1. state[i].currentCommandId \in Command \cup {None}
    BY <1>st DEF ChannelState
  <2>2. MapOK' /\ OutboxOK'
    BY <1>3, <1>st, <2>1, EmitType DEF WriteOutput, EventType
  <2>3. LeftOK'
    BY <1>3, SpendType DEF WriteOutput, Kind
  <2> QED
    BY <1>3, <2>2, <2>3, TypePartsPrimed
       DEF WriteOutput, LeaseOK, ExecOK, InboxOK, ListeningOK, PostedOK
<1>4. CASE Heartbeat(i)
  <2>1. OutboxOK' /\ LeftOK'
    BY <1>4, SysMessageType, PublishType, SpendType DEF Heartbeat, Kind
  <2> QED
    BY <1>4, <2>1, TypePartsPrimed
       DEF Heartbeat, LeaseOK, MapOK, ExecOK, InboxOK, ListeningOK, PostedOK
<1>5. CASE LeaseLapses(i)
  <2>1. LeaseOK' /\ LeftOK'
    BY <1>5, SpendType DEF LeaseLapses, LeaseOK, Kind
  <2> QED
    BY <1>5, <2>1, TypePartsPrimed
       DEF LeaseLapses, MapOK, ExecOK, OutboxOK, InboxOK, ListeningOK, PostedOK
<1>6. CASE TtlFires(i) \/ StrayTtlFires(i)
  <2>1. OutboxOK' /\ LeftOK'
    BY <1>6, SysMessageType, PublishType, SpendType DEF TtlFires, StrayTtlFires, Kind
  <2>2. CASE TtlFires(i)
    <3>1. [state[i] EXCEPT !.ttlTimer = FALSE] \in ChannelState
      BY <1>st DEF ChannelState
    <3>2. MapOK'
      BY <2>2, <3>1 DEF TtlFires, MapOK
    <3> QED
      BY <2>2, <2>1, <3>2, TypePartsPrimed
         DEF TtlFires, LeaseOK, ExecOK, InboxOK, ListeningOK, PostedOK
  <2>3. CASE StrayTtlFires(i)
    <3>1. MapOK'
      BY <2>3 DEF StrayTtlFires, MapOK
    <3> QED
      BY <2>3, <2>1, <3>1, TypePartsPrimed
         DEF StrayTtlFires, LeaseOK, ExecOK, InboxOK, ListeningOK, PostedOK
  <2> QED
    BY <1>6, <2>2, <2>3
<1>7. CASE OpenStream(i)
  <2>1. MapOK'
    BY <1>7, <1>st, UpdateType, KeepType DEF OpenStream
  <2> QED
    BY <1>7, <2>1, TypePartsPrimed
       DEF OpenStream, LeaseOK, ExecOK, OutboxOK, InboxOK, ListeningOK, PostedOK, LeftOK
<1>8. CASE CloseStream(i)
  <2>1. [state[i] EXCEPT !.subscriberCount = @ - 1] \in ChannelState
    BY <1>8, <1>st, UpdateType DEF CloseStream
  <2>2. ownership[i] \in Instance \cup {None} /\ ownerSeenAt[i] \in {"none", "fresh", "stale"}
    BY DEF LeaseOK
  <2>3. MapOK' /\ LeaseOK'
    BY <1>8, <2>1, <2>2, EvictType DEF CloseStream
  <2> QED
    BY <1>8, <2>3, TypePartsPrimed
       DEF CloseStream, ExecOK, OutboxOK, InboxOK, ListeningOK, PostedOK, LeftOK
<1>9. CASE Boot(i)
  <2>1. ListeningOK'
    BY <1>9 DEF Boot, ListeningOK
  <2> QED
    BY <1>9, <2>1, TypePartsPrimed
       DEF Boot, LeaseOK, MapOK, ExecOK, OutboxOK, InboxOK, PostedOK, LeftOK
<1>10. CASE Crash(i)
  <2>1. LeaseOK' /\ MapOK'
    BY <1>10, NewStateType DEF Crash, LeaseOK, MapOK
  <2>2. ExecOK'
    BY <1>10 DEF Crash, ExecOK, Phase
  <2>3. OutboxOK' /\ InboxOK' /\ ListeningOK'
    BY <1>10 DEF Crash, OutboxOK, InboxOK, ListeningOK
  <2>4. LeftOK'
    BY <1>10, SpendType DEF Crash, Kind
  <2> QED
    BY <1>10, <2>1, <2>2, <2>3, <2>4, TypePartsPrimed DEF Crash, PostedOK
<1> QED
  BY <1>1, <1>2, <1>3, <1>4, <1>5, <1>6, <1>7, <1>8, <1>9, <1>10 DEF Environment

LEMMA NextCases ==
    ASSUME [Next]_vars
    PROVE  \/ \E i \in Instance : Handle(i) \/ Environment(i)
           \/ \E i \in Instance, c \in Command : Proceed(i, c)
           \/ UNCHANGED vars
BY DEF Next, Environment

LEMMA NextTypeOK == TypeOK /\ Settleable /\ [Next]_vars => TypeOK'
<1> SUFFICES ASSUME TypeOK, Settleable, [Next]_vars PROVE TypeOK'
  OBVIOUS
<1>1. CASE UNCHANGED vars
  BY <1>1 DEF vars, lease, map, exec, env, TypeOK
<1> QED
  BY <1>1, NextCases, HandleType, ProceedType, EnvironmentType

-----------------------------------------------------------------------------
(* Every command message is handled at most once by an instance            *)

\* The queue q holds at position n the message that dispatches c.
Carries(q, n, c) == n \in 1..Len(q) /\ q[n].topic = "cmd" /\ q[n].commandId = c

InNoOutbox(c)   == \A i \in Instance, n \in Nat : ~Carries(outbox[i], n, c)
NotInInbox(i, c) == \A n \in Nat : ~Carries(inbox[i], n, c)

CommandsOnce ==
    \A c \in Command :
        /\ ~Dispatched(c) =>
               InNoOutbox(c) /\ \A i \in Instance : phase[i][c] = "idle" /\ NotInInbox(i, c)
        /\ \A i \in Instance, n \in Nat :
               Carries(outbox[i], n, c) =>
                   /\ \A j \in Instance : phase[j][c] = "idle" /\ NotInInbox(j, c)
                   /\ \A j \in Instance, m \in Nat : Carries(outbox[j], m, c) => j = i /\ m = n
        /\ \A i \in Instance, n \in Nat :
               Carries(inbox[i], n, c) =>
                   /\ phase[i][c] = "idle"
                   /\ \A m \in Nat : Carries(inbox[i], m, c) => m = n

\* A step that adds no command message to a queue, and leaves the commands still
\* to be handled alone, keeps the invariant.
LEMMA OnceStable ==
    ASSUME CommandsOnce, NEW out \in [Instance -> Nat], NEW in \in [Instance -> Nat],
           \A j \in Instance, n \in Nat, c \in Command :
               Carries(outbox'[j], n, c) => Carries(outbox[j], n + out[j], c),
           \A j \in Instance, n \in Nat, c \in Command :
               Carries(inbox'[j], n, c) => Carries(inbox[j], n + in[j], c),
           \A j \in Instance, c \in Command :
               phase[j][c] = "idle" =>
                   \/ phase'[j][c] = "idle"
                   \/ Dispatched(c) /\ InNoOutbox(c)' /\ NotInInbox(j, c)',
           \A c \in Command : Dispatched(c) => Dispatched(c)'
    PROVE  CommandsOnce'
<1> SUFFICES ASSUME NEW c \in Command
             PROVE  /\ ~Dispatched(c)' =>
                           InNoOutbox(c)' /\ \A i \in Instance : phase'[i][c] = "idle" /\ NotInInbox(i, c)'
                    /\ \A i \in Instance, n \in Nat :
                           Carries(outbox'[i], n, c) =>
                               /\ \A j \in Instance : phase'[j][c] = "idle" /\ NotInInbox(j, c)'
                               /\ \A j \in Instance, m \in Nat :
                                      Carries(outbox'[j], m, c) => j = i /\ m = n
                    /\ \A i \in Instance, n \in Nat :
                           Carries(inbox'[i], n, c) =>
                               /\ phase'[i][c] = "idle"
                               /\ \A m \in Nat : Carries(inbox'[i], m, c) => m = n
  BY DEF CommandsOnce, Carries
<1>0. /\ \A j \in Instance, n \in Nat : n + out[j] \in Nat /\ n + in[j] \in Nat
      /\ \A j \in Instance, m \in Nat, n \in Nat :
             (m + out[j] = n + out[j] => m = n) /\ (m + in[j] = n + in[j] => m = n)
  OBVIOUS
<1>1. ASSUME ~Dispatched(c)'
      PROVE  InNoOutbox(c)' /\ \A i \in Instance : phase'[i][c] = "idle" /\ NotInInbox(i, c)'
  <2>1. ~Dispatched(c)
    BY <1>1
  <2> QED
    BY <1>0, <2>1 DEF CommandsOnce, InNoOutbox, NotInInbox
<1>2. ASSUME NEW i \in Instance, NEW n \in Nat, Carries(outbox'[i], n, c)
      PROVE  /\ \A j \in Instance : phase'[j][c] = "idle" /\ NotInInbox(j, c)'
             /\ \A j \in Instance, m \in Nat : Carries(outbox'[j], m, c) => j = i /\ m = n
  <2>1. Carries(outbox[i], n + out[i], c)
    BY <1>2
  <2>2. \A j \in Instance : phase'[j][c] = "idle"
    BY <1>0, <1>2, <2>1 DEF CommandsOnce, InNoOutbox
  <2>3. \A j \in Instance : NotInInbox(j, c)'
    BY <1>0, <2>1 DEF CommandsOnce, NotInInbox
  <2>4. \A j \in Instance, m \in Nat : Carries(outbox'[j], m, c) => j = i /\ m = n
    BY <1>0, <2>1 DEF CommandsOnce
  <2> QED
    BY <2>2, <2>3, <2>4
<1>3. ASSUME NEW i \in Instance, NEW n \in Nat, Carries(inbox'[i], n, c)
      PROVE  /\ phase'[i][c] = "idle"
             /\ \A m \in Nat : Carries(inbox'[i], m, c) => m = n
  <2>1. Carries(inbox[i], n + in[i], c)
    BY <1>3
  <2>2. phase'[i][c] = "idle"
    BY <1>0, <1>3, <2>1 DEF CommandsOnce, NotInInbox
  <2>3. \A m \in Nat : Carries(inbox'[i], m, c) => m = n
    BY <1>0, <2>1 DEF CommandsOnce
  <2> QED
    BY <2>2, <2>3
<1> QED
  BY <1>1, <1>2, <1>3

LEMMA CarriesAppend ==
    ASSUME NEW q \in Seq(Message), NEW m \in Message, NEW n \in Nat, NEW c \in Command,
           Carries(Append(q, m), n, c)
    PROVE  \/ Carries(q, n, c)
           \/ m.topic = "cmd" /\ m.commandId = c /\ n = Len(q) + 1
BY DEF Carries

LEMMA CarriesTail ==
    ASSUME NEW q \in Seq(Message), q # <<>>, NEW n \in Nat, NEW c \in Command,
           Carries(Tail(q), n, c)
    PROVE  Carries(q, n + 1, c)
BY DEF Carries

LEMMA DispatchedStable == UNCHANGED posted => \A c \in Command : Dispatched(c) => Dispatched(c)'
BY DEF Dispatched

\* The common case: at most one message published that is no command, at most one
\* consumed, and no command accepted.
LEMMA OnceQuietStep ==
    ASSUME TypeOK, CommandsOnce, NEW i \in Instance,
           \/ UNCHANGED outbox
           \/ \E m \in Message : m.topic # "cmd" /\ Publish(i, m),
           UNCHANGED inbox \/ \E topic : Receives(i, topic),
           \A j \in Instance, c \in Command : phase[j][c] = "idle" => phase'[j][c] = "idle",
           UNCHANGED posted
    PROVE  CommandsOnce'
<1>0. OutboxOK /\ InboxOK
  BY TypeParts
<1> DEFINE in == [j \in Instance |-> IF UNCHANGED inbox THEN 0 ELSE IF j = i THEN 1 ELSE 0]
           out == [j \in Instance |-> 0]
<1>1. ASSUME NEW j \in Instance, NEW n \in Nat, NEW c \in Command, Carries(outbox'[j], n, c)
      PROVE  Carries(outbox[j], n + out[j], c)
  <2>1. CASE UNCHANGED outbox
    BY <1>1, <2>1
  <2>2. CASE \E m \in Message : m.topic # "cmd" /\ Publish(i, m)
    <3>1. PICK m \in Message : m.topic # "cmd" /\ Publish(i, m)
      BY <2>2
    <3>2. CASE j = i
      BY <1>0, <1>1, <3>1, <3>2, CarriesAppend DEF Publish, OutboxOK
    <3>3. CASE j # i
      BY <1>0, <1>1, <3>1, <3>3 DEF Publish, OutboxOK
    <3> QED
      BY <3>2, <3>3
  <2> QED
    BY <2>1, <2>2
<1>2. ASSUME NEW j \in Instance, NEW n \in Nat, NEW c \in Command, Carries(inbox'[j], n, c)
      PROVE  Carries(inbox[j], n + in[j], c)
  <2>1. CASE UNCHANGED inbox
    BY <1>2, <2>1
  <2>2. CASE ~UNCHANGED inbox /\ \E topic : Receives(i, topic)
    <3>1. CASE j = i
      BY <1>0, <1>2, <2>2, <3>1, CarriesTail DEF Receives, InboxOK
    <3>2. CASE j # i
      BY <1>0, <1>2, <2>2, <3>2 DEF Receives, InboxOK
    <3> QED
      BY <3>1, <3>2
  <2> QED
    BY <2>1, <2>2
<1>3. in \in [Instance -> Nat] /\ out \in [Instance -> Nat]
  OBVIOUS
<1> HIDE DEF in, out
<1> QED
  BY <1>1, <1>2, <1>3, OnceStable, DispatchedStable

\* Accepting the command at the head of the inbox uses up its only message.
LEMMA OnceAccepted ==
    ASSUME TypeOK, CommandsOnce, NEW i \in Instance, NEW d \in Command, NEW to \in Phase,
           Receives(i, "cmd"), d = Head(inbox[i]).commandId,
           phase' = [phase EXCEPT ![i][d] = to],
           UNCHANGED outbox \/ \E m \in Message : m.topic # "cmd" /\ Publish(i, m),
           UNCHANGED posted
    PROVE  CommandsOnce' /\ phase[i][d] = "idle"
<1> DEFINE in == [j \in Instance |-> IF j = i THEN 1 ELSE 0]
           out == [j \in Instance |-> 0]
<1>0. OutboxOK /\ InboxOK /\ ExecOK
  BY TypeParts
<1>1. Carries(inbox[i], 1, d)
  BY <1>0 DEF Receives, InboxOK, Carries
<1>2. /\ phase[i][d] = "idle" /\ Dispatched(d)
      /\ \A m \in Nat : Carries(inbox[i], m, d) => m = 1
      /\ \A j \in Instance, n \in Nat : ~Carries(outbox[j], n, d)
  BY <1>1 DEF CommandsOnce, InNoOutbox, NotInInbox
<1>3. ASSUME NEW j \in Instance, NEW n \in Nat, NEW c \in Command, Carries(outbox'[j], n, c)
      PROVE  Carries(outbox[j], n, c)
  <2>1. CASE UNCHANGED outbox
    BY <1>3, <2>1
  <2>2. CASE \E m \in Message : m.topic # "cmd" /\ Publish(i, m)
    <3>1. PICK m \in Message : m.topic # "cmd" /\ Publish(i, m)
      BY <2>2
    <3>2. CASE j = i
      BY <1>0, <1>3, <3>1, <3>2, CarriesAppend DEF Publish, OutboxOK
    <3>3. CASE j # i
      BY <1>0, <1>3, <3>1, <3>3 DEF Publish, OutboxOK
    <3> QED
      BY <3>2, <3>3
  <2> QED
    BY <2>1, <2>2
<1>4. ASSUME NEW j \in Instance, NEW n \in Nat, NEW c \in Command, Carries(inbox'[j], n, c)
      PROVE  Carries(inbox[j], n + in[j], c)
  <2>1. CASE j = i
    BY <1>0, <1>4, <2>1, CarriesTail DEF Receives, InboxOK
  <2>2. CASE j # i
    BY <1>0, <1>4, <2>2 DEF Receives, InboxOK
  <2> QED
    BY <2>1, <2>2
<1>5. InNoOutbox(d)'
  BY <1>1, <1>2, <1>3 DEF InNoOutbox
<1>6. NotInInbox(i, d)'
  <2>1. ASSUME NEW n \in Nat, Carries(inbox'[i], n, d) PROVE FALSE
    <3>1. Carries(inbox[i], n + 1, d)
      BY <1>4, <2>1
    <3>2. n + 1 = 1
      BY <1>2, <3>1
    <3>3. n >= 1
      BY <2>1 DEF Carries
    <3> QED
      BY <3>2, <3>3
  <2> QED
    BY <2>1 DEF NotInInbox
<1>7. ASSUME NEW j \in Instance, NEW c \in Command, phase[j][c] = "idle"
      PROVE  \/ phase'[j][c] = "idle"
             \/ Dispatched(c) /\ InNoOutbox(c)' /\ NotInInbox(j, c)'
  <2>1. CASE j = i /\ c = d
    BY <1>2, <1>5, <1>6, <2>1
  <2>2. CASE ~(j = i /\ c = d)
    BY <1>0, <1>1, <1>7, <2>2 DEF ExecOK
  <2> QED
    BY <2>1, <2>2
<1>8. in \in [Instance -> Nat] /\ out \in [Instance -> Nat] /\ \A j \in Instance : out[j] = 0
  OBVIOUS
<1>9. \A j \in Instance, n \in Nat, c \in Command :
          Carries(outbox'[j], n, c) => Carries(outbox[j], n + out[j], c)
  BY <1>3, <1>8
<1>10. \A j \in Instance, n \in Nat, c \in Command :
          Carries(inbox'[j], n, c) => Carries(inbox[j], n + in[j], c)
  BY <1>4
<1> HIDE DEF in, out
<1> QED
  BY <1>2, <1>7, <1>8, <1>9, <1>10, OnceStable, DispatchedStable

LEMMA InitCommandsOnce == Init => CommandsOnce
BY DEF Init, CommandsOnce, Carries, InNoOutbox, NotInInbox

LEMMA HandleOnce ==
    ASSUME TypeOK, CommandsOnce, NEW i \in Instance, Handle(i)
    PROVE  CommandsOnce'
<1>0. ExecOK /\ InboxOK
  BY TypeParts
<1>1. CASE OnCmdIgnored(i)
  BY <1>1, OnceQuietStep DEF OnCmdIgnored, exec, env
<1>2. CASE OnCmdOwner(i)
  <2>1. Head(inbox[i]).commandId \in Command
    BY <1>0, <1>2, ReceivesType, KindsOfMessage DEF OnCmdOwner
  <2> QED
    BY <1>2, <2>1, OnceAccepted DEF OnCmdOwner, env, Phase
<1>3. CASE OnCmdClaim(i)
  <2>1. Head(inbox[i]).commandId \in Command
    BY <1>0, <1>3, ReceivesType, KindsOfMessage DEF OnCmdClaim
  <2>2. Claim(i, Head(inbox[i]).commandId) \in Message
    BY <2>1, SysMessageType
  <2>3. Claim(i, Head(inbox[i]).commandId).topic # "cmd"
    BY DEF Claim
  <2> QED
    BY <1>3, <2>1, <2>2, <2>3, OnceAccepted DEF OnCmdClaim, env, Phase
<1>4. CASE OnOut(i)
  BY <1>4, OnceQuietStep DEF OnOut, exec, env
<1>5. CASE OnSysClaim(i)
  BY <1>5, OnceQuietStep DEF OnSysClaim, exec, env
<1>6. CASE OnSysRelease(i)
  BY <1>6, OnceQuietStep DEF OnSysRelease, env
<1> QED
  BY <1>1, <1>2, <1>3, <1>4, <1>5, <1>6 DEF Handle

LEMMA EmitPublishes ==
    ASSUME NEW i \in Instance, NEW st \in ChannelState,
           NEW type \in EventType, NEW c \in Command \cup {None},
           NEW writer \in Command \cup {None}, NEW awaited \in Command \cup {None},
           Emit(i, st, type, c, writer, awaited)
    PROVE  \E m \in Message : m.topic # "cmd" /\ Publish(i, m)
<1> DEFINE m == [topic |-> "out", writer |-> writer, awaited |-> awaited,
                 event |-> [id |-> st.nextId + 1, type |-> type, commandId |-> c]]
<1>1. m \in Message /\ m.topic # "cmd"
  BY DEF Message, OutMessage, Event, ChannelState
<1>2. Publish(i, m)
  BY DEF Emit
<1> QED
  BY <1>1, <1>2

LEMMA ProceedOnce ==
    ASSUME TypeOK, CommandsOnce, NEW i \in Instance, NEW c \in Command, Proceed(i, c)
    PROVE  CommandsOnce'
<1>0. ExecOK /\ MapOK /\ state[i] \in ChannelState
  BY TypeParts DEF MapOK
<1>1. /\ \A j \in Instance, d \in Command : phase[j][d] = "idle" => phase'[j][d] = "idle"
      /\ UNCHANGED inbox /\ UNCHANGED posted
  BY <1>0 DEF Proceed, Claimed, BeginExecute, FailExecute, StartEval, EvalSettles, Settle,
              Moves, LinkResolves, ExecOK, env
<1>2. UNCHANGED outbox \/ \E m \in Message : m.topic # "cmd" /\ Publish(i, m)
  <2>1. CASE Claimed(i, c) \/ StartEval(i, c) \/ Settle(i, c)
    BY <2>1 DEF Claimed, StartEval, Settle
  <2>2. CASE BeginExecute(i, c)
    <3> DEFINE s  == IF state[i].session = None THEN c ELSE state[i].session
               st == [state[i] EXCEPT !.session = s, !.currentCommandId = c]
    <3>1. s \in Command
      BY <1>0 DEF ChannelState
    <3>2. st \in ChannelState
      BY <1>0, <3>1, SessionUpdateType
    <3>3. Emit(i, st, "command", c, None, c)
      BY <2>2 DEF BeginExecute
    <3> QED
      BY <3>2, <3>3, EmitPublishes DEF EventType
  <2>3. CASE FailExecute(i, c)
    BY <1>0, <2>3, EmitPublishes DEF FailExecute, EventType
  <2>4. CASE EvalSettles(i, c)
    BY <1>0, <2>4, EmitPublishes DEF EvalSettles, EventType
  <2> QED
    BY <2>1, <2>2, <2>3, <2>4 DEF Proceed
<1> QED
  BY <1>1, <1>2, OnceQuietStep

\* A command message leaves one outbox for inboxes that never had it.
LEMMA TransmitOnce ==
    ASSUME TypeOK, CommandsOnce, NEW i \in Instance, Transmit(i)
    PROVE  CommandsOnce'
<1>0. OutboxOK /\ InboxOK /\ outbox[i] \in Seq(Message) /\ outbox[i] # <<>>
  BY TypeParts DEF OutboxOK, Transmit
<1> DEFINE msg == outbox[i][1]
<1>m. msg \in Message /\ msg = Head(outbox[i])
  BY <1>0
<1>ph. UNCHANGED phase /\ UNCHANGED posted
  BY DEF Transmit, exec
<1>1. ASSUME NEW j \in Instance, NEW n \in Nat, NEW c \in Command, Carries(outbox'[j], n, c)
      PROVE  Carries(outbox[j], IF j = i THEN n + 1 ELSE n, c)
  <2>1. CASE j = i
    <3>1. outbox'[j] = Tail(outbox[i])
      BY <1>0, <2>1 DEF Transmit, OutboxOK
    <3> QED
      BY <1>0, <1>1, <2>1, <3>1, CarriesTail
  <2>2. CASE j # i
    BY <1>0, <1>1, <2>2 DEF Transmit, OutboxOK
  <2> QED
    BY <2>1, <2>2
<1>2. ASSUME NEW j \in Instance, NEW n \in Nat, NEW c \in Command, Carries(inbox'[j], n, c)
      PROVE  \/ Carries(inbox[j], n, c)
             \/ Carries(outbox[i], 1, c) /\ n = Len(inbox[j]) + 1
  <2>1. inbox'[j] = inbox[j] \/ inbox'[j] = Append(inbox[j], msg)
    BY <1>m DEF Transmit
  <2>2. inbox[j] \in Seq(Message)
    BY <1>0 DEF InboxOK
  <2>3. CASE inbox'[j] = Append(inbox[j], msg)
    <3>1. Carries(inbox[j], n, c) \/ (msg.topic = "cmd" /\ msg.commandId = c /\ n = Len(inbox[j]) + 1)
      BY <1>m, <1>2, <2>2, <2>3, CarriesAppend
    <3> QED
      BY <1>0, <3>1 DEF Carries
  <2> QED
    BY <1>2, <2>1, <2>3
<1> SUFFICES ASSUME NEW c \in Command
             PROVE  /\ ~Dispatched(c)' =>
                           InNoOutbox(c)' /\ \A j \in Instance : phase'[j][c] = "idle" /\ NotInInbox(j, c)'
                    /\ \A k \in Instance, n \in Nat :
                           Carries(outbox'[k], n, c) =>
                               /\ \A j \in Instance : phase'[j][c] = "idle" /\ NotInInbox(j, c)'
                               /\ \A j \in Instance, m \in Nat :
                                      Carries(outbox'[j], m, c) => j = k /\ m = n
                    /\ \A k \in Instance, n \in Nat :
                           Carries(inbox'[k], n, c) =>
                               /\ phase'[k][c] = "idle"
                               /\ \A m \in Nat : Carries(inbox'[k], m, c) => m = n
  BY DEF CommandsOnce, Carries
<1>3. ASSUME ~Dispatched(c)'
      PROVE  InNoOutbox(c)' /\ \A j \in Instance : phase'[j][c] = "idle" /\ NotInInbox(j, c)'
  <2>1. ~Dispatched(c)
    BY <1>3, <1>ph DEF Dispatched
  <2>2. \A j \in Instance, n \in Nat : ~Carries(outbox[j], n, c) /\ ~Carries(inbox[j], n, c)
    BY <2>1 DEF CommandsOnce, InNoOutbox, NotInInbox
  <2>3. InNoOutbox(c)'
    BY <1>1, <2>2 DEF InNoOutbox
  <2>4. \A j \in Instance : NotInInbox(j, c)'
    BY <1>2, <2>2 DEF NotInInbox
  <2> QED
    BY <1>ph, <2>1, <2>3, <2>4 DEF CommandsOnce
<1>4. ASSUME NEW k \in Instance, NEW n \in Nat, Carries(outbox'[k], n, c)
      PROVE  /\ \A j \in Instance : phase'[j][c] = "idle" /\ NotInInbox(j, c)'
             /\ \A j \in Instance, m \in Nat : Carries(outbox'[j], m, c) => j = k /\ m = n
  <2> DEFINE at(j, m) == IF j = i THEN m + 1 ELSE m
  <2>1. Carries(outbox[k], at(k, n), c) /\ at(k, n) \in Nat
    BY <1>1, <1>4
  <2>2. ~Carries(outbox[i], 1, c)
    <3>1. Carries(outbox[i], 1, c) => k = i /\ at(k, n) = 1
      BY <2>1 DEF CommandsOnce
    <3>2. n >= 1
      BY <1>4 DEF Carries
    <3> QED
      BY <3>1, <3>2
  <2>3. \A j \in Instance, m \in Nat : ~Carries(inbox[j], m, c) /\ phase[j][c] = "idle"
    BY <2>1 DEF CommandsOnce, NotInInbox
  <2>4. ASSUME NEW j \in Instance, NEW m \in Nat, Carries(outbox'[j], m, c)
        PROVE  j = k /\ m = n
    <3>1. Carries(outbox[j], at(j, m), c) /\ at(j, m) \in Nat
      BY <1>1, <2>4
    <3>2. j = k /\ at(j, m) = at(k, n)
      BY <2>1, <3>1 DEF CommandsOnce
    <3> QED
      BY <3>2
  <2>5. \A j \in Instance : NotInInbox(j, c)'
    BY <1>2, <2>2, <2>3 DEF NotInInbox
  <2> QED
    BY <1>ph, <2>3, <2>4, <2>5
<1>5. ASSUME NEW k \in Instance, NEW n \in Nat, Carries(inbox'[k], n, c)
      PROVE  /\ phase'[k][c] = "idle"
             /\ \A m \in Nat : Carries(inbox'[k], m, c) => m = n
  <2>1. CASE Carries(outbox[i], 1, c)
    <3>1. \A m \in Nat : ~Carries(inbox[k], m, c) /\ phase[k][c] = "idle"
      BY <2>1 DEF CommandsOnce, NotInInbox
    <3> QED
      BY <1>2, <1>5, <1>ph, <3>1
  <2>2. CASE ~Carries(outbox[i], 1, c)
    <3>1. \A m \in Nat : Carries(inbox'[k], m, c) => Carries(inbox[k], m, c)
      BY <1>2, <2>2
    <3> QED
      BY <1>5, <1>ph, <3>1 DEF CommandsOnce
  <2> QED
    BY <2>1, <2>2
<1> QED
  BY <1>3, <1>4, <1>5

\* A new command is nowhere before its one message is published.
LEMMA DispatchOnce ==
    ASSUME TypeOK, CommandsOnce, NEW i \in Instance, NEW d \in Command, Dispatch(i, d)
    PROVE  CommandsOnce'
<1>0. OutboxOK /\ InboxOK /\ PostedOK /\ outbox[i] \in Seq(Message)
  BY TypeParts DEF OutboxOK
<1> DEFINE msg == [topic |-> "cmd", commandId |-> d, originInstanceId |-> i, awaited |-> None]
<1>m. msg \in Message
  BY DEF Message, CmdMessage
<1>ph. UNCHANGED phase /\ UNCHANGED inbox
  BY DEF Dispatch, exec
<1>1. ASSUME NEW j \in Instance, NEW n \in Nat, NEW c \in Command, Carries(outbox'[j], n, c)
      PROVE  Carries(outbox[j], n, c) \/ (c = d /\ j = i /\ n = Len(outbox[i]) + 1)
  <2>1. CASE j = i
    <3>1. outbox'[j] = Append(outbox[i], msg)
      BY <1>0, <2>1 DEF Dispatch, Publish, OutboxOK
    <3> QED
      BY <1>0, <1>m, <1>1, <2>1, <3>1, CarriesAppend
  <2>2. CASE j # i
    BY <1>0, <1>1, <2>2 DEF Dispatch, Publish, OutboxOK
  <2> QED
    BY <2>1, <2>2
<1>2. \A c \in Command : Dispatched(c)' <=> Dispatched(c) \/ c = d
  BY <1>0 DEF Dispatched, Dispatch, PostedOK
<1>3. /\ \A j \in Instance, n \in Nat : ~Carries(outbox[j], n, d) /\ ~Carries(inbox[j], n, d)
      /\ \A j \in Instance : phase[j][d] = "idle"
  BY DEF Dispatch, CommandsOnce, InNoOutbox, NotInInbox
<1> SUFFICES ASSUME NEW c \in Command
             PROVE  /\ ~Dispatched(c)' =>
                           InNoOutbox(c)' /\ \A j \in Instance : phase'[j][c] = "idle" /\ NotInInbox(j, c)'
                    /\ \A k \in Instance, n \in Nat :
                           Carries(outbox'[k], n, c) =>
                               /\ \A j \in Instance : phase'[j][c] = "idle" /\ NotInInbox(j, c)'
                               /\ \A j \in Instance, m \in Nat :
                                      Carries(outbox'[j], m, c) => j = k /\ m = n
                    /\ \A k \in Instance, n \in Nat :
                           Carries(inbox'[k], n, c) =>
                               /\ phase'[k][c] = "idle"
                               /\ \A m \in Nat : Carries(inbox'[k], m, c) => m = n
  BY DEF CommandsOnce, Carries
<1>4. \A j \in Instance : NotInInbox(j, c)' <=> NotInInbox(j, c)
  BY <1>ph DEF NotInInbox
<1>5. CASE c = d
  <2>1. \A j \in Instance : phase'[j][c] = "idle" /\ NotInInbox(j, c)'
    BY <1>3, <1>4, <1>5, <1>ph DEF NotInInbox
  <2>2. \A j, k \in Instance, m, n \in Nat :
           Carries(outbox'[k], n, c) /\ Carries(outbox'[j], m, c) => j = k /\ m = n
    BY <1>1, <1>3, <1>5
  <2>3. \A k \in Instance, n \in Nat : ~Carries(inbox'[k], n, c)
    BY <1>3, <1>5, <1>ph
  <2> QED
    BY <1>2, <1>5, <2>1, <2>2, <2>3
<1>6. CASE c # d
  <2>1. \A j \in Instance, n \in Nat : Carries(outbox'[j], n, c) => Carries(outbox[j], n, c)
    BY <1>1, <1>6
  <2>2. InNoOutbox(c) => InNoOutbox(c)'
    BY <2>1 DEF InNoOutbox
  <2> QED
    BY <1>2, <1>4, <1>6, <1>ph, <2>1, <2>2 DEF CommandsOnce
<1> QED
  BY <1>5, <1>6

LEMMA CrashOnce ==
    ASSUME TypeOK, CommandsOnce, NEW i \in Instance, Crash(i)
    PROVE  CommandsOnce'
<1>0. OutboxOK /\ InboxOK /\ ExecOK
  BY TypeParts
<1> DEFINE none == [j \in Instance |-> 0]
<1>1. ASSUME NEW j \in Instance, NEW n \in Nat, NEW c \in Command
      PROVE  /\ Carries(outbox'[j], n, c) => Carries(outbox[j], n + none[j], c)
             /\ Carries(inbox'[j], n, c) => Carries(inbox[j], n + none[j], c)
  BY <1>0 DEF Crash, Carries, OutboxOK, InboxOK
<1>2. \A j \in Instance, c \in Command : phase[j][c] = "idle" => phase'[j][c] = "idle"
  BY <1>0 DEF Crash, ExecOK, InFlight
<1>3. none \in [Instance -> Nat]
  OBVIOUS
<1> HIDE DEF none
<1> QED
  BY <1>1, <1>2, <1>3, OnceStable, DispatchedStable DEF Crash

LEMMA EnvironmentOnce ==
    ASSUME TypeOK, CommandsOnce, NEW i \in Instance, Environment(i)
    PROVE  CommandsOnce'
<1>0. MapOK /\ state[i] \in ChannelState
  BY TypeParts DEF MapOK
<1>1. CASE Heartbeat(i) \/ TtlFires(i) \/ StrayTtlFires(i)
  <2>1. /\ Claim(i, None) \in Message /\ Claim(i, None).topic = "sys"
        /\ Release(i) \in Message /\ Release(i).topic = "sys"
    <3>1. Claim(i, None) \in Message /\ Release(i) \in Message
      BY SysMessageType
    <3> QED
      BY <3>1 DEF Claim, Release
  <2> QED
    BY <1>1, <2>1, OnceQuietStep DEF Heartbeat, TtlFires, StrayTtlFires, exec
<1>2. ASSUME NEW s \in Command, WriteOutput(i, s) PROVE CommandsOnce'
  <2>1. state[i].currentCommandId \in Command \cup {None}
    BY <1>0 DEF ChannelState
  <2>2. Emit(i, state[i], "output", state[i].currentCommandId, s, None)
    BY <1>2 DEF WriteOutput
  <2>3. \E m \in Message : m.topic # "cmd" /\ Publish(i, m)
    BY <1>0, <2>1, <2>2, EmitPublishes DEF EventType
  <2> QED
    BY <1>2, <2>3, OnceQuietStep DEF WriteOutput, exec
<1>3. CASE LeaseLapses(i) \/ OpenStream(i) \/ CloseStream(i) \/ Boot(i)
  BY <1>3, OnceQuietStep DEF LeaseLapses, OpenStream, CloseStream, Boot, exec, env
<1> QED
  BY <1>1, <1>2, <1>3, TransmitOnce, DispatchOnce, CrashOnce DEF Environment

LEMMA NextCommandsOnce == TypeOK /\ CommandsOnce /\ [Next]_vars => CommandsOnce'
<1> SUFFICES ASSUME TypeOK, CommandsOnce, [Next]_vars PROVE CommandsOnce'
  OBVIOUS
<1>1. CASE UNCHANGED vars
  BY <1>1 DEF vars, exec, env, CommandsOnce, InNoOutbox, NotInInbox, Dispatched
<1> QED
  BY <1>1, NextCases, HandleOnce, ProceedOnce, EnvironmentOnce

-----------------------------------------------------------------------------
(* The steps of an instance leave the executors of the others alone        *)

Same(j) == /\ state'[j] = state[j] /\ phase'[j] = phase[j] /\ ranIn'[j] = ranIn[j]
           /\ open'[j] = open[j] /\ outbox'[j] = outbox[j]
           /\ (j \in channels' <=> j \in channels)

LEMMA KeepEffect ==
    ASSUME MapOK, NEW i \in Instance, NEW st, Keep(i, st)
    PROVE  /\ state'[i] = st /\ i \in channels'
           /\ \A j \in Instance : j # i =>
                  state'[j] = state[j] /\ (j \in channels' <=> j \in channels)
BY DEF Keep, MapOK

LEMMA EvictEffect ==
    ASSUME MapOK, NEW i \in Instance, NEW st, NEW owner, NEW seenAt,
           MaybeEvict(i, st, owner, seenAt)
    PROVE  /\ IF Evictable(st) THEN state'[i] = NewChannelState /\ i \notin channels'
              ELSE state'[i] = st /\ (i \in channels' <=> i \in channels)
           /\ \A j \in Instance : j # i =>
                  state'[j] = state[j] /\ (j \in channels' <=> j \in channels)
BY DEF MaybeEvict, MapOK

LEMMA PublishEffect ==
    ASSUME OutboxOK, NEW i \in Instance, NEW m, Publish(i, m)
    PROVE  /\ outbox'[i] = Append(outbox[i], m)
           /\ \A j \in Instance : j # i => outbox'[j] = outbox[j]
BY DEF Publish, OutboxOK

LEMMA EmitEffect ==
    ASSUME MapOK, OutboxOK, NEW i \in Instance, NEW st, NEW type, NEW c, NEW writer, NEW awaited,
           Emit(i, st, type, c, writer, awaited)
    PROVE  /\ state'[i] = [st EXCEPT !.nextId = @ + 1] /\ i \in channels'
           /\ outbox'[i] = Append(outbox[i],
                  [topic |-> "out", writer |-> writer, awaited |-> awaited,
                   event |-> [id |-> st.nextId + 1, type |-> type, commandId |-> c]])
           /\ \A j \in Instance : j # i =>
                  /\ state'[j] = state[j] /\ (j \in channels' <=> j \in channels)
                  /\ outbox'[j] = outbox[j]
BY KeepEffect, PublishEffect DEF Emit

\* The fields of the state that numbering an event leaves alone.
LEMMA EmitKeeps ==
    ASSUME MapOK, OutboxOK, NEW i \in Instance, NEW st \in ChannelState, NEW type, NEW c,
           NEW writer, NEW awaited, Emit(i, st, type, c, writer, awaited)
    PROVE  /\ state'[i].execQueue = st.execQueue /\ state'[i].pending = st.pending
           /\ state'[i].session = st.session /\ state'[i].currentCommandId = st.currentCommandId
           /\ i \in channels'
<1>1. state'[i] = [st EXCEPT !.nextId = @ + 1] /\ i \in channels'
  BY EmitEffect
<1> QED
  BY <1>1 DEF ChannelState

LEMMA HandleFrame ==
    ASSUME TypeOK, NEW i \in Instance, NEW j \in Instance, j # i, Handle(i)
    PROVE  Same(j)
<1>0. MapOK /\ ExecOK /\ OutboxOK
  BY TypeParts
<1>1. CASE OnCmdIgnored(i) \/ OnSysClaim(i)
  BY <1>1 DEF OnCmdIgnored, OnSysClaim, Same, map, exec
<1>2. CASE OnCmdOwner(i)
  BY <1>0, <1>2, KeepEffect DEF OnCmdOwner, Same, ExecOK
<1>3. CASE OnCmdClaim(i)
  BY <1>0, <1>3, KeepEffect, PublishEffect DEF OnCmdClaim, Same, ExecOK
<1>4. CASE OnOut(i)
  BY <1>0, <1>4, KeepEffect DEF OnOut, Same, exec
<1>6. CASE OnSysRelease(i)
  BY <1>0, <1>6, EvictEffect DEF OnSysRelease, Same, ExecOK, map
<1> QED
  BY <1>1, <1>2, <1>3, <1>4, <1>6 DEF Handle

LEMMA ProceedFrame ==
    ASSUME TypeOK, NEW i \in Instance, NEW j \in Instance, j # i, NEW c \in Command, Proceed(i, c)
    PROVE  Same(j)
<1>0. MapOK /\ ExecOK /\ OutboxOK
  BY TypeParts
<1>1. CASE Claimed(i, c)
  BY <1>0, <1>1, KeepEffect DEF Claimed, Moves, Same, ExecOK
<1>2. CASE BeginExecute(i, c)
  BY <1>0, <1>2, EmitEffect DEF BeginExecute, Moves, Same, ExecOK
<1>3. CASE FailExecute(i, c)
  BY <1>0, <1>3, EmitEffect DEF FailExecute, Moves, Same, ExecOK
<1>4. CASE StartEval(i, c)
  BY <1>0, <1>4 DEF StartEval, Moves, Same, ExecOK, map
<1>5. CASE EvalSettles(i, c)
  BY <1>0, <1>5, EmitEffect DEF EvalSettles, Same, ExecOK
<1>6. CASE Settle(i, c)
  BY <1>0, <1>6, EvictEffect DEF Settle, Same, ExecOK
<1> QED
  BY <1>1, <1>2, <1>3, <1>4, <1>5, <1>6 DEF Proceed

LEMMA EnvironmentFrame ==
    ASSUME TypeOK, NEW i \in Instance, NEW j \in Instance, j # i, Environment(i)
    PROVE  Same(j)
<1>0. MapOK /\ ExecOK /\ OutboxOK
  BY TypeParts
<1>1. CASE Transmit(i) \/ LeaseLapses(i) \/ Boot(i)
  BY <1>0, <1>1 DEF Transmit, LeaseLapses, Boot, Same, map, exec, OutboxOK
<1>2. ASSUME NEW c \in Command, Dispatch(i, c) PROVE Same(j)
  BY <1>0, <1>2, PublishEffect DEF Dispatch, Same, map, exec
<1>3. ASSUME NEW s \in Command, WriteOutput(i, s) PROVE Same(j)
  BY <1>0, <1>3, EmitEffect DEF WriteOutput, Same, exec
<1>4. CASE Heartbeat(i)
  BY <1>0, <1>4, PublishEffect DEF Heartbeat, Same, map, exec
<1>5. CASE TtlFires(i) \/ StrayTtlFires(i)
  BY <1>0, <1>5, PublishEffect DEF TtlFires, StrayTtlFires, Same, exec, MapOK
<1>6. CASE OpenStream(i)
  BY <1>0, <1>6, KeepEffect DEF OpenStream, Same, exec
<1>7. CASE CloseStream(i)
  BY <1>0, <1>7, EvictEffect DEF CloseStream, Same, exec
<1>8. CASE Crash(i)
  BY <1>0, <1>8 DEF Crash, Same, MapOK, ExecOK, OutboxOK
<1> QED
  BY <1>1, <1>2, <1>3, <1>4, <1>5, <1>6, <1>7, <1>8 DEF Environment

-----------------------------------------------------------------------------
(* The execution queue and the count of pending units of one instance      *)

Executing == {"echoing", "evaluating", "skipped", "finishing", "failing"}

\* The links of the queue q: the head may have begun, no other has; every command
\* that was queued and has not settled has its link, and only one.
Queues(ph, q) ==
    /\ \A n \in 1..Len(q) : ph[q[n]] = "queued" \/ (n = 1 /\ ph[q[n]] \in Executing)
    /\ \A c \in Command : ph[c] \in Executing \cup {"queued"} => \E n \in 1..Len(q) : q[n] = c
    /\ \A m, n \in 1..Len(q) : q[m] = q[n] => m = n

Accepted(ph)   == {c \in Command : ph[c] \notin {"idle", "settled"}}
Counts(ph, k)  == k = Cardinality(Accepted(ph))

\* What the executor of an instance keeps true.
Executor(ph, st) == Queues(ph, st.execQueue) /\ Counts(ph, st.pending)

LEMMA EnqueueQueues ==
    ASSUME NEW ph \in [Command -> Phase], NEW q \in Seq(Command), NEW c \in Command,
           Queues(ph, q), ph[c] \in {"idle", "claiming"}
    PROVE  Queues([ph EXCEPT ![c] = "queued"], Append(q, c))
<1> DEFINE ph2 == [ph EXCEPT ![c] = "queued"]
           q2  == Append(q, c)
<1>0. /\ Len(q) \in Nat /\ Len(q2) = Len(q) + 1 /\ q2[Len(q) + 1] = c
      /\ \A n \in 1..Len(q) : q2[n] = q[n] /\ q[n] \in Command
      /\ \A d \in Command : ph2[d] = IF d = c THEN "queued" ELSE ph[d]
  OBVIOUS
<1>1. \A n \in 1..Len(q) : q[n] # c
  BY DEF Queues, Executing
<1> HIDE DEF ph2, q2
<1>2. \A n \in 1..Len(q2) : ph2[q2[n]] = "queued" \/ (n = 1 /\ ph2[q2[n]] \in Executing)
  <2> SUFFICES ASSUME NEW n \in 1..Len(q2)
               PROVE  ph2[q2[n]] = "queued" \/ (n = 1 /\ ph2[q2[n]] \in Executing)
    OBVIOUS
  <2>1. CASE n = Len(q) + 1
    BY <1>0, <2>1
  <2>2. CASE n # Len(q) + 1
    <3>1. n \in 1..Len(q)
      BY <1>0, <2>2
    <3> QED
      BY <1>0, <1>1, <3>1 DEF Queues
  <2> QED
    BY <2>1, <2>2
<1>3. \A d \in Command : ph2[d] \in Executing \cup {"queued"} => \E n \in 1..Len(q2) : q2[n] = d
  <2> SUFFICES ASSUME NEW d \in Command, ph2[d] \in Executing \cup {"queued"}
               PROVE  \E n \in 1..Len(q2) : q2[n] = d
    OBVIOUS
  <2>1. CASE d = c
    <3>1. Len(q) + 1 \in 1..Len(q2)
      BY <1>0
    <3> QED
      BY <1>0, <2>1, <3>1
  <2>2. CASE d # c
    <3>1. PICK n \in 1..Len(q) : q[n] = d
      BY <1>0, <2>2 DEF Queues
    <3>2. n \in 1..Len(q2)
      BY <1>0
    <3> QED
      BY <1>0, <3>1, <3>2
  <2> QED
    BY <2>1, <2>2
<1>4. \A m, n \in 1..Len(q2) : q2[m] = q2[n] => m = n
  <2> SUFFICES ASSUME NEW m \in 1..Len(q2), NEW n \in 1..Len(q2), q2[m] = q2[n]
               PROVE  m = n
    OBVIOUS
  <2>1. (m \in 1..Len(q) \/ m = Len(q) + 1) /\ (n \in 1..Len(q) \/ n = Len(q) + 1)
    BY <1>0
  <2> QED
    BY <1>0, <1>1, <2>1 DEF Queues
<1> QED
  BY <1>2, <1>3, <1>4 DEF Queues, ph2, q2

\* Claiming a channel on behalf of a command queues nothing.
LEMMA ClaimQueues ==
    ASSUME NEW ph \in [Command -> Phase], NEW q \in Seq(Command), NEW c \in Command,
           Queues(ph, q), ph[c] = "idle"
    PROVE  Queues([ph EXCEPT ![c] = "claiming"], q)
<1>1. \A n \in 1..Len(q) : q[n] \in Command /\ q[n] # c
  BY DEF Queues, Executing
<1> QED
  BY <1>1 DEF Queues, Executing

LEMMA AdvanceQueues ==
    ASSUME NEW ph \in [Command -> Phase], NEW q \in Seq(Command), NEW c \in Command,
           Queues(ph, q), q # <<>>, Head(q) = c, NEW to \in Executing
    PROVE  Queues([ph EXCEPT ![c] = to], q)
<1> DEFINE ph2 == [ph EXCEPT ![c] = to]
<1>0. /\ 1 \in 1..Len(q) /\ q[1] = c
      /\ \A n \in 1..Len(q) : q[n] \in Command
      /\ \A d \in Command : ph2[d] = IF d = c THEN to ELSE ph[d]
  BY DEF Executing
<1> HIDE DEF ph2
<1>1. \A n \in 1..Len(q) : ph2[q[n]] = "queued" \/ (n = 1 /\ ph2[q[n]] \in Executing)
  BY <1>0 DEF Queues
<1>2. \A d \in Command : ph2[d] \in Executing \cup {"queued"} => \E n \in 1..Len(q) : q[n] = d
  BY <1>0 DEF Queues
<1> QED
  BY <1>1, <1>2 DEF Queues, ph2

LEMMA FinishQueues ==
    ASSUME NEW ph \in [Command -> Phase], NEW q \in Seq(Command), NEW c \in Command,
           Queues(ph, q), q # <<>>, Head(q) = c
    PROVE  Queues([ph EXCEPT ![c] = "settled"], Tail(q))
<1> DEFINE ph2 == [ph EXCEPT ![c] = "settled"]
           q2  == Tail(q)
<1>0. /\ Len(q) \in Nat /\ 1 \in 1..Len(q) /\ q[1] = c /\ Len(q2) = Len(q) - 1
      /\ \A n \in 1..Len(q) : q[n] \in Command
      /\ \A n \in 1..Len(q2) : n + 1 \in 1..Len(q) /\ n + 1 # 1 /\ q2[n] = q[n + 1]
      /\ \A d \in Command : ph2[d] = IF d = c THEN "settled" ELSE ph[d]
  BY DEF Phase
<1>1. \A n \in 1..Len(q2) : q2[n] # c
  BY <1>0 DEF Queues
<1> HIDE DEF ph2, q2
<1>2. \A n \in 1..Len(q2) : ph2[q2[n]] = "queued"
  <2> SUFFICES ASSUME NEW n \in 1..Len(q2)
               PROVE  ph2[q2[n]] = "queued"
    OBVIOUS
  <2>1. ph[q[n + 1]] = "queued"
    BY <1>0 DEF Queues
  <2> QED
    BY <1>0, <1>1, <2>1
<1>3. \A d \in Command : ph2[d] \in Executing \cup {"queued"} => \E n \in 1..Len(q2) : q2[n] = d
  <2> SUFFICES ASSUME NEW d \in Command, ph2[d] \in Executing \cup {"queued"}
               PROVE  \E n \in 1..Len(q2) : q2[n] = d
    OBVIOUS
  <2>1. d # c /\ ph[d] \in Executing \cup {"queued"}
    BY <1>0 DEF Executing
  <2>2. PICK n \in 1..Len(q) : q[n] = d
    BY <2>1 DEF Queues
  <2>3. n - 1 \in 1..Len(q2) /\ (n - 1) + 1 = n
    BY <1>0, <2>1, <2>2
  <2>4. q2[n - 1] = d
    BY <1>0, <2>2, <2>3
  <2> QED
    BY <2>3, <2>4
<1>4. \A m, n \in 1..Len(q2) : q2[m] = q2[n] => m = n
  <2> SUFFICES ASSUME NEW m \in 1..Len(q2), NEW n \in 1..Len(q2), q2[m] = q2[n]
               PROVE  m = n
    OBVIOUS
  <2>1. m + 1 = n + 1
    BY <1>0 DEF Queues
  <2>2. m \in Nat /\ n \in Nat
    BY <1>0
  <2> QED
    BY <2>1, <2>2
<1> QED
  BY <1>2, <1>3, <1>4 DEF Queues, ph2, q2

\* A command between its echo and its end is the head of the queue.
LEMMA HeadExecutes ==
    ASSUME NEW ph \in [Command -> Phase], NEW q \in Seq(Command), NEW c \in Command,
           Queues(ph, q), ph[c] \in Executing
    PROVE  q # <<>> /\ Head(q) = c
<1>1. PICK n \in 1..Len(q) : q[n] = c
  BY DEF Queues
<1>2. n = 1
  BY <1>1 DEF Queues, Executing
<1> QED
  BY <1>1, <1>2

LEMMA AcceptedFinite == \A ph : IsFiniteSet(Accepted(ph)) /\ Cardinality(Accepted(ph)) \in Nat
<1> TAKE ph
<1>1. Accepted(ph) \subseteq Command
  BY DEF Accepted
<1> QED
  BY <1>1, FS_Subset, FS_CardinalityType

\* Nothing pending, nothing queued.
LEMMA NothingPending ==
    ASSUME NEW ph \in [Command -> Phase], NEW q \in Seq(Command), Queues(ph, q), Counts(ph, 0)
    PROVE  q = <<>> /\ Accepted(ph) = {}
<1>1. Accepted(ph) = {}
  BY AcceptedFinite, FS_EmptySet DEF Counts
<1>2. \A n \in 1..Len(q) : FALSE
  BY <1>1 DEF Queues, Accepted, Executing
<1> QED
  BY <1>1, <1>2

LEMMA AcceptCounts ==
    ASSUME NEW ph \in [Command -> Phase], NEW k \in Nat, NEW c \in Command, NEW to \in Phase,
           Counts(ph, k), ph[c] = "idle", to \notin {"idle", "settled"}
    PROVE  Counts([ph EXCEPT ![c] = to], k + 1)
<1>1. Accepted([ph EXCEPT ![c] = to]) = Accepted(ph) \cup {c} /\ c \notin Accepted(ph)
  BY DEF Accepted
<1> QED
  BY <1>1, AcceptedFinite, FS_AddElement DEF Counts

LEMMA MoveCounts ==
    ASSUME NEW ph \in [Command -> Phase], NEW k \in Nat, NEW c \in Command, NEW to \in Phase,
           Counts(ph, k), ph[c] \notin {"idle", "settled"}, to \notin {"idle", "settled"}
    PROVE  Counts([ph EXCEPT ![c] = to], k)
<1>1. Accepted([ph EXCEPT ![c] = to]) = Accepted(ph)
  BY DEF Accepted
<1> QED
  BY <1>1 DEF Counts

LEMMA FinishCounts ==
    ASSUME NEW ph \in [Command -> Phase], NEW k \in Nat, NEW c \in Command,
           Counts(ph, k), ph[c] \notin {"idle", "settled"}
    PROVE  k > 0 /\ Counts([ph EXCEPT ![c] = "settled"], k - 1)
<1>1. Accepted([ph EXCEPT ![c] = "settled"]) = Accepted(ph) \ {c} /\ c \in Accepted(ph)
  BY DEF Accepted, Phase
<1>2. Cardinality(Accepted(ph)) # 0
  BY <1>1, AcceptedFinite, FS_EmptySet
<1>3. Cardinality(Accepted(ph) \ {c}) = Cardinality(Accepted(ph)) - 1
  BY <1>1, AcceptedFinite, FS_RemoveElement
<1>4. k = Cardinality(Accepted(ph))
  BY DEF Counts
<1>5. k > 0
  BY <1>2, <1>4
<1>6. Counts([ph EXCEPT ![c] = "settled"], k - 1)
  BY <1>1, <1>3, <1>4 DEF Counts
<1> QED
  BY <1>5, <1>6

-----------------------------------------------------------------------------
(* Every step keeps the executors                                          *)

ExecutorOK == \A i \in Instance : Executor(phase[i], state[i])

LEMMA InitExecutor == Init => ExecutorOK
<1> SUFFICES ASSUME Init, NEW i \in Instance PROVE Executor(phase[i], state[i])
  BY DEF ExecutorOK
<1>1. \A c \in Command : phase[i][c] = "idle"
  BY DEF Init
<1>2. Accepted(phase[i]) = {}
  BY <1>1 DEF Accepted
<1>3. state[i].execQueue = <<>> /\ state[i].pending = 0
  BY DEF Init, NewChannelState
<1> QED
  BY <1>1, <1>2, <1>3, FS_EmptySet DEF Executor, Queues, Counts, Executing

\* An instance never has accepted the command that waits in its inbox.
LEMMA AcceptedIsNew ==
    ASSUME TypeOK, CommandsOnce, NEW i \in Instance, Receives(i, "cmd")
    PROVE  /\ Head(inbox[i]).commandId \in Command
           /\ phase[i][Head(inbox[i]).commandId] = "idle"
<1>0. InboxOK
  BY TypeParts
<1>1. Head(inbox[i]).commandId \in Command
  BY <1>0, ReceivesType, KindsOfMessage
<1>2. Carries(inbox[i], 1, Head(inbox[i]).commandId)
  BY <1>0 DEF Carries, Receives, InboxOK
<1> QED
  BY <1>1, <1>2 DEF CommandsOnce

\* Eviction drops nothing the executor needs.
LEMMA EvictExecutor ==
    ASSUME MapOK, NEW i \in Instance, NEW ph \in [Command -> Phase], NEW st \in ChannelState,
           NEW owner, NEW seenAt, MaybeEvict(i, st, owner, seenAt), Executor(ph, st)
    PROVE  Executor(ph, state'[i])
<1>1. CASE Evictable(st)
  <2>1. st.execQueue \in Seq(Command) /\ st.pending = 0
    BY <1>1 DEF ChannelState, Evictable
  <2>2. st.execQueue = <<>>
    BY <2>1, NothingPending DEF Executor
  <2>3. state'[i].execQueue = <<>> /\ state'[i].pending = 0
    BY <1>1, EvictEffect DEF NewChannelState
  <2> QED
    BY <2>1, <2>2, <2>3 DEF Executor
<1>2. CASE ~Evictable(st)
  BY <1>2, EvictEffect
<1> QED
  BY <1>1, <1>2

LEMMA HandleExecutor ==
    ASSUME TypeOK, CommandsOnce, ExecutorOK, NEW i \in Instance, Handle(i)
    PROVE  Executor(phase'[i], state'[i])
<1>0. MapOK /\ ExecOK /\ state[i] \in ChannelState /\ phase[i] \in [Command -> Phase]
  BY TypeParts DEF MapOK, ExecOK
<1>q. state[i].execQueue \in Seq(Command) /\ state[i].pending \in Nat
  BY <1>0 DEF ChannelState
<1>e. Queues(phase[i], state[i].execQueue) /\ Counts(phase[i], state[i].pending)
  BY DEF ExecutorOK, Executor
<1> DEFINE c == Head(inbox[i]).commandId
<1>1. CASE OnCmdIgnored(i) \/ OnSysClaim(i)
  BY <1>1, <1>e DEF OnCmdIgnored, OnSysClaim, map, exec, Executor
<1>2. CASE OnCmdOwner(i)
  <2>1. c \in Command /\ phase[i][c] = "idle"
    BY <1>2, AcceptedIsNew DEF OnCmdOwner
  <2>2. phase'[i] = [phase[i] EXCEPT ![c] = "queued"]
    BY <1>0, <1>2 DEF OnCmdOwner, ExecOK
  <2>3. state'[i] = Enqueued([state[i] EXCEPT !.pending = @ + 1], c)
    BY <1>0, <1>2, KeepEffect DEF OnCmdOwner
  <2>4. state'[i].execQueue = Append(state[i].execQueue, c) /\ state'[i].pending = state[i].pending + 1
    BY <1>0, <2>3 DEF Enqueued, ChannelState
  <2>5. Queues([phase[i] EXCEPT ![c] = "queued"], Append(state[i].execQueue, c))
    <3> HIDE DEF c
    <3> QED
      BY <1>0, <1>q, <1>e, <2>1, EnqueueQueues
  <2>6. Counts([phase[i] EXCEPT ![c] = "queued"], state[i].pending + 1)
    <3>1. "queued" \in Phase /\ "queued" \notin {"idle", "settled"}
      BY DEF Phase
    <3> HIDE DEF c
    <3> QED
      BY <1>0, <1>q, <1>e, <2>1, <3>1, AcceptCounts
  <2> QED
    BY <2>2, <2>4, <2>5, <2>6 DEF Executor
<1>3. CASE OnCmdClaim(i)
  <2>1. c \in Command /\ phase[i][c] = "idle"
    BY <1>3, AcceptedIsNew DEF OnCmdClaim
  <2>2. phase'[i] = [phase[i] EXCEPT ![c] = "claiming"]
    BY <1>0, <1>3 DEF OnCmdClaim, ExecOK
  <2>3. state'[i] = [state[i] EXCEPT !.pending = @ + 1]
    BY <1>0, <1>3, KeepEffect DEF OnCmdClaim
  <2>4. state'[i].execQueue = state[i].execQueue /\ state'[i].pending = state[i].pending + 1
    BY <1>0, <2>3 DEF ChannelState
  <2>5. Queues(phase'[i], state'[i].execQueue)
    BY <1>0, <1>q, <1>e, <2>1, <2>2, <2>4, ClaimQueues
  <2>6. Counts([phase[i] EXCEPT ![c] = "claiming"], state[i].pending + 1)
    <3>1. "claiming" \in Phase /\ "claiming" \notin {"idle", "settled"}
      BY DEF Phase
    <3> HIDE DEF c
    <3> QED
      BY <1>0, <1>q, <1>e, <2>1, <3>1, AcceptCounts
  <2> QED
    BY <2>2, <2>4, <2>5, <2>6 DEF Executor
<1>4. CASE OnOut(i)
  <2> DEFINE event == Head(inbox[i]).event
             st == [state[i] EXCEPT !.nextId = IF event.id > @ THEN event.id ELSE @,
                                    !.buffer = Pushed(@)]
  <2>1. state'[i] = st
    BY <1>0, <1>4, KeepEffect DEF OnOut
  <2>2. state'[i].execQueue = state[i].execQueue /\ state'[i].pending = state[i].pending
    BY <1>0, <2>1 DEF ChannelState
  <2> QED
    BY <1>e, <1>4, <2>2 DEF OnOut, exec, Executor
<1>5. CASE OnSysRelease(i)
  <2> DEFINE s  == state[i].session
             st == IF s = None THEN state[i]
                               ELSE [state[i] EXCEPT !.session = None, !.buffer = 0]
  <2>1. st \in ChannelState /\ st.execQueue = state[i].execQueue /\ st.pending = state[i].pending
    BY <1>0 DEF ChannelState
  <2>2. Executor(phase[i], st)
    BY <1>e, <2>1 DEF Executor
  <2>3. phase'[i] = phase[i]
    BY <1>5 DEF OnSysRelease
  <2>4. CASE i \in channels
    <3>1. MaybeEvict(i, st, None, "none")
      BY <1>5, <2>4 DEF OnSysRelease
    <3> QED
      BY <1>0, <2>1, <2>2, <2>3, <3>1, EvictExecutor
  <2>5. CASE i \notin channels
    BY <1>5, <1>e, <2>3, <2>5 DEF OnSysRelease, map, Executor
  <2> QED
    BY <2>4, <2>5
<1> QED
  BY <1>1, <1>2, <1>3, <1>4, <1>5 DEF Handle

LEMMA ProceedExecutor ==
    ASSUME TypeOK, ExecutorOK, NEW i \in Instance, NEW c \in Command, Proceed(i, c)
    PROVE  Executor(phase'[i], state'[i])
<1>0. /\ MapOK /\ OutboxOK /\ ExecOK
      /\ state[i] \in ChannelState /\ phase[i] \in [Command -> Phase]
  BY TypeParts DEF MapOK, ExecOK
<1>q. state[i].execQueue \in Seq(Command) /\ state[i].pending \in Nat
  BY <1>0 DEF ChannelState
<1>e. Queues(phase[i], state[i].execQueue) /\ Counts(phase[i], state[i].pending)
  BY DEF ExecutorOK, Executor
\* The unit that advances is the head of the queue.
<1>h. ASSUME NEW to \in Executing, phase' = [phase EXCEPT ![i][c] = to],
             phase[i][c] \in Executing \/ (MayBegin(i, c) /\ phase[i][c] = "queued"),
             state'[i].execQueue = state[i].execQueue, state'[i].pending = state[i].pending
      PROVE  Executor(phase'[i], state'[i])
  <2>1. phase'[i] = [phase[i] EXCEPT ![c] = to]
    BY <1>0, <1>h DEF ExecOK
  <2>2. state[i].execQueue # <<>> /\ Head(state[i].execQueue) = c
    BY <1>0, <1>q, <1>e, <1>h, HeadExecutes DEF MayBegin
  <2>3. Queues(phase'[i], state'[i].execQueue)
    BY <1>0, <1>q, <1>e, <1>h, <2>1, <2>2, AdvanceQueues
  <2>4. to \in Phase /\ to \notin {"idle", "settled"} /\ phase[i][c] \notin {"idle", "settled"}
    BY <1>h DEF Executing, Phase
  <2>5. Counts(phase'[i], state'[i].pending)
    BY <1>0, <1>q, <1>e, <1>h, <2>1, <2>4, MoveCounts
  <2> QED
    BY <2>3, <2>5 DEF Executor
<1>1. CASE Claimed(i, c)
  <2>1. phase[i][c] = "claiming" /\ phase'[i] = [phase[i] EXCEPT ![c] = "queued"]
    BY <1>0, <1>1 DEF Claimed, Moves, ExecOK
  <2>2. state'[i] = Enqueued(state[i], c)
    BY <1>0, <1>1, KeepEffect DEF Claimed
  <2>3. state'[i].execQueue = Append(state[i].execQueue, c) /\ state'[i].pending = state[i].pending
    BY <1>0, <2>2 DEF Enqueued, ChannelState
  <2>4. Queues(phase'[i], state'[i].execQueue)
    BY <1>0, <1>q, <1>e, <2>1, <2>3, EnqueueQueues
  <2>5. /\ "queued" \in Phase /\ "queued" \notin {"idle", "settled"}
        /\ phase[i][c] \notin {"idle", "settled"}
    BY <2>1 DEF Phase
  <2>6. Counts([phase[i] EXCEPT ![c] = "queued"], state[i].pending)
    BY <1>0, <1>q, <1>e, <2>5, MoveCounts
  <2>7. Counts(phase'[i], state'[i].pending)
    BY <2>1, <2>3, <2>6
  <2> QED
    BY <2>4, <2>7 DEF Executor
<1>2. CASE BeginExecute(i, c)
  <2>1. state'[i].execQueue = state[i].execQueue /\ state'[i].pending = state[i].pending
    <3> DEFINE sn == IF state[i].session = None THEN c ELSE state[i].session
               st == [state[i] EXCEPT !.session = sn, !.currentCommandId = c]
    <3>1. sn \in Command
      BY <1>0 DEF ChannelState
    <3>2. st \in ChannelState
      BY <1>0, <3>1, SessionUpdateType
    <3>3. Emit(i, st, "command", c, None, c)
      BY <1>2 DEF BeginExecute
    <3>4. state'[i].execQueue = st.execQueue /\ state'[i].pending = st.pending
      BY <1>0, <3>2, <3>3, EmitKeeps
    <3> QED
      BY <1>0, <3>4 DEF ChannelState
  <2> QED
    BY <1>2, <1>h, <2>1 DEF BeginExecute, Moves, Executing
<1>3. CASE FailExecute(i, c)
  <2>1. state'[i].execQueue = state[i].execQueue /\ state'[i].pending = state[i].pending
    BY <1>0, <1>3, EmitKeeps DEF FailExecute
  <2> QED
    BY <1>3, <1>h, <2>1 DEF FailExecute, Moves, Executing
<1>4. CASE StartEval(i, c)
  BY <1>4, <1>h DEF StartEval, Moves, Executing, map
<1>5. CASE EvalSettles(i, c)
  <2>1. state'[i].execQueue = state[i].execQueue /\ state'[i].pending = state[i].pending
    BY <1>0, <1>5, EmitKeeps DEF EvalSettles
  <2> QED
    BY <1>5, <1>h, <2>1 DEF EvalSettles, Executing
<1>6. CASE Settle(i, c)
  <2>1. phase[i][c] \in Executing /\ phase'[i] = [phase[i] EXCEPT ![c] = "settled"]
    BY <1>0, <1>6 DEF Settle, LinkResolves, Executing, ExecOK
  <2>2. state[i].execQueue # <<>> /\ Head(state[i].execQueue) = c
    BY <1>0, <1>q, <1>e, <2>1, HeadExecutes
  <2>3. Queues(phase'[i], Tail(state[i].execQueue))
    BY <1>0, <1>q, <1>e, <2>1, <2>2, FinishQueues
  <2>4. state[i].pending > 0 /\ Counts(phase'[i], state[i].pending - 1)
    BY <1>0, <1>q, <1>e, <2>1, FinishCounts DEF Executing
  <2>5. Finished(state[i]) \in ChannelState
    BY <1>0, <2>2, <2>4, FinishedType
  <2>6. Executor(phase'[i], Finished(state[i]))
    BY <1>0, <2>3, <2>4 DEF Executor, Finished, ChannelState
  <2>7. MaybeEvict(i, Finished(state[i]), ownership[i], ownerSeenAt[i])
    BY <1>6 DEF Settle
  <2>8. phase'[i] \in [Command -> Phase]
    BY <1>0, <2>1 DEF Phase
  <2> QED
    BY <1>0, <2>5, <2>6, <2>7, <2>8, EvictExecutor
<1> QED
  BY <1>1, <1>2, <1>3, <1>4, <1>5, <1>6 DEF Proceed

LEMMA EnvironmentExecutor ==
    ASSUME TypeOK, ExecutorOK, NEW i \in Instance, Environment(i)
    PROVE  Executor(phase'[i], state'[i])
<1>0. /\ MapOK /\ OutboxOK /\ ExecOK
      /\ state[i] \in ChannelState /\ phase[i] \in [Command -> Phase]
  BY TypeParts DEF MapOK, ExecOK
<1>e. Executor(phase[i], state[i])
  BY DEF ExecutorOK
<1>1. CASE Transmit(i) \/ Heartbeat(i) \/ LeaseLapses(i) \/ StrayTtlFires(i) \/ Boot(i)
  BY <1>1, <1>e DEF Transmit, Heartbeat, LeaseLapses, StrayTtlFires, Boot, map, exec
<1>2. ASSUME NEW c \in Command, Dispatch(i, c) PROVE Executor(phase'[i], state'[i])
  BY <1>2, <1>e DEF Dispatch, map, exec
<1>3. ASSUME NEW s \in Command, WriteOutput(i, s) PROVE Executor(phase'[i], state'[i])
  <2>1. state'[i].execQueue = state[i].execQueue /\ state'[i].pending = state[i].pending
    BY <1>0, <1>3, EmitKeeps DEF WriteOutput
  <2> QED
    BY <1>e, <1>3, <2>1 DEF WriteOutput, exec, Executor
<1>4. CASE TtlFires(i)
  <2>1. state'[i].execQueue = state[i].execQueue /\ state'[i].pending = state[i].pending
    BY <1>0, <1>4 DEF TtlFires, ChannelState, MapOK
  <2> QED
    BY <1>e, <1>4, <2>1 DEF TtlFires, exec, Executor
<1>5. CASE OpenStream(i)
  <2>1. state'[i].execQueue = state[i].execQueue /\ state'[i].pending = state[i].pending
    BY <1>0, <1>5, KeepEffect DEF OpenStream, ChannelState
  <2> QED
    BY <1>e, <1>5, <2>1 DEF OpenStream, exec, Executor
<1>6. CASE CloseStream(i)
  <2> DEFINE st == [state[i] EXCEPT !.subscriberCount = @ - 1]
  <2>1. st \in ChannelState
    BY <1>0, <1>6, UpdateType DEF CloseStream
  <2>2. Executor(phase[i], st)
    BY <1>0, <1>e DEF Executor, ChannelState
  <2>3. MaybeEvict(i, st, ownership[i], ownerSeenAt[i]) /\ phase'[i] = phase[i]
    BY <1>6 DEF CloseStream, exec
  <2> QED
    BY <1>0, <2>1, <2>2, <2>3, EvictExecutor
<1>7. CASE Crash(i)
  <2>1. /\ \A c \in Command : phase'[i][c] \in {"idle", "settled"}
        /\ state'[i].execQueue = <<>> /\ state'[i].pending = 0
    BY <1>0, <1>7 DEF Crash, InFlight, NewChannelState, MapOK, ExecOK
  <2>2. Accepted(phase'[i]) = {}
    BY <2>1 DEF Accepted
  <2> QED
    BY <2>1, <2>2, FS_EmptySet DEF Executor, Queues, Counts, Executing
<1> QED
  BY <1>1, <1>2, <1>3, <1>4, <1>5, <1>6, <1>7 DEF Environment

LEMMA NextExecutor == TypeOK /\ CommandsOnce /\ ExecutorOK /\ [Next]_vars => ExecutorOK'
<1> SUFFICES ASSUME TypeOK, CommandsOnce, ExecutorOK, [Next]_vars, NEW j \in Instance
             PROVE  Executor(phase'[j], state'[j])
  BY DEF ExecutorOK
<1>1. CASE Same(j)
  BY <1>1 DEF Same, ExecutorOK
<1>2. CASE UNCHANGED vars
  BY <1>2 DEF vars, map, exec, ExecutorOK
<1>3. ASSUME NEW i \in Instance, Handle(i) \/ Environment(i)
      PROVE  Executor(phase'[j], state'[j])
  BY <1>1, <1>3, HandleFrame, EnvironmentFrame, HandleExecutor, EnvironmentExecutor
<1>4. ASSUME NEW i \in Instance, NEW c \in Command, Proceed(i, c)
      PROVE  Executor(phase'[j], state'[j])
  BY <1>1, <1>4, ProceedFrame, ProceedExecutor
<1> QED
  BY <1>2, <1>3, <1>4, NextCases

\* A unit that is over is still counted and still linked.
LEMMA ExecutorSettleable == TypeOK /\ ExecutorOK => Settleable
<1> SUFFICES ASSUME TypeOK, ExecutorOK, NEW i \in Instance, NEW c \in Command, LinkResolves(i, c)
             PROVE  state[i].pending > 0 /\ state[i].execQueue # <<>>
  BY DEF Settleable
<1>0. /\ phase[i] \in [Command -> Phase] /\ phase[i][c] \in Executing
      /\ state[i].execQueue \in Seq(Command) /\ state[i].pending \in Nat
  BY DEF TypeOK, ChannelState, LinkResolves, Executing
<1>1. Queues(phase[i], state[i].execQueue) /\ Counts(phase[i], state[i].pending)
  BY DEF ExecutorOK, Executor
<1>2. state[i].execQueue # <<>>
  BY <1>0, <1>1, HeadExecutes
<1>3. state[i].pending > 0
  BY <1>0, <1>1, FinishCounts DEF Executing
<1> QED
  BY <1>2, <1>3

-----------------------------------------------------------------------------
(* The channels map and the sessions                                       *)

Collectable(st) == st.pending = 0 /\ st.subscriberCount = 0 /\ st.session = None /\ st.buffer = 0

\* What the map does not hold is as new, what it holds is not collectable, and
\* the session of the channel is the one open REPL server.
MapSound(j) ==
    /\ j \notin channels => state[j] = NewChannelState
    /\ ReplayBufferSize > 0 /\ j \in channels => ~Collectable(state[j])
    /\ open[j] = {state[j].session} \ {None}

MapsSound == \A j \in Instance : MapSound(j)

LEMMA InitMaps == Init => MapsSound
BY DEF Init, MapsSound, MapSound, NewChannelState

\* Eviction keeps the three together, when the handler has accounted for sessions.
LEMMA EvictMap ==
    ASSUME MapOK, NEW i \in Instance, NEW st \in ChannelState, NEW owner, NEW seenAt,
           i \in channels, MaybeEvict(i, st, owner, seenAt), open'[i] = {st.session} \ {None}
    PROVE  MapSound(i)'
<1>1. CASE Evictable(st)
  <2>1. state'[i] = NewChannelState /\ i \notin channels' /\ st.session = None
    BY <1>1, EvictEffect DEF Evictable
  <2> QED
    BY <2>1 DEF MapSound, NewChannelState
<1>2. CASE ~Evictable(st)
  BY <1>2, EvictEffect DEF MapSound, Evictable, Collectable
<1> QED
  BY <1>1, <1>2

LEMMA HandleMap ==
    ASSUME TypeOK, MapsSound, NEW i \in Instance, Handle(i)
    PROVE  MapSound(i)'
<1>0. MapOK /\ ExecOK /\ state[i] \in ChannelState
  BY TypeParts DEF MapOK
<1>s. MapSound(i)
  BY DEF MapsSound
<1>1. CASE OnCmdIgnored(i) \/ OnSysClaim(i)
  BY <1>1, <1>s DEF OnCmdIgnored, OnSysClaim, map, exec, MapSound
<1>2. CASE OnCmdOwner(i)
  <2>1. state'[i] = Enqueued([state[i] EXCEPT !.pending = @ + 1], Head(inbox[i]).commandId)
        /\ i \in channels' /\ open' = open
    BY <1>0, <1>2, KeepEffect DEF OnCmdOwner
  <2>2. state'[i].session = state[i].session /\ state'[i].pending > 0
    BY <1>0, <2>1 DEF Enqueued, ChannelState
  <2> QED
    BY <1>s, <2>1, <2>2 DEF MapSound, Collectable
<1>3. CASE OnCmdClaim(i)
  <2>1. state'[i] = [state[i] EXCEPT !.pending = @ + 1] /\ i \in channels' /\ open' = open
    BY <1>0, <1>3, KeepEffect DEF OnCmdClaim
  <2>2. state'[i].session = state[i].session /\ state'[i].pending > 0
    BY <1>0, <2>1 DEF ChannelState
  <2> QED
    BY <1>s, <2>1, <2>2 DEF MapSound, Collectable
<1>4. CASE OnOut(i)
  <2> DEFINE event == Head(inbox[i]).event
             st == [state[i] EXCEPT !.nextId = IF event.id > @ THEN event.id ELSE @,
                                    !.buffer = Pushed(@)]
  <2>1. state'[i] = st /\ i \in channels' /\ open' = open
    BY <1>0, <1>4, KeepEffect DEF OnOut, exec
  <2>2. state'[i].session = state[i].session /\ state'[i].buffer = Pushed(state[i].buffer)
    BY <1>0, <2>1 DEF ChannelState
  <2>3. ReplayBufferSize > 0 => Pushed(state[i].buffer) > 0
    BY <1>0, BoundsAssumption DEF Pushed, ChannelState, BoundsAssumption
  <2> QED
    BY <1>s, <2>1, <2>2, <2>3 DEF MapSound, Collectable
<1>5. CASE OnSysRelease(i)
  <2> DEFINE s  == state[i].session
             st == IF s = None THEN state[i]
                               ELSE [state[i] EXCEPT !.session = None, !.buffer = 0]
  <2>1. st \in ChannelState /\ st.session = None
    BY <1>0 DEF ChannelState
  <2>2. open'[i] = {}
    BY <1>0, <1>5, <1>s DEF OnSysRelease, MapSound, ExecOK
  <2>3. CASE i \in channels
    <3>1. MaybeEvict(i, st, None, "none")
      BY <1>5, <2>3 DEF OnSysRelease
    <3> QED
      BY <1>0, <2>1, <2>2, <2>3, <3>1, EvictMap
  <2>4. CASE i \notin channels
    <3>1. state' = state /\ channels' = channels
      BY <1>5, <2>4 DEF OnSysRelease, map
    <3> QED
      BY <1>s, <2>2, <2>4, <3>1 DEF MapSound, NewChannelState
  <2> QED
    BY <2>3, <2>4
<1> QED
  BY <1>1, <1>2, <1>3, <1>4, <1>5 DEF Handle

LEMMA ProceedMap ==
    ASSUME TypeOK, ExecutorOK, MapsSound, NEW i \in Instance, NEW c \in Command, Proceed(i, c)
    PROVE  MapSound(i)'
<1>0. MapOK /\ OutboxOK /\ ExecOK /\ state[i] \in ChannelState /\ phase[i] \in [Command -> Phase]
  BY TypeParts DEF MapOK, ExecOK
<1>s. MapSound(i)
  BY DEF MapsSound
\* A command on its way is counted, hence its channel is in the map.
<1>p. ASSUME phase[i][c] \notin {"idle", "settled"} PROVE state[i].pending > 0 /\ i \in channels
  <2>1. state[i].pending \in Nat /\ Counts(phase[i], state[i].pending)
    BY <1>0 DEF ExecutorOK, Executor, ChannelState
  <2>2. state[i].pending > 0
    BY <1>0, <1>p, <2>1, FinishCounts
  <2> QED
    BY <1>s, <2>2 DEF MapSound, NewChannelState
<1>1. CASE Claimed(i, c)
  <2>1. state'[i] = Enqueued(state[i], c) /\ i \in channels' /\ open' = open
    BY <1>0, <1>1, KeepEffect DEF Claimed
  <2>2. state'[i].session = state[i].session /\ state'[i].pending = state[i].pending
    BY <1>0, <2>1 DEF Enqueued, ChannelState
  <2> QED
    BY <1>1, <1>p, <1>s, <2>1, <2>2 DEF Claimed, Moves, MapSound, Collectable
<1>2. CASE BeginExecute(i, c)
  <2> DEFINE s  == IF state[i].session = None THEN c ELSE state[i].session
             st == [state[i] EXCEPT !.session = s, !.currentCommandId = c]
  <2>1. s \in Command
    BY <1>0 DEF ChannelState
  <2>2. st \in ChannelState /\ st.session = s
    BY <1>0, <2>1, SessionUpdateType DEF ChannelState
  <2>3. Emit(i, st, "command", c, None, c)
    BY <1>2 DEF BeginExecute
  <2>4. state'[i].session = s /\ i \in channels'
    BY <1>0, <2>2, <2>3, EmitKeeps
  <2>5. open'[i] = IF state[i].session = None THEN open[i] \cup {c} ELSE open[i]
    BY <1>0, <1>2 DEF BeginExecute, ExecOK
  <2>6. open'[i] = {s}
    BY <1>s, <2>1, <2>5 DEF MapSound
  <2> QED
    BY <2>1, <2>4, <2>6 DEF MapSound, Collectable
<1>3. CASE FailExecute(i, c) \/ EvalSettles(i, c)
  <2>1. /\ state'[i].session = state[i].session /\ state'[i].pending = state[i].pending
        /\ i \in channels' /\ open' = open
    BY <1>0, <1>3, EmitKeeps DEF FailExecute, EvalSettles
  <2>2. phase[i][c] \notin {"idle", "settled"}
    BY <1>3 DEF FailExecute, EvalSettles, Moves
  <2> QED
    BY <1>0, <1>p, <1>s, <2>1, <2>2 DEF MapSound, Collectable
<1>4. CASE StartEval(i, c)
  BY <1>4, <1>s DEF StartEval, map, MapSound
<1>5. CASE Settle(i, c)
  <2>1. state[i].execQueue # <<>> /\ state[i].pending > 0 /\ i \in channels
    BY <1>5, <1>p, ExecutorSettleable DEF Settle, Settleable, LinkResolves
  <2>2. Finished(state[i]) \in ChannelState
    BY <1>0, <2>1, FinishedType
  <2>3. open'[i] = {Finished(state[i]).session} \ {None}
    BY <1>0, <1>5, <1>s DEF Settle, MapSound, Finished, ChannelState
  <2>4. MaybeEvict(i, Finished(state[i]), ownership[i], ownerSeenAt[i])
    BY <1>5 DEF Settle
  <2> QED
    BY <1>0, <2>1, <2>2, <2>3, <2>4, EvictMap
<1> QED
  BY <1>1, <1>2, <1>3, <1>4, <1>5 DEF Proceed

LEMMA EnvironmentMap ==
    ASSUME TypeOK, MapsSound, NEW i \in Instance, Environment(i)
    PROVE  MapSound(i)'
<1>0. MapOK /\ OutboxOK /\ ExecOK /\ state[i] \in ChannelState
  BY TypeParts DEF MapOK
<1>s. MapSound(i)
  BY DEF MapsSound
<1>1. CASE Transmit(i) \/ Heartbeat(i) \/ LeaseLapses(i) \/ StrayTtlFires(i) \/ Boot(i)
  BY <1>1, <1>s DEF Transmit, Heartbeat, LeaseLapses, StrayTtlFires, Boot, map, exec, MapSound
<1>2. ASSUME NEW c \in Command, Dispatch(i, c) PROVE MapSound(i)'
  BY <1>2, <1>s DEF Dispatch, map, exec, MapSound
<1>3. ASSUME NEW s \in Command, WriteOutput(i, s) PROVE MapSound(i)'
  <2>1. state'[i].session = state[i].session /\ i \in channels' /\ open' = open
    BY <1>0, <1>3, EmitKeeps DEF WriteOutput, exec
  <2>2. state[i].session # None
    BY <1>3 DEF WriteOutput, OutputAccepted
  <2> QED
    BY <1>s, <2>1, <2>2 DEF MapSound, Collectable
<1>4. CASE TtlFires(i)
  <2>1. state'[i] = [state[i] EXCEPT !.ttlTimer = FALSE] /\ channels' = channels /\ open' = open
    BY <1>0, <1>4 DEF TtlFires, MapOK, exec
  <2>2. i \in channels
    BY <1>4, <1>s DEF TtlFires, MapSound, NewChannelState
  <2>3. /\ state'[i].session = state[i].session /\ state'[i].buffer = state[i].buffer
        /\ state'[i].pending = state[i].pending
        /\ state'[i].subscriberCount = state[i].subscriberCount
    BY <1>0, <2>1 DEF ChannelState
  <2> QED
    BY <1>s, <2>1, <2>2, <2>3 DEF MapSound, Collectable
<1>5. CASE OpenStream(i)
  <2>1. state'[i] = [state[i] EXCEPT !.subscriberCount = @ + 1] /\ i \in channels' /\ open' = open
    BY <1>0, <1>5, KeepEffect DEF OpenStream, exec
  <2>2. state'[i].session = state[i].session /\ state'[i].subscriberCount > 0
    BY <1>0, <2>1 DEF ChannelState
  <2> QED
    BY <1>s, <2>1, <2>2 DEF MapSound, Collectable
<1>6. CASE CloseStream(i)
  <2> DEFINE st == [state[i] EXCEPT !.subscriberCount = @ - 1]
  <2>1. st \in ChannelState
    BY <1>0, <1>6, UpdateType DEF CloseStream
  <2>2. open'[i] = {st.session} \ {None}
    BY <1>0, <1>6, <1>s DEF CloseStream, exec, MapSound, ChannelState
  <2>3. MaybeEvict(i, st, ownership[i], ownerSeenAt[i]) /\ i \in channels
    BY <1>6 DEF CloseStream
  <2> QED
    BY <1>0, <2>1, <2>2, <2>3, EvictMap
<1>7. CASE Crash(i)
  BY <1>0, <1>7 DEF Crash, MapOK, ExecOK, MapSound, NewChannelState
<1> QED
  BY <1>1, <1>2, <1>3, <1>4, <1>5, <1>6, <1>7 DEF Environment

LEMMA NextMaps == TypeOK /\ ExecutorOK /\ MapsSound /\ [Next]_vars => MapsSound'
<1> SUFFICES ASSUME TypeOK, ExecutorOK, MapsSound, [Next]_vars, NEW j \in Instance
             PROVE  MapSound(j)'
  BY DEF MapsSound
<1>1. CASE Same(j)
  BY <1>1 DEF Same, MapsSound, MapSound
<1>2. CASE UNCHANGED vars
  BY <1>2 DEF vars, map, exec, MapsSound, MapSound
<1>3. ASSUME NEW i \in Instance, Handle(i) \/ Environment(i)
      PROVE  MapSound(j)'
  BY <1>1, <1>3, HandleFrame, EnvironmentFrame, HandleMap, EnvironmentMap
<1>4. ASSUME NEW i \in Instance, NEW c \in Command, Proceed(i, c)
      PROVE  MapSound(j)'
  BY <1>1, <1>4, ProceedFrame, ProceedMap
<1> QED
  BY <1>2, <1>3, <1>4, NextCases

-----------------------------------------------------------------------------
(* Whose output is published under which command                           *)

\* The chunk m published by j is tagged with a command that ran in its session.
Tagged(j, m) == m.topic = "out" /\ m.event.type = "output" =>
                    /\ m.event.commandId \in Command /\ m.writer # None
                    /\ ranIn[j][m.event.commandId] = m.writer

\* The current command runs in the channel's session, and a command has no session
\* before it begins: so no later step changes the session of a chunk's command.
OutputSound(j) ==
    /\ state[j].session # None =>
           /\ state[j].currentCommandId \in Command
           /\ ranIn[j][state[j].currentCommandId] = state[j].session
    /\ \A c \in Command : phase[j][c] \in {"idle", "claiming", "queued"} => ranIn[j][c] = None
    /\ \A n \in 1..Len(outbox[j]) : Tagged(j, outbox[j][n])

OutputsSound == \A j \in Instance : OutputSound(j)

LEMMA InitOutputs == Init => OutputsSound
BY DEF Init, OutputsSound, OutputSound, NewChannelState

\* The steps that create no session and publish no chunk.
LEMMA OutputsQuiet ==
    ASSUME TypeOK, NEW i \in Instance, OutputSound(i),
           \/ state'[i].session = None
           \/ /\ state'[i].session = state[i].session
              /\ state'[i].currentCommandId = state[i].currentCommandId,
           ranIn'[i] = ranIn[i],
           \A c \in Command : phase'[i][c] \in {"idle", "claiming", "queued"} =>
                                  phase[i][c] \in {"idle", "claiming", "queued"},
           \/ outbox'[i] = outbox[i]
           \/ outbox[i] # <<>> /\ outbox'[i] = Tail(outbox[i])
           \/ \E m \in Message : Tagged(i, m) /\ outbox'[i] = Append(outbox[i], m)
    PROVE  OutputSound(i)'
<1>0. outbox[i] \in Seq(Message)
  BY TypeParts DEF OutboxOK
<1>1. \A m : Tagged(i, m) => Tagged(i, m)'
  BY DEF Tagged
<1>2. \A n \in 1..Len(outbox'[i]) : Tagged(i, outbox'[i][n])
  <2>1. CASE outbox'[i] = outbox[i]
    BY <2>1 DEF OutputSound
  <2>2. CASE outbox[i] # <<>> /\ outbox'[i] = Tail(outbox[i])
    <3>1. \A n \in 1..Len(outbox'[i]) : n + 1 \in 1..Len(outbox[i]) /\ outbox'[i][n] = outbox[i][n + 1]
      BY <1>0, <2>2
    <3> QED
      BY <3>1 DEF OutputSound
  <2>3. ASSUME NEW m \in Message, Tagged(i, m), outbox'[i] = Append(outbox[i], m)
        PROVE  \A n \in 1..Len(outbox'[i]) : Tagged(i, outbox'[i][n])
    <3>1. \A n \in 1..Len(outbox'[i]) :
              (n \in 1..Len(outbox[i]) /\ outbox'[i][n] = outbox[i][n]) \/ outbox'[i][n] = m
      BY <1>0, <2>3
    <3> QED
      BY <2>3, <3>1 DEF OutputSound
  <2> QED
    BY <2>1, <2>2, <2>3
<1> QED
  BY <1>1, <1>2 DEF OutputSound, Tagged

LEMMA HandleOutput ==
    ASSUME TypeOK, CommandsOnce, OutputsSound, NEW i \in Instance, Handle(i)
    PROVE  OutputSound(i)'
<1>0. MapOK /\ OutboxOK /\ ExecOK /\ state[i] \in ChannelState
  BY TypeParts DEF MapOK
<1>s. OutputSound(i)
  BY DEF OutputsSound
<1>1. CASE OnCmdIgnored(i) \/ OnSysClaim(i)
  BY <1>1, <1>s DEF OnCmdIgnored, OnSysClaim, map, exec, OutputSound, Tagged
<1>2. CASE OnCmdOwner(i)
  <2>1. state'[i] = Enqueued([state[i] EXCEPT !.pending = @ + 1], Head(inbox[i]).commandId)
    BY <1>0, <1>2, KeepEffect DEF OnCmdOwner
  <2>2. /\ state'[i].session = state[i].session
        /\ state'[i].currentCommandId = state[i].currentCommandId
    BY <1>0, <2>1 DEF Enqueued, ChannelState
  <2>3. Head(inbox[i]).commandId \in Command /\ phase[i][Head(inbox[i]).commandId] = "idle"
    BY <1>2, AcceptedIsNew DEF OnCmdOwner
  <2>4. \A c \in Command : phase'[i][c] \in {"idle", "claiming", "queued"} =>
                               phase[i][c] \in {"idle", "claiming", "queued"}
    BY <1>0, <1>2, <2>3 DEF OnCmdOwner, ExecOK
  <2> QED
    BY <1>2, <1>s, <2>2, <2>4, OutputsQuiet DEF OnCmdOwner
<1>3. CASE OnCmdClaim(i)
  <2> DEFINE d == Head(inbox[i]).commandId
  <2>1. state'[i] = [state[i] EXCEPT !.pending = @ + 1]
    BY <1>0, <1>3, KeepEffect DEF OnCmdClaim
  <2>2. /\ state'[i].session = state[i].session
        /\ state'[i].currentCommandId = state[i].currentCommandId
    BY <1>0, <2>1 DEF ChannelState
  <2>3. d \in Command /\ phase[i][d] = "idle"
    BY <1>3, AcceptedIsNew DEF OnCmdClaim
  <2>4. \A c \in Command : phase'[i][c] \in {"idle", "claiming", "queued"} =>
                               phase[i][c] \in {"idle", "claiming", "queued"}
    BY <1>0, <1>3, <2>3 DEF OnCmdClaim, ExecOK
  <2>5. Claim(i, d) \in Message
    BY <2>3, SysMessageType
  <2>6. Tagged(i, Claim(i, d))
    BY DEF Tagged, Claim
  <2>7. outbox'[i] = Append(outbox[i], Claim(i, d)) /\ ranIn' = ranIn
    BY <1>0, <1>3, PublishEffect DEF OnCmdClaim
  <2> QED
    BY <1>s, <2>2, <2>4, <2>5, <2>6, <2>7, OutputsQuiet
<1>4. CASE OnOut(i)
  <2> DEFINE event == Head(inbox[i]).event
             st == [state[i] EXCEPT !.nextId = IF event.id > @ THEN event.id ELSE @,
                                    !.buffer = Pushed(@)]
  <2>1. state'[i] = st
    BY <1>0, <1>4, KeepEffect DEF OnOut
  <2>2. /\ state'[i].session = state[i].session
        /\ state'[i].currentCommandId = state[i].currentCommandId
    BY <1>0, <2>1 DEF ChannelState
  <2> QED
    BY <1>4, <1>s, <2>2, OutputsQuiet DEF OnOut, exec
<1>5. CASE OnSysRelease(i)
  <2> DEFINE s  == state[i].session
             st == IF s = None THEN state[i]
                               ELSE [state[i] EXCEPT !.session = None, !.buffer = 0]
  <2>1. st.session = None
    BY <1>0 DEF ChannelState
  <2>2. state'[i].session = None \/ state' = state
    <3>1. CASE i \in channels
      <4>1. MaybeEvict(i, st, None, "none")
        BY <1>5, <3>1 DEF OnSysRelease
      <4>2. state'[i] = NewChannelState \/ state'[i] = st
        BY <1>0, <4>1, EvictEffect
      <4>3. NewChannelState.session = None
        BY DEF NewChannelState
      <4> HIDE DEF st
      <4> QED
        BY <2>1, <4>2, <4>3
    <3>2. CASE i \notin channels
      BY <1>5, <3>2 DEF OnSysRelease, map
    <3> QED
      BY <3>1, <3>2
  <2> QED
    BY <1>5, <1>s, <2>2, OutputsQuiet DEF OnSysRelease
<1> QED
  BY <1>1, <1>2, <1>3, <1>4, <1>5 DEF Handle

LEMMA ProceedOutput ==
    ASSUME TypeOK, OutputsSound, NEW i \in Instance, NEW c \in Command, Proceed(i, c)
    PROVE  OutputSound(i)'
<1>0. MapOK /\ OutboxOK /\ ExecOK /\ state[i] \in ChannelState /\ outbox[i] \in Seq(Message)
  BY TypeParts DEF MapOK, OutboxOK
<1>s. OutputSound(i)
  BY DEF OutputsSound
<1>ph. \A d \in Command : phase'[i][d] \in {"idle", "claiming", "queued"} =>
                              phase[i][d] \in {"idle", "claiming", "queued"}
  BY <1>0 DEF Proceed, Claimed, BeginExecute, FailExecute, StartEval, EvalSettles, Settle,
              Moves, LinkResolves, ExecOK
<1>1. CASE Claimed(i, c)
  <2>1. state'[i] = Enqueued(state[i], c)
    BY <1>0, <1>1, KeepEffect DEF Claimed
  <2>2. /\ state'[i].session = state[i].session
        /\ state'[i].currentCommandId = state[i].currentCommandId
    BY <1>0, <2>1 DEF Enqueued, ChannelState
  <2> QED
    BY <1>1, <1>ph, <1>s, <2>2, OutputsQuiet DEF Claimed
<1>2. CASE BeginExecute(i, c)
  <2> DEFINE s  == IF state[i].session = None THEN c ELSE state[i].session
             st == [state[i] EXCEPT !.session = s, !.currentCommandId = c]
             m  == [topic |-> "out", writer |-> None, awaited |-> c,
                    event |-> [id |-> st.nextId + 1, type |-> "command", commandId |-> c]]
  <2>1. s \in Command
    BY <1>0 DEF ChannelState
  <2>2. st \in ChannelState /\ st.session = s /\ st.currentCommandId = c
    BY <1>0, <2>1, SessionUpdateType DEF ChannelState
  <2>3. Emit(i, st, "command", c, None, c)
    BY <1>2 DEF BeginExecute
  <2>4. state'[i].session = s /\ state'[i].currentCommandId = c
    BY <1>0, <2>2, <2>3, EmitKeeps
  <2>5. \A d \in Command : ranIn'[i][d] = IF d = c THEN s ELSE ranIn[i][d]
    BY <1>0, <1>2 DEF BeginExecute, ExecOK
  <2>6. phase[i][c] = "queued" /\ phase'[i][c] = "echoing"
    BY <1>0, <1>2 DEF BeginExecute, Moves, ExecOK
  <2>7. ranIn[i][c] = None
    BY <1>s, <2>6 DEF OutputSound
  <2>8. outbox'[i] = Append(outbox[i], m)
    <3>1. Publish(i, m)
      BY <2>3 DEF Emit
    <3> HIDE DEF m
    <3> QED
      BY <1>0, <3>1, PublishEffect
  <2>9. Len(outbox'[i]) = Len(outbox[i]) + 1
         /\ \A n \in 1..Len(outbox'[i]) :
              (n \in 1..Len(outbox[i]) /\ outbox'[i][n] = outbox[i][n]) \/ outbox'[i][n] = m
    <3> HIDE DEF m
    <3> QED
      BY <1>0, <2>8
  <2>10. (\A n \in 1..Len(outbox[i]) : Tagged(i, outbox[i][n]))'
    <3> SUFFICES ASSUME NEW n \in 1..Len(outbox'[i]) PROVE Tagged(i, outbox[i][n])'
      OBVIOUS
    <3>1. CASE n \in 1..Len(outbox[i]) /\ outbox'[i][n] = outbox[i][n]
      <4>1. Tagged(i, outbox[i][n])
        BY <1>s, <3>1 DEF OutputSound
      <4> QED
        BY <2>5, <2>7, <3>1, <4>1 DEF Tagged
    <3>2. CASE outbox'[i][n] = m
      BY <3>2 DEF Tagged
    <3> HIDE DEF m
    <3> QED
      BY <2>9, <3>1, <3>2
  <2>11. \A d \in Command : phase'[i][d] \in {"idle", "claiming", "queued"} => ranIn'[i][d] = None
    BY <1>ph, <1>s, <2>5, <2>6 DEF OutputSound
  <2> QED
    BY <2>1, <2>4, <2>5, <2>10, <2>11 DEF OutputSound
<1>3. CASE FailExecute(i, c) \/ EvalSettles(i, c)
  <2> DEFINE m(t) == [topic |-> "out", writer |-> None, awaited |-> c,
                      event |-> [id |-> state[i].nextId + 1, type |-> t, commandId |-> c]]
  <2>1. /\ state'[i].session = state[i].session
        /\ state'[i].currentCommandId = state[i].currentCommandId
    BY <1>0, <1>3, EmitKeeps DEF FailExecute, EvalSettles
  <2>2. ranIn' = ranIn
    BY <1>3 DEF FailExecute, EvalSettles
  <2>3. outbox'[i] = Append(outbox[i], m("error")) \/ outbox'[i] = Append(outbox[i], m("done"))
    <3>1. Publish(i, m("error")) \/ Publish(i, m("done"))
      BY <1>3 DEF FailExecute, EvalSettles, Emit
    <3> HIDE DEF m
    <3> QED
      BY <1>0, <3>1, PublishEffect
  <2>4. /\ m("error") \in Message /\ m("done") \in Message
        /\ Tagged(i, m("error")) /\ Tagged(i, m("done"))
    BY <1>0 DEF Message, OutMessage, Event, EventType, ChannelState, Tagged
  <2> HIDE DEF m
  <2> QED
    BY <1>ph, <1>s, <2>1, <2>2, <2>3, <2>4, OutputsQuiet
<1>4. CASE StartEval(i, c)
  BY <1>4, <1>ph, <1>s, OutputsQuiet DEF StartEval, map
<1>5. CASE Settle(i, c)
  <2>1. \/ state'[i].session = None
        \/ /\ state'[i].session = state[i].session
           /\ state'[i].currentCommandId = state[i].currentCommandId
    <3>1. MaybeEvict(i, Finished(state[i]), ownership[i], ownerSeenAt[i])
      BY <1>5 DEF Settle
    <3>2. state'[i] = NewChannelState \/ state'[i] = Finished(state[i])
      BY <1>0, <3>1, EvictEffect
    <3>3. /\ Finished(state[i]).session = state[i].session
          /\ Finished(state[i]).currentCommandId = state[i].currentCommandId
      BY <1>0 DEF Finished, ChannelState
    <3> QED
      BY <3>2, <3>3 DEF NewChannelState
  <2> QED
    BY <1>5, <1>ph, <1>s, <2>1, OutputsQuiet DEF Settle
<1> QED
  BY <1>1, <1>2, <1>3, <1>4, <1>5 DEF Proceed

LEMMA EnvironmentOutput ==
    ASSUME TypeOK, OutputsSound, NEW i \in Instance, Environment(i)
    PROVE  OutputSound(i)'
<1>0. MapOK /\ OutboxOK /\ ExecOK /\ state[i] \in ChannelState
  BY TypeParts DEF MapOK
<1>s. OutputSound(i)
  BY DEF OutputsSound
<1>1. CASE LeaseLapses(i) \/ Boot(i)
  BY <1>1, <1>s DEF LeaseLapses, Boot, map, exec, OutputSound, Tagged
<1>2. CASE Transmit(i)
  <2>1. outbox[i] # <<>> /\ outbox'[i] = Tail(outbox[i])
    BY <1>0, <1>2 DEF Transmit, OutboxOK
  <2> QED
    BY <1>2, <1>s, <2>1, OutputsQuiet DEF Transmit, map, exec
<1>3. ASSUME NEW c \in Command, Dispatch(i, c) PROVE OutputSound(i)'
  <2> DEFINE m == [topic |-> "cmd", commandId |-> c, originInstanceId |-> i, awaited |-> None]
  <2>1. m \in Message /\ Tagged(i, m)
    BY DEF Message, CmdMessage, Tagged
  <2>2. outbox'[i] = Append(outbox[i], m)
    BY <1>0, <1>3, PublishEffect DEF Dispatch
  <2> HIDE DEF m
  <2> QED
    BY <1>3, <1>s, <2>1, <2>2, OutputsQuiet DEF Dispatch, map, exec
<1>4. ASSUME NEW s \in Command, WriteOutput(i, s) PROVE OutputSound(i)'
  <2> DEFINE c == state[i].currentCommandId
             m == [topic |-> "out", writer |-> s, awaited |-> None,
                   event |-> [id |-> state[i].nextId + 1, type |-> "output", commandId |-> c]]
  <2>1. Emit(i, state[i], "output", c, s, None)
    BY <1>4 DEF WriteOutput
  <2>2. c \in Command /\ ranIn[i][c] = s
    BY <1>4, <1>s DEF WriteOutput, OutputAccepted, OutputSound
  <2>3. m \in Message /\ Tagged(i, m)
    BY <1>0, <2>2 DEF Message, OutMessage, Event, EventType, ChannelState, Tagged
  <2>4. outbox'[i] = Append(outbox[i], m)
    <3>1. Publish(i, m)
      BY <2>1 DEF Emit
    <3> HIDE DEF m
    <3> QED
      BY <1>0, <3>1, PublishEffect
  <2>5. /\ state'[i].session = state[i].session
        /\ state'[i].currentCommandId = state[i].currentCommandId
    BY <1>0, <2>1, EmitKeeps
  <2> HIDE DEF m
  <2> QED
    BY <1>4, <1>s, <2>3, <2>4, <2>5, OutputsQuiet DEF WriteOutput, exec
<1>5. CASE Heartbeat(i) \/ TtlFires(i) \/ StrayTtlFires(i)
  <2>1. Claim(i, None) \in Message /\ Release(i) \in Message
    BY SysMessageType
  <2>2. Tagged(i, Claim(i, None)) /\ Tagged(i, Release(i))
    BY DEF Tagged, Claim, Release
  <2>3. outbox'[i] = Append(outbox[i], Claim(i, None)) \/ outbox'[i] = Append(outbox[i], Release(i))
    BY <1>0, <1>5, PublishEffect DEF Heartbeat, TtlFires, StrayTtlFires
  <2>4. /\ state'[i].session = state[i].session
        /\ state'[i].currentCommandId = state[i].currentCommandId
    BY <1>0, <1>5 DEF Heartbeat, TtlFires, StrayTtlFires, map, MapOK, ChannelState
  <2>5. ranIn' = ranIn /\ phase' = phase
    BY <1>5 DEF Heartbeat, TtlFires, StrayTtlFires, exec
  <2> QED
    BY <1>s, <2>1, <2>2, <2>3, <2>4, <2>5, OutputsQuiet
<1>6. CASE OpenStream(i)
  <2>1. state'[i] = [state[i] EXCEPT !.subscriberCount = @ + 1]
    BY <1>0, <1>6, KeepEffect DEF OpenStream
  <2>2. /\ state'[i].session = state[i].session
        /\ state'[i].currentCommandId = state[i].currentCommandId
    BY <1>0, <2>1 DEF ChannelState
  <2> QED
    BY <1>6, <1>s, <2>2, OutputsQuiet DEF OpenStream, exec
<1>7. CASE CloseStream(i)
  <2> DEFINE st == [state[i] EXCEPT !.subscriberCount = @ - 1]
  <2>1. MaybeEvict(i, st, ownership[i], ownerSeenAt[i])
    BY <1>7 DEF CloseStream
  <2>2. state'[i] = NewChannelState \/ state'[i] = st
    BY <1>0, <2>1, EvictEffect
  <2>3. \/ state'[i].session = None
        \/ /\ state'[i].session = state[i].session
           /\ state'[i].currentCommandId = state[i].currentCommandId
    BY <1>0, <2>2 DEF NewChannelState, ChannelState
  <2> QED
    BY <1>7, <1>s, <2>3, OutputsQuiet DEF CloseStream, exec
<1>8. CASE Crash(i)
  BY <1>0, <1>8 DEF Crash, MapOK, ExecOK, OutboxOK, OutputSound, NewChannelState
<1> QED
  BY <1>1, <1>2, <1>3, <1>4, <1>5, <1>6, <1>7, <1>8 DEF Environment

LEMMA NextOutputs == TypeOK /\ CommandsOnce /\ OutputsSound /\ [Next]_vars => OutputsSound'
<1> SUFFICES ASSUME TypeOK, CommandsOnce, OutputsSound, [Next]_vars, NEW j \in Instance
             PROVE  OutputSound(j)'
  BY DEF OutputsSound
<1>1. CASE Same(j)
  BY <1>1 DEF Same, OutputsSound, OutputSound, Tagged
<1>2. CASE UNCHANGED vars
  BY <1>2 DEF vars, map, exec, OutputsSound, OutputSound, Tagged
<1>3. ASSUME NEW i \in Instance, Handle(i) \/ Environment(i)
      PROVE  OutputSound(j)'
  BY <1>1, <1>3, HandleFrame, EnvironmentFrame, HandleOutput, EnvironmentOutput
<1>4. ASSUME NEW i \in Instance, NEW c \in Command, Proceed(i, c)
      PROVE  OutputSound(j)'
  BY <1>1, <1>4, ProceedFrame, ProceedOutput
<1> QED
  BY <1>2, <1>3, <1>4, NextCases

-----------------------------------------------------------------------------
(* The theorems                                                            *)

\* The inductive invariant.  The types rest on the executors (Settle() takes from
\* `pending` and the queue), the executors on the commands being new when they are
\* accepted, the map on the count of the executors.
IInv == TypeOK /\ CommandsOnce /\ ExecutorOK /\ MapsSound /\ OutputsSound

\* Every state of the fleet satisfies the inductive invariant.
THEOREM Invariance == Spec => []IInv
<1>1. Init => IInv
  BY InitTypeOK, InitCommandsOnce, InitExecutor, InitMaps, InitOutputs DEF IInv
<1>2. IInv /\ [Next]_vars => IInv'
  <2> SUFFICES ASSUME IInv, [Next]_vars PROVE IInv'
    OBVIOUS
  <2>1. TypeOK /\ CommandsOnce /\ ExecutorOK /\ MapsSound /\ OutputsSound
    BY DEF IInv
  <2>2. TypeOK'
    BY <2>1, ExecutorSettleable, NextTypeOK
  <2>3. CommandsOnce' /\ ExecutorOK' /\ MapsSound' /\ OutputsSound'
    BY <2>1, NextCommandsOnce, NextExecutor, NextMaps, NextOutputs
  <2> QED
    BY <2>2, <2>3 DEF IInv
<1> QED
  BY <1>1, <1>2, PTL DEF Spec

\* Every variable keeps the shape the code gives it: `pending` and the subscriber
\* count never go below zero, and the queue holds commands (48-73).
THEOREM TypeCorrect == Spec => []TypeOK
<1>1. IInv => TypeOK
  BY DEF IInv
<1> QED
  BY <1>1, Invariance, PTL

\* maybeEvict() reads in `pending` exactly the commands whose handler still awaits,
\* whatever the interleaving of the handlers with releases and crashes (516-541).
THEOREM PendingIsExact == Spec => []PendingCountsInFlight
<1>1. IInv => PendingCountsInFlight
  BY DEF IInv, ExecutorOK, Executor, Counts, Accepted, PendingCountsInFlight, InFlight
<1> QED
  BY <1>1, Invariance, PTL

\* One command at a time is between its echo and the end of its unit on the channel
\* of an instance, for any number of commands and whatever fails (380-399).
THEOREM ExecutionIsSerial == Spec => []SerialExecution
<1>1. IInv => SerialExecution
  <2> SUFFICES ASSUME IInv, NEW i \in Instance, NEW c \in Command, phase[i][c] \in Executing
               PROVE  state[i].execQueue # <<>> /\ Head(state[i].execQueue) = c
    BY DEF SerialExecution, Executing
  <2>1. phase[i] \in [Command -> Phase] /\ state[i].execQueue \in Seq(Command)
    BY DEF IInv, TypeOK, ChannelState
  <2>2. Queues(phase[i], state[i].execQueue)
    BY DEF IInv, ExecutorOK, Executor
  <2> QED
    BY <2>1, <2>2, HeadExecutes
<1> QED
  BY <1>1, Invariance, PTL

\* No REPL server outlives its channel state and none is created beside another,
\* through releases, evictions, takeovers and failed factories (444-462, 483-498).
THEOREM NoSessionLeaks == Spec => []SessionsAccountedFor
<1>1. IInv => SessionsAccountedFor
  BY DEF IInv, MapsSound, MapSound, SessionsAccountedFor
<1> QED
  BY <1>1, Invariance, PTL

\* The channels map never keeps a state that nothing needs (500-541).
THEOREM NoStateLingers == Spec => []NoIdleChannelState
<1>1. IInv => NoIdleChannelState
  <2> SUFFICES ASSUME IInv, ReplayBufferSize > 0, NEW i \in channels
               PROVE  \/ state[i].pending > 0 \/ state[i].subscriberCount > 0
                      \/ state[i].session # None \/ state[i].buffer > 0
    BY DEF NoIdleChannelState
  <2>1. i \in Instance /\ state[i] \in ChannelState
    BY DEF IInv, TypeOK
  <2>2. ~Collectable(state[i])
    BY <2>1 DEF IInv, MapsSound, MapSound
  <2> QED
    BY <2>1, <2>2 DEF Collectable, ChannelState
<1> QED
  BY <1>1, Invariance, PTL

\* Output is never published under a command of another session, although the tag
\* is read from the channel's state when the chunk is emitted (448-458).
THEOREM OutputIsTagged == Spec => []OutputBelongsToItsSession
<1>1. IInv => OutputBelongsToItsSession
  <2> SUFFICES ASSUME IInv, NEW i \in Instance, NEW n \in 1..Len(outbox[i]),
                      outbox[i][n].topic = "out", outbox[i][n].event.type = "output"
               PROVE  /\ outbox[i][n].event.commandId # None
                      /\ ranIn[i][outbox[i][n].event.commandId] = outbox[i][n].writer
    BY DEF OutputBelongsToItsSession
  <2>1. Tagged(i, outbox[i][n])
    BY DEF IInv, OutputsSound, OutputSound
  <2> QED
    BY <2>1 DEF Tagged
<1> QED
  BY <1>1, Invariance, PTL

-----------------------------------------------------------------------------
(* The execQueue as a SerialQueue                                          *)

\* The view of an instance, from its phases and its chain.
Runs(ph, q)      == q # <<>> /\ ph[Head(q)] \notin {"idle", "claiming", "queued"}
WaitingOf(ph, q) == IF Runs(ph, q) THEN Tail(q) ELSE q
RunningOf(ph, q) == IF Runs(ph, q) THEN Head(q) ELSE None
OverOf(ph)       == {c \in Command : ph[c] = "settled"}

LEMMA ViewIs ==
    \A i \in Instance : /\ Waiting(i) = WaitingOf(phase[i], state[i].execQueue)
                        /\ Running(i) = RunningOf(phase[i], state[i].execQueue)
                        /\ Over(i) = OverOf(phase[i])
BY DEF Waiting, Running, Over, HeadRuns, Chain, Begun, WaitingOf, RunningOf, OverOf, Runs

LEMMA ViewIsPrimed ==
    \A i \in Instance : /\ Waiting(i)' = WaitingOf(phase'[i], state'[i].execQueue)
                        /\ Running(i)' = RunningOf(phase'[i], state'[i].execQueue)
                        /\ Over(i)' = OverOf(phase'[i])
BY DEF Waiting, Running, Over, HeadRuns, Chain, Begun, WaitingOf, RunningOf, OverOf, Runs

-----------------------------------------------------------------------------
(* What a step of the phases and the chain is in the view                  *)

LEMMA SubmitView ==
    ASSUME NEW ph \in [Command -> Phase], NEW q \in Seq(Command), NEW c \in Command,
           Queues(ph, q), ph[c] \in {"idle", "claiming"},
           NEW ph2, ph2 = [ph EXCEPT ![c] = "queued"]
    PROVE  /\ WaitingOf(ph2, Append(q, c)) = Append(WaitingOf(ph, q), c)
           /\ RunningOf(ph2, Append(q, c)) = RunningOf(ph, q)
           /\ OverOf(ph2) = OverOf(ph)
           /\ c # RunningOf(ph, q) /\ c \notin OverOf(ph)
           /\ \A n \in DOMAIN WaitingOf(ph, q) : WaitingOf(ph, q)[n] # c
<1>0. \A d \in Command : ph2[d] = IF d = c THEN "queued" ELSE ph[d]
  OBVIOUS
<1>1. \A n \in 1..Len(q) : q[n] \in Command /\ q[n] # c
  BY DEF Queues, Executing
<1>2. OverOf(ph2) = OverOf(ph) /\ c \notin OverOf(ph)
  BY <1>0 DEF OverOf
<1>3. CASE q = <<>>
  <2>1. Append(q, c) # <<>> /\ Head(Append(q, c)) = c
    BY <1>3
  <2>2. ~Runs(ph2, Append(q, c)) /\ ~Runs(ph, q)
    BY <1>0, <1>3, <2>1 DEF Runs
  <2>3. WaitingOf(ph2, Append(q, c)) = Append(q, c) /\ WaitingOf(ph, q) = q
    BY <2>2 DEF WaitingOf
  <2>4. RunningOf(ph2, Append(q, c)) = None /\ RunningOf(ph, q) = None
    BY <2>2 DEF RunningOf
  <2> QED
    <3>1. \A n \in DOMAIN q : FALSE
      BY <1>3
    <3>2. WaitingOf(ph2, Append(q, c)) = Append(WaitingOf(ph, q), c)
      BY <2>3
    <3>3. RunningOf(ph2, Append(q, c)) = RunningOf(ph, q) /\ c # RunningOf(ph, q)
      BY <2>4, CommandAssumption
    <3> QED
      BY <1>2, <2>3, <3>1, <3>2, <3>3
<1>4. CASE q # <<>>
  <2>1. /\ Append(q, c) # <<>> /\ Head(Append(q, c)) = Head(q)
        /\ Tail(Append(q, c)) = Append(Tail(q), c)
        /\ Head(q) \in Command /\ Head(q) # c
        /\ Tail(q) \in Seq(Command) /\ \A n \in 1..Len(Tail(q)) : Tail(q)[n] # c
    <3>1. Len(q) \in Nat /\ Len(q) > 0 /\ 1 \in 1..Len(q) /\ Head(q) = q[1]
      BY <1>4
    <3>2. Tail(q) \in Seq(Command) /\ Len(Tail(q)) = Len(q) - 1
      BY <1>4
    <3>3. \A n \in 1..Len(Tail(q)) : n + 1 \in 1..Len(q) /\ Tail(q)[n] = q[n + 1]
      BY <1>4
    <3>4. Append(q, c) # <<>> /\ Head(Append(q, c)) = Head(q)
      BY <1>4
    <3>5. Tail(Append(q, c)) = Append(Tail(q), c)
      BY <1>4
    <3> QED
      BY <1>1, <3>1, <3>2, <3>3, <3>4, <3>5
  <2>2. Runs(ph2, Append(q, c)) = Runs(ph, q)
    BY <1>0, <1>4, <2>1 DEF Runs
  <2>3. WaitingOf(ph2, Append(q, c)) = Append(WaitingOf(ph, q), c)
    BY <2>1, <2>2 DEF WaitingOf
  <2>4. RunningOf(ph2, Append(q, c)) = RunningOf(ph, q) /\ RunningOf(ph, q) # c
    BY <2>1, <2>2, CommandAssumption DEF RunningOf
  <2>5. \A n \in DOMAIN WaitingOf(ph, q) : WaitingOf(ph, q)[n] # c
    <3>1. DOMAIN q = 1..Len(q) /\ DOMAIN Tail(q) = 1..Len(Tail(q))
      BY <2>1
    <3> QED
      BY <1>1, <2>1, <3>1 DEF WaitingOf
  <2> QED
    BY <1>2, <2>3, <2>4, <2>5
<1> QED
  BY <1>3, <1>4

LEMMA ClaimView ==
    ASSUME NEW ph \in [Command -> Phase], NEW q \in Seq(Command), NEW c \in Command,
           Queues(ph, q), ph[c] = "idle",
           NEW ph2, ph2 = [ph EXCEPT ![c] = "claiming"]
    PROVE  /\ WaitingOf(ph2, q) = WaitingOf(ph, q) /\ RunningOf(ph2, q) = RunningOf(ph, q)
           /\ OverOf(ph2) = OverOf(ph)
<1>1. q # <<>> => Head(q) \in Command /\ Head(q) # c
  BY DEF Queues, Executing
<1>2. \A d \in Command : ph2[d] = IF d = c THEN "claiming" ELSE ph[d]
  OBVIOUS
<1>3. Runs(ph2, q) = Runs(ph, q) /\ OverOf(ph2) = OverOf(ph)
  BY <1>1, <1>2 DEF Runs, OverOf
<1> QED
  BY <1>3 DEF WaitingOf, RunningOf

LEMMA StartView ==
    ASSUME NEW ph \in [Command -> Phase], NEW q \in Seq(Command), NEW c \in Command,
           q # <<>>, Head(q) = c, ph[c] = "queued", NEW to \in Executing,
           NEW ph2, ph2 = [ph EXCEPT ![c] = to]
    PROVE  /\ WaitingOf(ph, q) = q /\ RunningOf(ph, q) = None
           /\ WaitingOf(ph2, q) = Tail(q) /\ RunningOf(ph2, q) = Head(q)
           /\ OverOf(ph2) = OverOf(ph)
<1>1. \A d \in Command : ph2[d] = IF d = c THEN to ELSE ph[d]
  OBVIOUS
<1>2. ~Runs(ph, q) /\ Runs(ph2, q) /\ OverOf(ph2) = OverOf(ph)
  BY <1>1 DEF Runs, OverOf, Executing
<1> QED
  BY <1>2 DEF WaitingOf, RunningOf

LEMMA AdvanceView ==
    ASSUME NEW ph \in [Command -> Phase], NEW q \in Seq(Command), NEW c \in Command,
           ph[c] \in Executing, NEW to \in Executing,
           NEW ph2, ph2 = [ph EXCEPT ![c] = to]
    PROVE  /\ WaitingOf(ph2, q) = WaitingOf(ph, q) /\ RunningOf(ph2, q) = RunningOf(ph, q)
           /\ OverOf(ph2) = OverOf(ph)
<1>1. \A d \in Command : ph2[d] = IF d = c THEN to ELSE ph[d]
  OBVIOUS
<1>2. q # <<>> => Head(q) \in Command
  OBVIOUS
<1>3. Runs(ph2, q) = Runs(ph, q) /\ OverOf(ph2) = OverOf(ph)
  BY <1>1, <1>2 DEF Runs, OverOf, Executing
<1> QED
  BY <1>3 DEF WaitingOf, RunningOf

LEMMA FinishView ==
    ASSUME NEW ph \in [Command -> Phase], NEW q \in Seq(Command), NEW c \in Command,
           Queues(ph, q), ph[c] \in Executing,
           NEW ph2, ph2 = [ph EXCEPT ![c] = "settled"]
    PROVE  /\ RunningOf(ph, q) = c /\ WaitingOf(ph, q) = Tail(q)
           /\ RunningOf(ph2, Tail(q)) = None /\ WaitingOf(ph2, Tail(q)) = Tail(q)
           /\ OverOf(ph2) = OverOf(ph) \cup {c}
<1>1. q # <<>> /\ Head(q) = c
  BY HeadExecutes
<1>2. Runs(ph, q)
  BY <1>1 DEF Runs, Executing
<1>3. \A d \in Command : ph2[d] = IF d = c THEN "settled" ELSE ph[d]
  BY DEF Phase
<1>4. OverOf(ph2) = OverOf(ph) \cup {c}
  BY <1>3 DEF OverOf
<1>5. Queues(ph2, Tail(q))
  BY <1>1, FinishQueues
<1>6. Tail(q) # <<>> => /\ Head(Tail(q)) = Tail(q)[1] /\ 1 \in 1..Len(Tail(q))
                        /\ Head(Tail(q)) = q[2] /\ 2 \in 1..Len(q)
  BY <1>1
<1>7. Tail(q) # <<>> => ph[q[2]] = "queued" /\ q[2] # c /\ q[2] \in Command
  <2>1. 1 \in 1..Len(q) /\ q[1] = c
    BY <1>1
  <2> QED
    BY <1>6, <2>1 DEF Queues
<1>8. ~Runs(ph2, Tail(q))
  BY <1>3, <1>6, <1>7 DEF Runs
<1> QED
  BY <1>1, <1>2, <1>4, <1>8 DEF WaitingOf, RunningOf

-----------------------------------------------------------------------------
(* What a step of an instance does to its own worker                       *)

Stays(i) == Waiting(i)' = Waiting(i) /\ Running(i)' = Running(i) /\ Over(i)' = Over(i)

Submits(i, c) ==
    /\ c # Running(i) /\ c \notin Over(i)
    /\ \A n \in DOMAIN Waiting(i) : Waiting(i)[n] # c
    /\ Waiting(i)' = Append(Waiting(i), c)
    /\ Running(i)' = Running(i) /\ Over(i)' = Over(i)

Starts(i) ==
    /\ Running(i) = None /\ Waiting(i) # <<>>
    /\ Running(i)' = Head(Waiting(i)) /\ Waiting(i)' = Tail(Waiting(i))
    /\ Over(i)' = Over(i)

Finishes(i) ==
    /\ Running(i) # None
    /\ Over(i)' = Over(i) \cup {Running(i)}
    /\ Running(i)' = None
    /\ Waiting(i)' = Waiting(i)

Dies(i) == Waiting(i)' = <<>> /\ Running(i)' = None /\ Over(i)' = Over(i)

Works(i) == \/ Stays(i) \/ Starts(i) \/ Finishes(i) \/ Dies(i)
            \/ \E c \in Command : Submits(i, c)

\* A step that leaves the phases and the chain alone.
LEMMA QuietStays ==
    ASSUME NEW i \in Instance, phase'[i] = phase[i],
           state'[i].execQueue = state[i].execQueue
    PROVE  Stays(i)
BY ViewIs, ViewIsPrimed DEF Stays

\* Only a state whose queue is empty is evicted.
LEMMA EvictChain ==
    ASSUME MapOK, NEW i \in Instance, NEW ph \in [Command -> Phase], NEW st \in ChannelState,
           NEW owner, NEW seenAt, MaybeEvict(i, st, owner, seenAt), Executor(ph, st)
    PROVE  state'[i].execQueue = st.execQueue
<1>1. CASE Evictable(st)
  <2>1. st.execQueue \in Seq(Command) /\ st.pending = 0
    BY <1>1 DEF ChannelState, Evictable
  <2>2. st.execQueue = <<>>
    BY <2>1, NothingPending DEF Executor
  <2> QED
    BY <1>1, <2>2, EvictEffect DEF NewChannelState
<1>2. CASE ~Evictable(st)
  BY <1>2, EvictEffect
<1> QED
  BY <1>1, <1>2

LEMMA HandleWorks ==
    ASSUME TypeOK, CommandsOnce, ExecutorOK, NEW i \in Instance, Handle(i)
    PROVE  Works(i)
<1>0. MapOK /\ ExecOK /\ state[i] \in ChannelState /\ phase[i] \in [Command -> Phase]
  BY TypeParts DEF MapOK, ExecOK
<1>q. state[i].execQueue \in Seq(Command)
  BY <1>0 DEF ChannelState
<1>e. Executor(phase[i], state[i]) /\ Queues(phase[i], state[i].execQueue)
  BY DEF ExecutorOK, Executor
<1> DEFINE c == Head(inbox[i]).commandId
<1>1. CASE OnCmdIgnored(i) \/ OnSysClaim(i)
  BY <1>1, QuietStays DEF OnCmdIgnored, OnSysClaim, map, exec, Works
<1>2. CASE OnCmdOwner(i)
  <2>1. c \in Command /\ phase[i][c] = "idle"
    BY <1>2, AcceptedIsNew DEF OnCmdOwner
  <2>2. phase'[i] = [phase[i] EXCEPT ![c] = "queued"]
    BY <1>0, <1>2 DEF OnCmdOwner, ExecOK
  <2>3. state'[i] = Enqueued([state[i] EXCEPT !.pending = @ + 1], c)
    BY <1>0, <1>2, KeepEffect DEF OnCmdOwner
  <2>4. state'[i].execQueue = Append(state[i].execQueue, c)
    BY <1>0, <2>3 DEF Enqueued, ChannelState
  <2> HIDE DEF c
  <2>5. Submits(i, c)
    <3> DEFINE ph == phase[i]
               q == state[i].execQueue
    <3>1. /\ WaitingOf(phase'[i], Append(q, c)) = Append(WaitingOf(ph, q), c)
          /\ RunningOf(phase'[i], Append(q, c)) = RunningOf(ph, q)
          /\ OverOf(phase'[i]) = OverOf(ph)
          /\ c # RunningOf(ph, q) /\ c \notin OverOf(ph)
          /\ \A n \in DOMAIN WaitingOf(ph, q) : WaitingOf(ph, q)[n] # c
      <4> HIDE DEF ph, q
      <4> QED
        BY SubmitView, <1>0, <1>q, <1>e, <2>1, <2>2 DEF ph, q
    <3> QED
      BY <2>4, <3>1, ViewIs, ViewIsPrimed DEF Submits
  <2> QED
    BY <2>1, <2>5 DEF Works
<1>3. CASE OnCmdClaim(i)
  <2>1. c \in Command /\ phase[i][c] = "idle"
    BY <1>3, AcceptedIsNew DEF OnCmdClaim
  <2>2. phase'[i] = [phase[i] EXCEPT ![c] = "claiming"]
    BY <1>0, <1>3 DEF OnCmdClaim, ExecOK
  <2>3. state'[i] = [state[i] EXCEPT !.pending = @ + 1]
    BY <1>0, <1>3, KeepEffect DEF OnCmdClaim
  <2>4. state'[i].execQueue = state[i].execQueue
    BY <1>0, <2>3 DEF ChannelState
  <2> HIDE DEF c
  <2>5. Stays(i)
    BY <1>0, <1>q, <1>e, <2>1, <2>2, <2>4, ClaimView, ViewIs, ViewIsPrimed DEF Stays
  <2> QED
    BY <2>5 DEF Works
<1>4. CASE OnOut(i)
  <2> DEFINE event == Head(inbox[i]).event
             st == [state[i] EXCEPT !.nextId = IF event.id > @ THEN event.id ELSE @,
                                    !.buffer = Pushed(@)]
  <2>1. state'[i] = st
    BY <1>0, <1>4, KeepEffect DEF OnOut
  <2>2. state'[i].execQueue = state[i].execQueue
    BY <1>0, <2>1 DEF ChannelState
  <2> QED
    BY <1>4, <2>2, QuietStays DEF OnOut, exec, Works
<1>5. CASE OnSysRelease(i)
  <2> DEFINE s  == state[i].session
             st == IF s = None THEN state[i]
                               ELSE [state[i] EXCEPT !.session = None, !.buffer = 0]
  <2>1. st \in ChannelState /\ st.execQueue = state[i].execQueue /\ st.pending = state[i].pending
    BY <1>0 DEF ChannelState
  <2>2. Executor(phase[i], st)
    BY <1>e, <2>1 DEF Executor
  <2>3. phase'[i] = phase[i]
    BY <1>5 DEF OnSysRelease
  <2>4. state'[i].execQueue = state[i].execQueue
    <3>1. CASE i \in channels
      <4>1. MaybeEvict(i, st, None, "none")
        BY <1>5, <3>1 DEF OnSysRelease
      <4> QED
        BY <1>0, <2>1, <2>2, <4>1, EvictChain
    <3>2. CASE i \notin channels
      BY <1>5, <3>2 DEF OnSysRelease, map
    <3> QED
      BY <3>1, <3>2
  <2> QED
    BY <2>3, <2>4, QuietStays DEF Works
<1> QED
  BY <1>1, <1>2, <1>3, <1>4, <1>5 DEF Handle

LEMMA ProceedWorks ==
    ASSUME TypeOK, ExecutorOK, NEW i \in Instance, NEW c \in Command, Proceed(i, c)
    PROVE  Works(i)
<1>0. /\ MapOK /\ OutboxOK /\ ExecOK
      /\ state[i] \in ChannelState /\ phase[i] \in [Command -> Phase]
  BY TypeParts DEF MapOK, ExecOK
<1>q. state[i].execQueue \in Seq(Command) /\ state[i].pending \in Nat
  BY <1>0 DEF ChannelState
<1>e. Queues(phase[i], state[i].execQueue) /\ Counts(phase[i], state[i].pending)
  BY DEF ExecutorOK, Executor
\* The first step of a unit starts it.
<1>s. ASSUME MayBegin(i, c), phase[i][c] = "queued", NEW to \in Executing,
             phase' = [phase EXCEPT ![i][c] = to],
             state'[i].execQueue = state[i].execQueue
      PROVE  Works(i)
  <2>1. phase'[i] = [phase[i] EXCEPT ![c] = to]
    BY <1>0, <1>s DEF ExecOK
  <2>2. state[i].execQueue # <<>> /\ Head(state[i].execQueue) = c
    BY <1>s DEF MayBegin
  <2>3. /\ Waiting(i) = state[i].execQueue /\ Running(i) = None
        /\ Waiting(i)' = Tail(state[i].execQueue) /\ Running(i)' = Head(state[i].execQueue)
        /\ Over(i)' = Over(i)
    BY <1>0, <1>q, <1>s, <2>1, <2>2, StartView, ViewIs, ViewIsPrimed
  <2> QED
    BY <2>2, <2>3 DEF Starts, Works
\* A unit that goes on is the running one still.
<1>a. ASSUME phase[i][c] \in Executing, NEW to \in Executing,
             phase' = [phase EXCEPT ![i][c] = to],
             state'[i].execQueue = state[i].execQueue
      PROVE  Works(i)
  <2>1. phase'[i] = [phase[i] EXCEPT ![c] = to]
    BY <1>0, <1>a DEF ExecOK
  <2>2. Stays(i)
    BY <1>0, <1>q, <1>a, <2>1, AdvanceView, ViewIs, ViewIsPrimed DEF Stays
  <2> QED
    BY <2>2 DEF Works
<1>1. CASE Claimed(i, c)
  <2>1. phase[i][c] = "claiming" /\ phase'[i] = [phase[i] EXCEPT ![c] = "queued"]
    BY <1>0, <1>1 DEF Claimed, Moves, ExecOK
  <2>2. state'[i] = Enqueued(state[i], c)
    BY <1>0, <1>1, KeepEffect DEF Claimed
  <2>3. state'[i].execQueue = Append(state[i].execQueue, c)
    BY <1>0, <2>2 DEF Enqueued, ChannelState
  <2>4. Submits(i, c)
    <3> DEFINE ph == phase[i]
               q == state[i].execQueue
    <3>1. /\ WaitingOf(phase'[i], Append(q, c)) = Append(WaitingOf(ph, q), c)
          /\ RunningOf(phase'[i], Append(q, c)) = RunningOf(ph, q)
          /\ OverOf(phase'[i]) = OverOf(ph)
          /\ c # RunningOf(ph, q) /\ c \notin OverOf(ph)
          /\ \A n \in DOMAIN WaitingOf(ph, q) : WaitingOf(ph, q)[n] # c
      <4> HIDE DEF ph, q
      <4> QED
        BY SubmitView, <1>0, <1>q, <1>e, <2>1 DEF ph, q
    <3> QED
      BY <2>3, <3>1, ViewIs, ViewIsPrimed DEF Submits
  <2> QED
    BY <2>4 DEF Works
<1>2. CASE BeginExecute(i, c)
  <2>1. state'[i].execQueue = state[i].execQueue
    <3> DEFINE sn == IF state[i].session = None THEN c ELSE state[i].session
               st == [state[i] EXCEPT !.session = sn, !.currentCommandId = c]
    <3>1. sn \in Command
      BY <1>0 DEF ChannelState
    <3>2. st \in ChannelState
      BY <1>0, <3>1, SessionUpdateType
    <3>3. Emit(i, st, "command", c, None, c)
      BY <1>2 DEF BeginExecute
    <3>4. state'[i].execQueue = st.execQueue
      BY <1>0, <3>2, <3>3, EmitKeeps
    <3> QED
      BY <1>0, <3>4 DEF ChannelState
  <2> QED
    BY <1>2, <1>s, <2>1 DEF BeginExecute, Moves, Executing
<1>3. CASE FailExecute(i, c)
  <2>1. state'[i].execQueue = state[i].execQueue
    BY <1>0, <1>3, EmitKeeps DEF FailExecute
  <2> QED
    BY <1>3, <1>s, <2>1 DEF FailExecute, Moves, Executing
<1>4. CASE StartEval(i, c)
  BY <1>4, <1>a DEF StartEval, Moves, Executing, map
<1>5. CASE EvalSettles(i, c)
  <2>1. state'[i].execQueue = state[i].execQueue
    BY <1>0, <1>5, EmitKeeps DEF EvalSettles
  <2> QED
    BY <1>5, <1>a, <2>1 DEF EvalSettles, Executing
<1>6. CASE Settle(i, c)
  <2>1. phase[i][c] \in Executing /\ phase'[i] = [phase[i] EXCEPT ![c] = "settled"]
    BY <1>0, <1>6 DEF Settle, LinkResolves, Executing, ExecOK
  <2>2. state[i].execQueue # <<>> /\ Head(state[i].execQueue) = c
    BY <1>0, <1>q, <1>e, <2>1, HeadExecutes
  <2>3. Queues(phase'[i], Tail(state[i].execQueue))
    BY <1>0, <1>q, <1>e, <2>1, <2>2, FinishQueues
  <2>4. state[i].pending > 0 /\ Counts(phase'[i], state[i].pending - 1)
    BY <1>0, <1>q, <1>e, <2>1, FinishCounts DEF Executing
  <2>5. Finished(state[i]) \in ChannelState
    BY <1>0, <2>2, <2>4, FinishedType
  <2>6. Executor(phase'[i], Finished(state[i]))
    BY <1>0, <2>3, <2>4 DEF Executor, Finished, ChannelState
  <2>7. MaybeEvict(i, Finished(state[i]), ownership[i], ownerSeenAt[i])
    BY <1>6 DEF Settle
  <2>8. phase'[i] \in [Command -> Phase]
    BY <1>0, <2>1 DEF Phase
  <2>9. state'[i].execQueue = Tail(state[i].execQueue)
    <3>1. Finished(state[i]).execQueue = Tail(state[i].execQueue)
      BY <1>0 DEF Finished, ChannelState
    <3> QED
      BY <1>0, <2>5, <2>6, <2>7, <2>8, <3>1, EvictChain
  <2>10. /\ Running(i) = c /\ Waiting(i) = Tail(state[i].execQueue)
         /\ Running(i)' = None /\ Waiting(i)' = Tail(state[i].execQueue)
         /\ Over(i)' = Over(i) \cup {c}
    BY <1>0, <1>q, <1>e, <2>1, <2>9, FinishView, ViewIs, ViewIsPrimed
  <2> QED
    BY <2>10, CommandAssumption DEF Finishes, Works
<1> QED
  BY <1>1, <1>2, <1>3, <1>4, <1>5, <1>6 DEF Proceed

LEMMA EnvironmentWorks ==
    ASSUME TypeOK, ExecutorOK, NEW i \in Instance, Environment(i)
    PROVE  Works(i)
<1>0. /\ MapOK /\ OutboxOK /\ ExecOK
      /\ state[i] \in ChannelState /\ phase[i] \in [Command -> Phase]
  BY TypeParts DEF MapOK, ExecOK
<1>e. Executor(phase[i], state[i])
  BY DEF ExecutorOK
<1>q. ASSUME phase'[i] = phase[i], state'[i].execQueue = state[i].execQueue
      PROVE  Works(i)
  BY <1>q, QuietStays DEF Works
<1>1. CASE Transmit(i) \/ Heartbeat(i) \/ LeaseLapses(i) \/ StrayTtlFires(i) \/ Boot(i)
  BY <1>1, <1>q DEF Transmit, Heartbeat, LeaseLapses, StrayTtlFires, Boot, map, exec
<1>2. ASSUME NEW c \in Command, Dispatch(i, c) PROVE Works(i)
  BY <1>2, <1>q DEF Dispatch, map, exec
<1>3. ASSUME NEW s \in Command, WriteOutput(i, s) PROVE Works(i)
  BY <1>0, <1>3, <1>q, EmitKeeps DEF WriteOutput, exec
<1>4. CASE TtlFires(i)
  BY <1>0, <1>4, <1>q DEF TtlFires, ChannelState, MapOK, exec
<1>5. CASE OpenStream(i)
  BY <1>0, <1>5, <1>q, KeepEffect DEF OpenStream, ChannelState, exec
<1>6. CASE CloseStream(i)
  <2> DEFINE st == [state[i] EXCEPT !.subscriberCount = @ - 1]
  <2>1. st \in ChannelState
    BY <1>0, <1>6, UpdateType DEF CloseStream
  <2>2. Executor(phase[i], st) /\ st.execQueue = state[i].execQueue
    BY <1>0, <1>e DEF Executor, ChannelState
  <2>3. MaybeEvict(i, st, ownership[i], ownerSeenAt[i]) /\ phase'[i] = phase[i]
    BY <1>6 DEF CloseStream, exec
  <2>4. state'[i].execQueue = st.execQueue
    BY <1>0, <2>1, <2>2, <2>3, EvictChain
  <2> QED
    BY <1>q, <2>2, <2>3, <2>4
<1>7. CASE Crash(i)
  <2>1. /\ state'[i].execQueue = <<>>
        /\ phase'[i] = [c \in Command |-> IF InFlight(i, c) THEN "idle" ELSE phase[i][c]]
    BY <1>0, <1>7 DEF Crash, NewChannelState, MapOK, ExecOK
  <2>2. OverOf(phase'[i]) = OverOf(phase[i])
    BY <2>1 DEF OverOf, InFlight
  <2>3. Waiting(i)' = <<>> /\ Running(i)' = None /\ Over(i)' = Over(i)
    BY <2>1, <2>2, ViewIs, ViewIsPrimed DEF WaitingOf, RunningOf, Runs
  <2> QED
    BY <2>3 DEF Dies, Works
<1> QED
  BY <1>1, <1>2, <1>3, <1>4, <1>5, <1>6, <1>7 DEF Environment

LEMMA SameStays ==
    ASSUME NEW j \in Instance, Same(j)
    PROVE  Stays(j)
BY QuietStays DEF Same

-----------------------------------------------------------------------------
(* The step of the workers                                                 *)

\* One worker's step, while the others stay, is a step of the serial queue.
LEMMA WorkIsQueueStep ==
    ASSUME NEW i \in Instance, Works(i), \A j \in Instance : j # i => Stays(j)
    PROVE  [Queue!Next]_(Queue!vars)
<1> DEFINE w == [j \in Instance |-> Waiting(j)]
           r == [j \in Instance |-> Running(j)]
           f == [j \in Instance |-> Over(j)]
<1>1. /\ w' = [w EXCEPT ![i] = Waiting(i)'] /\ w[i] = Waiting(i)
      /\ r' = [r EXCEPT ![i] = Running(i)'] /\ r[i] = Running(i)
      /\ f' = [f EXCEPT ![i] = Over(i)'] /\ f[i] = Over(i)
  BY DEF Stays
<1>2. /\ Waiting(i)' = Waiting(i) => w' = w
      /\ Running(i)' = Running(i) => r' = r
      /\ Over(i)' = Over(i) => f' = f
  BY DEF Stays
<1>3. CASE Stays(i)
  BY <1>2, <1>3 DEF Stays, Queue!vars
<1>4. CASE Starts(i)
  <2>1. Queue!Start(i)
    BY <1>1, <1>2, <1>4 DEF Starts, Queue!Start
  <2> QED
    BY <2>1 DEF Queue!Next
<1>5. CASE Finishes(i)
  <2>1. Queue!Finish(i)
    BY <1>1, <1>2, <1>5 DEF Finishes, Queue!Finish
  <2> QED
    BY <2>1 DEF Queue!Next
<1>6. CASE Dies(i)
  <2>1. Queue!Die(i)
    BY <1>1, <1>2, <1>6 DEF Dies, Queue!Die
  <2> QED
    BY <2>1 DEF Queue!Next
<1>7. ASSUME NEW c \in Command, Submits(i, c) PROVE [Queue!Next]_(Queue!vars)
  <2>1. Queue!Submit(i, c)
    BY <1>1, <1>2, <1>7 DEF Submits, Queue!Submit
  <2> QED
    BY <2>1 DEF Queue!Next
<1> QED
  BY <1>3, <1>4, <1>5, <1>6, <1>7 DEF Works

LEMMA NextQueue == IInv /\ [Next]_vars => [Queue!Next]_(Queue!vars)
<1> SUFFICES ASSUME IInv, [Next]_vars PROVE [Queue!Next]_(Queue!vars)
  OBVIOUS
<1>0. TypeOK /\ CommandsOnce /\ ExecutorOK
  BY DEF IInv
<1>1. CASE UNCHANGED vars
  <2>1. \A j \in Instance : Stays(j)
    BY <1>1, QuietStays DEF vars, map, exec
  <2>2. UNCHANGED Queue!vars
    BY <2>1 DEF Queue!vars, Stays
  <2> QED
    BY <2>2
<1>2. ASSUME NEW i \in Instance, Handle(i) \/ Environment(i)
      PROVE  [Queue!Next]_(Queue!vars)
  <2>1. Works(i)
    BY <1>0, <1>2, HandleWorks, EnvironmentWorks
  <2>2. \A j \in Instance : j # i => Stays(j)
    BY <1>0, <1>2, HandleFrame, EnvironmentFrame, SameStays
  <2> QED
    BY <2>1, <2>2, WorkIsQueueStep
<1>3. ASSUME NEW i \in Instance, NEW c \in Command, Proceed(i, c)
      PROVE  [Queue!Next]_(Queue!vars)
  <2>1. Works(i)
    BY <1>0, <1>3, ProceedWorks
  <2>2. \A j \in Instance : j # i => Stays(j)
    BY <1>0, <1>3, ProceedFrame, SameStays
  <2> QED
    BY <2>1, <2>2, WorkIsQueueStep
<1> QED
  BY <1>1, <1>2, <1>3, NextCases

LEMMA InitQueue == Init => Queue!Init
<1> SUFFICES ASSUME Init PROVE Queue!Init
  OBVIOUS
<1>1. ASSUME NEW i \in Instance
      PROVE  Waiting(i) = <<>> /\ Running(i) = None /\ Over(i) = {}
  <2>1. state[i].execQueue = <<>> /\ \A c \in Command : phase[i][c] = "idle"
    BY DEF Init, NewChannelState
  <2> QED
    BY <2>1 DEF Waiting, Running, Over, HeadRuns, Chain
<1> QED
  BY <1>1 DEF Queue!Init

\* In every fleet, the commands an instance accepted on a channel run one at a time, in
\* the order in which they were chained, each to its end and none twice, through
\* failures, evictions, releases, takeovers and crashes (380-425).
THEOREM QueueIsSerial == Spec => ExecutesSerially
<1>1. Init => Queue!Init
  BY InitQueue
<1>2. IInv /\ [Next]_vars => [Queue!Next]_(Queue!vars)
  BY NextQueue
<1> QED
  BY <1>1, <1>2, Invariance, PTL DEF Spec, ExecutesSerially, Queue!Spec

=============================================================================
