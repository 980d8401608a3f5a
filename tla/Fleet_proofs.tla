----------------------------- MODULE Fleet_proofs -----------------------------
(***************************************************************************)
(* What the instances of a fleet agree on, proved for every fleet and      *)
(* every set of commands, as long as nothing was lost and nobody crashed.  *)
(***************************************************************************)
EXTENDS RemoteReplEngine_proofs

-----------------------------------------------------------------------------
(* An undisturbed fleet                                                    *)

Whole == /\ \A k \in Kind : left[k] <= Budget[k]
         /\ Undisturbed => \A i \in Instance : listening[i] = 3

LEMMA InitWhole == Init => Whole
BY BoundsAssumption DEF Init, Whole, Undisturbed, Kind

LEMMA SpendFalls ==
    ASSUME LeftOK, NEW kind \in Kind, Spend(kind)
    PROVE  /\ \A k \in Kind : left'[k] <= left[k]
           /\ \A k \in Kind : k # kind => left'[k] = left[k]
           /\ left'[kind] < left[kind]
BY DEF LeftOK, Spend

\* A step takes at most one unit from the budget.
LEMMA StepSpends ==
    ASSUME [Next]_vars
    PROVE  UNCHANGED left \/ \E kind \in Kind : Spend(kind)
<1>k. {"beat", "ttl", "lapse", "loss", "crash", "chunk", "fault"} \subseteq Kind
  BY DEF Kind
<1>1. ASSUME NEW i \in Instance, Handle(i) PROVE UNCHANGED left
  BY <1>1 DEF Handle, OnCmdIgnored, OnCmdOwner, OnCmdClaim, OnOut, OnSysClaim, OnSysRelease, env
<1>2. ASSUME NEW i \in Instance, NEW c \in Command, Proceed(i, c)
      PROVE  UNCHANGED left \/ Spend("fault")
  BY <1>2 DEF Proceed, Claimed, BeginExecute, FailExecute, StartEval, EvalSettles, Settle, env
<1>3. ASSUME NEW i \in Instance, Environment(i)
      PROVE  UNCHANGED left \/ \E kind \in Kind : Spend(kind)
  <2>1. CASE Transmit(i)
    BY <1>k, <2>1 DEF Transmit
  <2>2. CASE \E c \in Command : Dispatch(i, c) \/ WriteOutput(i, c)
    BY <1>k, <2>2 DEF Dispatch, WriteOutput
  <2>3. CASE Heartbeat(i) \/ LeaseLapses(i) \/ TtlFires(i) \/ StrayTtlFires(i)
    BY <1>k, <2>3 DEF Heartbeat, LeaseLapses, TtlFires, StrayTtlFires
  <2>4. CASE OpenStream(i) \/ CloseStream(i) \/ Boot(i) \/ Crash(i)
    BY <1>k, <2>4 DEF OpenStream, CloseStream, Boot, Crash, env
  <2> QED
    BY <1>3, <2>1, <2>2, <2>3, <2>4 DEF Environment
<1> QED
  BY <1>k, <1>1, <1>2, <1>3, NextCases DEF vars, env

LEMMA StepBudget ==
    ASSUME TypeOK, [Next]_vars
    PROVE  /\ \A k \in Kind : left'[k] <= left[k]
           /\ \A i \in Instance : Crash(i) => left'["crash"] < left["crash"]
<1>0. LeftOK
  BY TypeParts
<1>1. \A i \in Instance : Crash(i) => left'["crash"] < left["crash"]
  BY <1>0, SpendFalls DEF Crash, Kind
<1>2. CASE UNCHANGED left
  BY <1>0, <1>1, <1>2 DEF LeftOK
<1>3. CASE \E kind \in Kind : Spend(kind)
  BY <1>0, <1>1, <1>3, SpendFalls
<1> QED
  BY <1>2, <1>3, StepSpends

LEMMA StepListening ==
    ASSUME [Next]_vars, \A i \in Instance : ~Crash(i) /\ ~Boot(i)
    PROVE  UNCHANGED listening
<1>1. ASSUME NEW i \in Instance, Handle(i) PROVE UNCHANGED listening
  BY <1>1 DEF Handle, OnCmdIgnored, OnCmdOwner, OnCmdClaim, OnOut, OnSysClaim, OnSysRelease, env
<1>2. ASSUME NEW i \in Instance, NEW c \in Command, Proceed(i, c) PROVE UNCHANGED listening
  BY <1>2 DEF Proceed, Claimed, BeginExecute, FailExecute, StartEval, EvalSettles, Settle, env
<1>3. ASSUME NEW i \in Instance, Environment(i) PROVE UNCHANGED listening
  <2>1. CASE Transmit(i) \/ \E c \in Command : Dispatch(i, c) \/ WriteOutput(i, c)
    BY <2>1 DEF Transmit, Dispatch, WriteOutput
  <2>2. CASE Heartbeat(i) \/ LeaseLapses(i) \/ TtlFires(i) \/ StrayTtlFires(i)
    BY <2>2 DEF Heartbeat, LeaseLapses, TtlFires, StrayTtlFires
  <2>3. CASE OpenStream(i) \/ CloseStream(i)
    BY <2>3 DEF OpenStream, CloseStream, env
  <2> QED
    BY <1>3, <2>1, <2>2, <2>3 DEF Environment
<1> QED
  BY <1>1, <1>2, <1>3, NextCases DEF vars, env

\* A step that leaves the fleet undisturbed found it so.
LEMMA StillUndisturbed ==
    ASSUME TypeOK, Whole, [Next]_vars, Undisturbed'
    PROVE  /\ Undisturbed /\ \A i \in Instance : listening[i] = 3
           /\ \A k \in {"loss", "crash"} : left'[k] = left[k]
           /\ \A i \in Instance : ~Crash(i) /\ ~Boot(i)
<1>1. \A k \in {"loss", "crash"} :
          left'[k] <= left[k] /\ left[k] <= Budget[k] /\ left'[k] = Budget[k]
  BY StepBudget DEF Whole, Undisturbed, Kind
<1>2. \A k \in {"loss", "crash"} : left[k] \in Nat /\ Budget[k] \in Nat
  BY BoundsAssumption DEF TypeOK, Kind
<1>3. \A k \in {"loss", "crash"} : left[k] = Budget[k] /\ left'[k] = left[k]
  BY <1>1, <1>2
<1>4. Undisturbed /\ \A i \in Instance : listening[i] = 3
  BY <1>3 DEF Whole, Undisturbed
<1>5. \A i \in Instance : ~Boot(i)
  BY <1>4 DEF Boot
<1>6. \A i \in Instance : ~Crash(i)
  BY <1>2, <1>3, StepBudget
<1> QED
  BY <1>3, <1>4, <1>5, <1>6

LEMMA NextWhole == TypeOK /\ Whole /\ [Next]_vars => Whole'
<1> SUFFICES ASSUME TypeOK, Whole, [Next]_vars PROVE Whole'
  OBVIOUS
<1>0. LeftOK /\ LeftOK'
  <2>1. LeftOK
    BY TypeParts
  <2>2. CASE UNCHANGED left
    BY <2>1, <2>2 DEF LeftOK
  <2>3. CASE \E kind \in Kind : Spend(kind)
    BY <2>1, <2>3, SpendType
  <2> QED
    BY <2>1, <2>2, <2>3, StepSpends
<1>1. ASSUME NEW k \in Kind PROVE left'[k] <= Budget[k]
  <2>1. left'[k] <= left[k] /\ left[k] <= Budget[k]
    BY StepBudget DEF Whole
  <2>2. left'[k] \in Nat /\ left[k] \in Nat /\ Budget[k] \in Nat
    BY <1>0, BoundsAssumption DEF LeftOK
  <2> QED
    BY <2>1, <2>2
<1>2. ASSUME Undisturbed' PROVE \A i \in Instance : listening'[i] = 3
  <2>1. /\ \A i \in Instance : listening[i] = 3
        /\ \A i \in Instance : ~Crash(i) /\ ~Boot(i)
    BY <1>2, StillUndisturbed
  <2>2. UNCHANGED listening
    BY <2>1, StepListening
  <2> QED
    BY <2>1, <2>2
<1> QED
  BY <1>1, <1>2 DEF Whole


-----------------------------------------------------------------------------
(* Owners in waiting: what the queued sys messages will make of a record   *)

Effect(m) == IF m.kind = "claim" THEN m.instanceId ELSE None

\* ownership[j] once j has handled the sys message at position m of its inbox.
OwnerAfter(j, m) == IF m = 0 THEN ownership[j] ELSE Effect(inbox[j][m])

\* j still has to tell the others that it claims or releases the channel.
Announces(j) == \E n \in 1..Len(outbox[j]) : outbox[j][n].topic = "sys"

\* All instances end up with the owner v, except those whose own claim is not
\* out yet.
AgreeOn(v) ==
    \A j \in Instance : \A m \in 0..Len(inbox[j]) :
        LastBefore(inbox[j], "sys", Len(inbox[j]) + 1, m) =>
            \/ OwnerAfter(j, m) = v
            \/ m = 0 /\ ownership[j] = j /\ Announces(j)

Agreement == \E v \in Instance \cup {None} : AgreeOn(v)

\* The command c of the origin o, broadcast while the fleet was agreeing on v:
\* who handled it already was neither v nor an origin without an owner, and who
\* has still to handle it will then believe in v or in itself.
Awaited(c, v, o) ==
    \A j \in Instance :
        /\ NotInInbox(j, c) => v # j /\ (j = o => v # None)
        /\ \A n \in 1..Len(inbox[j]) :
               Carries(inbox[j], n, c) =>
                   /\ inbox[j][n].originInstanceId = o
                   /\ \A m \in 0..(n - 1) :
                          LastBefore(inbox[j], "sys", n, m) => OwnerAfter(j, m) \in {v, j}

Unaccepted(c) == Dispatched(c) /\ \A i \in Instance : phase[i][c] = "idle"

Posted(c) == \E i \in Instance, n \in Nat : Carries(outbox[i], n, c)

Acceptance ==
    \A c \in Command :
        Unaccepted(c) =>
            Posted(c) \/ \E v \in Instance \cup {None}, o \in Instance : Awaited(c, v, o)

\* A message that leaves the head of q was the last of its topic, or moved up.
LEMMA LastBeforeTail ==
    ASSUME NEW q \in Seq(Message), q # <<>>, NEW topic, NEW n \in 1..Len(q), NEW m \in 0..(n - 1),
           LastBefore(Tail(q), topic, n, m)
    PROVE  \/ m > 0 /\ LastBefore(q, topic, n + 1, m + 1) /\ Tail(q)[m] = q[m + 1]
           \/ m = 0 /\ Head(q).topic = topic /\ LastBefore(q, topic, n + 1, 1)
           \/ m = 0 /\ Head(q).topic # topic /\ LastBefore(q, topic, n + 1, 0)
<1>1. \A k \in 1..(n - 1) : Tail(q)[k] = q[k + 1] /\ k + 1 \in 1..n
  OBVIOUS
<1>2. \A k \in (m + 2)..n : k - 1 \in (m + 1)..(n - 1) /\ q[k] = Tail(q)[k - 1]
  OBVIOUS
<1>3. \A k \in (m + 2)..n : q[k].topic # topic
  BY <1>2 DEF LastBefore
<1>4. CASE m > 0
  <2>1. m \in 1..(n - 1) /\ Tail(q)[m].topic = topic
    BY <1>4 DEF LastBefore
  <2> QED
    BY <1>1, <1>3, <1>4, <2>1 DEF LastBefore
<1>5. CASE m = 0
  <2>1. Head(q) = q[1] /\ \A k \in 2..n : q[k].topic # topic
    BY <1>3, <1>5
  <2>2. CASE Head(q).topic = topic
    BY <1>5, <2>1, <2>2 DEF LastBefore
  <2>3. CASE Head(q).topic # topic
    <3>1. \A k \in 1..n : k = 1 \/ k \in 2..n
      OBVIOUS
    <3> QED
      BY <1>5, <2>1, <2>3, <3>1 DEF LastBefore
  <2> QED
    BY <2>2, <2>3
<1> QED
  BY <1>4, <1>5

\* A message at the end of q does not matter to what stands before it.
LEMMA LastBeforeAppend ==
    ASSUME NEW q \in Seq(Message), NEW x \in Message, NEW topic,
           NEW n \in 1..(Len(q) + 1), NEW m \in 0..(n - 1)
    PROVE  LastBefore(Append(q, x), topic, n, m) <=> LastBefore(q, topic, n, m)
<1>1. \A k \in 1..(n - 1) : Append(q, x)[k] = q[k]
  OBVIOUS
<1>2. \A k \in (m + 1)..(n - 1) : k \in 1..(n - 1)
  OBVIOUS
<1> QED
  BY <1>1, <1>2 DEF LastBefore

\* The last message of a longer queue is the new one, if it is of the topic.
LEMMA LastOfAppend ==
    ASSUME NEW q \in Seq(Message), NEW x \in Message, NEW topic,
           NEW m \in 0..(Len(q) + 1), LastBefore(Append(q, x), topic, Len(q) + 2, m)
    PROVE  \/ x.topic = topic /\ m = Len(q) + 1 /\ Append(q, x)[m] = x
           \/ /\ x.topic # topic /\ m \in 0..Len(q)
              /\ LastBefore(q, topic, Len(q) + 1, m)
              /\ m > 0 => Append(q, x)[m] = q[m]
<1>1. Append(q, x)[Len(q) + 1] = x /\ \A k \in 1..Len(q) : Append(q, x)[k] = q[k]
  OBVIOUS
<1>2. CASE m = Len(q) + 1
  BY <1>1, <1>2 DEF LastBefore
<1>3. CASE m # Len(q) + 1
  <2>1. m \in 0..Len(q) /\ Len(q) + 1 \in (m + 1)..(Len(q) + 1)
    BY <1>3
  <2>2. x.topic # topic
    BY <1>1, <2>1 DEF LastBefore
  <2>3. \A k \in (m + 1)..Len(q) : k \in (m + 1)..(Len(q) + 1) /\ k \in 1..Len(q)
    BY <2>1
  <2>4. \A k \in (m + 1)..Len(q) : q[k].topic # topic
    BY <1>1, <2>3 DEF LastBefore
  <2>5. m = 0 \/ (m \in 1..Len(q) /\ q[m].topic = topic)
    BY <1>1, <2>1 DEF LastBefore
  <2> QED
    BY <1>1, <2>1, <2>2, <2>4, <2>5 DEF LastBefore
<1> QED
  BY <1>2, <1>3

-----------------------------------------------------------------------------
(* What a step does to the queues and the records of ownership             *)

\* A step of i that handles and transmits nothing.
Local(i) ==
    /\ UNCHANGED <<ownership, inbox>>
    /\ UNCHANGED outbox \/ \E m \in Message : Publish(i, m)
    /\ \A j \in Instance, c \in Command : phase'[j][c] = "idle" => phase[j][c] = "idle"
    /\ \A c \in Command : Dispatched(c)' => Dispatched(c) \/ Posted(c)'

LEMMA EvictKeepsOwner ==
    ASSUME LeaseOK, NEW i \in Instance, NEW st, NEW seenAt,
           MaybeEvict(i, st, ownership[i], seenAt)
    PROVE  UNCHANGED ownership
BY DEF LeaseOK, MaybeEvict, OwnershipOnEviction

LEMMA NotIdleKept ==
    ASSUME ExecOK, NEW i \in Instance, NEW c \in Command, NEW to, to # "idle",
           phase' = [phase EXCEPT ![i][c] = to]
    PROVE  \A j \in Instance, d \in Command : phase'[j][d] = "idle" => phase[j][d] = "idle"
BY DEF ExecOK

LEMMA SamePosted == UNCHANGED posted => \A c \in Command : Dispatched(c)' => Dispatched(c)
BY DEF Dispatched

LEMMA EmitLocal ==
    ASSUME MapOK, OutboxOK, NEW i \in Instance,
           NEW type \in EventType, NEW c \in Command \cup {None},
           NEW writer \in Command \cup {None}, NEW awaited \in Command \cup {None},
           NEW st \in ChannelState, Emit(i, st, type, c, writer, awaited)
    PROVE  \E m \in Message : Publish(i, m)
BY EmitPublishes

LEMMA ProceedLocal ==
    ASSUME TypeOK, NEW i \in Instance, NEW c \in Command, Proceed(i, c)
    PROVE  Local(i)
<1>0. LeaseOK /\ MapOK /\ ExecOK /\ OutboxOK /\ state[i] \in ChannelState
  BY TypeParts DEF MapOK
<1>1. CASE Claimed(i, c)
  BY <1>0, <1>1, NotIdleKept, SamePosted DEF Claimed, Moves, Local, lease, env
<1>2. CASE BeginExecute(i, c)
  <2> DEFINE s  == IF state[i].session = None THEN c ELSE state[i].session
             st == [state[i] EXCEPT !.session = s, !.currentCommandId = c]
  <2>1. s \in Command
    BY <1>0 DEF ChannelState
  <2>2. st \in ChannelState
    BY <1>0, <2>1, SessionUpdateType
  <2>3. Emit(i, st, "command", c, None, c)
    BY <1>2 DEF BeginExecute
  <2>4. \E m \in Message : Publish(i, m)
    BY <1>0, <2>2, <2>3, EmitLocal DEF EventType
  <2> QED
    BY <1>0, <1>2, <2>4, NotIdleKept, SamePosted DEF BeginExecute, Moves, Local, lease, env
<1>3. CASE FailExecute(i, c)
  <2>1. \E m \in Message : Publish(i, m)
    BY <1>0, <1>3, EmitLocal DEF FailExecute, EventType
  <2> QED
    BY <1>0, <1>3, <2>1, NotIdleKept, SamePosted DEF FailExecute, Moves, Local, lease
<1>4. CASE StartEval(i, c)
  BY <1>0, <1>4, NotIdleKept, SamePosted DEF StartEval, Moves, Local, lease, env
<1>5. CASE EvalSettles(i, c)
  <2>1. \E m \in Message : Publish(i, m)
    BY <1>0, <1>5, EmitLocal DEF EvalSettles, EventType
  <2> QED
    BY <1>0, <1>5, <2>1, NotIdleKept, SamePosted DEF EvalSettles, Local, lease, env
<1>6. CASE Settle(i, c)
  <2>1. UNCHANGED ownership
    BY <1>0, <1>6, EvictKeepsOwner DEF Settle
  <2> QED
    BY <1>0, <1>6, <2>1, NotIdleKept, SamePosted DEF Settle, Local, env
<1> QED
  BY <1>1, <1>2, <1>3, <1>4, <1>5, <1>6 DEF Proceed

LEMMA EnvironmentLocal ==
    ASSUME TypeOK, NEW i \in Instance, Environment(i), ~Transmit(i), ~Crash(i)
    PROVE  Local(i)
<1>0. LeaseOK /\ MapOK /\ ExecOK /\ OutboxOK /\ PostedOK /\ state[i] \in ChannelState
  BY TypeParts DEF MapOK
<1>1. ASSUME NEW c \in Command, Dispatch(i, c) PROVE Local(i)
  <2> DEFINE m == [topic |-> "cmd", commandId |-> c, originInstanceId |-> i, awaited |-> None]
  <2>1. m \in Message /\ Publish(i, m)
    BY <1>1 DEF Dispatch, Message, CmdMessage
  <2>2. outbox'[i] = Append(outbox[i], m) /\ outbox[i] \in Seq(Message)
    BY <1>0, <2>1, PublishEffect DEF OutboxOK
  <2>3. Carries(outbox'[i], Len(outbox[i]) + 1, c) /\ Len(outbox[i]) + 1 \in Nat
    BY <2>1, <2>2 DEF Carries
  <2>4. Posted(c)'
    BY <2>3 DEF Posted
  <2>5. \A d \in Command : Dispatched(d)' => Dispatched(d) \/ d = c
    BY <1>0, <1>1 DEF Dispatch, Dispatched, PostedOK
  <2> HIDE DEF m
  <2> QED
    BY <1>1, <2>1, <2>4, <2>5 DEF Dispatch, Local, lease, exec
<1>2. ASSUME NEW s \in Command, WriteOutput(i, s) PROVE Local(i)
  <2>1. state[i].currentCommandId \in Command \cup {None}
    BY <1>0 DEF ChannelState
  <2>2. \E m \in Message : Publish(i, m)
    BY <1>0, <1>2, <2>1, EmitLocal DEF WriteOutput, EventType
  <2> QED
    BY <1>2, <2>2, SamePosted DEF WriteOutput, Local, lease, exec
<1>3. CASE Heartbeat(i)
  <2>1. Claim(i, None) \in Message
    BY SysMessageType
  <2> QED
    BY <1>3, <2>1, SamePosted DEF Heartbeat, Local, lease, exec
<1>4. CASE LeaseLapses(i) \/ Boot(i)
  BY <1>4, SamePosted DEF LeaseLapses, Boot, Local, lease, exec
<1>5. CASE TtlFires(i) \/ StrayTtlFires(i)
  <2>1. Release(i) \in Message
    BY SysMessageType
  <2> QED
    BY <1>5, <2>1, SamePosted DEF TtlFires, StrayTtlFires, Local, lease, exec
<1>6. CASE OpenStream(i)
  BY <1>6, SamePosted DEF OpenStream, Local, lease, exec, env
<1>7. CASE CloseStream(i)
  <2>1. UNCHANGED ownership
    BY <1>0, <1>7, EvictKeepsOwner DEF CloseStream
  <2> QED
    BY <1>7, <2>1, SamePosted DEF CloseStream, Local, exec, env
<1> QED
  BY <1>1, <1>2, <1>3, <1>4, <1>5, <1>6, <1>7 DEF Environment


LEMMA ReceivesEffect ==
    ASSUME InboxOK, NEW i \in Instance, NEW topic, Receives(i, topic)
    PROVE  /\ inbox[i] \in Seq(Message) /\ inbox[i] # <<>>
           /\ inbox'[i] = Tail(inbox[i])
           /\ \A j \in Instance : j # i => inbox'[j] = inbox[j]
BY DEF InboxOK, Receives

\* Handling what is at the head of the inbox changes no owner in waiting, except
\* that the origin that claims the channel records itself and announces it.
LEMMA HandledOwner ==
    ASSUME TypeOK, NEW i \in Instance, Handle(i), NEW n \in 1..Len(inbox[i]), NEW m \in 0..(n - 1),
           LastBefore(inbox'[i], "sys", n, m)
    PROVE  \/ \E k \in 1..n : /\ LastBefore(inbox[i], "sys", n + 1, k)
                              /\ OwnerAfter(i, m)' = OwnerAfter(i, k)
           \/ m = 0 /\ LastBefore(inbox[i], "sys", n + 1, 0) /\ ownership'[i] = ownership[i]
           \/ m = 0 /\ ownership'[i] = i /\ Announces(i)'
<1>0. InboxOK /\ LeaseOK /\ OutboxOK
  BY TypeParts
<1>1. PICK topic : Receives(i, topic)
  BY DEF Handle, OnCmdIgnored, OnCmdOwner, OnCmdClaim, OnOut, OnSysClaim, OnSysRelease
<1>2. /\ inbox[i] \in Seq(Message) /\ inbox[i] # <<>>
      /\ inbox'[i] = Tail(inbox[i])
  BY <1>0, <1>1, ReceivesEffect
<1>3. \/ m > 0 /\ LastBefore(inbox[i], "sys", n + 1, m + 1) /\ Tail(inbox[i])[m] = inbox[i][m + 1]
      \/ m = 0 /\ Head(inbox[i]).topic = "sys" /\ LastBefore(inbox[i], "sys", n + 1, 1)
      \/ m = 0 /\ Head(inbox[i]).topic # "sys" /\ LastBefore(inbox[i], "sys", n + 1, 0)
  BY <1>2, LastBeforeTail
<1>4. CASE m > 0
  <2>1. LastBefore(inbox[i], "sys", n + 1, m + 1) /\ Tail(inbox[i])[m] = inbox[i][m + 1]
    BY <1>3, <1>4
  <2>2. m + 1 \in 1..n /\ m + 1 # 0 /\ m # 0
    BY <1>4
  <2>3. OwnerAfter(i, m)' = OwnerAfter(i, m + 1)
    BY <1>2, <2>1, <2>2 DEF OwnerAfter, Effect
  <2> QED
    BY <2>1, <2>2, <2>3
<1>5. CASE m = 0 /\ Head(inbox[i]).topic = "sys"
  <2>1. LastBefore(inbox[i], "sys", n + 1, 1)
    BY <1>3, <1>5
  <2>2. Head(inbox[i]) = inbox[i][1] /\ Head(inbox[i]) \in Message
    BY <1>2
  <2>3. ownership'[i] = Effect(Head(inbox[i]))
    <3>1. CASE OnSysClaim(i)
      BY <1>0, <3>1 DEF OnSysClaim, OwnerAfterClaim, Effect, LeaseOK
    <3>2. CASE OnSysRelease(i)
      <4>1. Head(inbox[i]).kind = "release"
        BY <3>2 DEF OnSysRelease
      <4>2. ownership'[i] = None
        BY <1>0, <3>2 DEF OnSysRelease, MaybeEvict, OwnershipOnEviction, LeaseOK
      <4> QED
        BY <4>1, <4>2 DEF Effect
    <3> QED
      BY <1>5, <3>1, <3>2 DEF Handle, OnCmdIgnored, OnCmdOwner, OnCmdClaim, OnOut, Receives
  <2>4. OwnerAfter(i, m)' = OwnerAfter(i, 1)
    BY <1>5, <2>2, <2>3 DEF OwnerAfter
  <2>5. 1 \in 1..n
    OBVIOUS
  <2> QED
    BY <2>1, <2>4, <2>5
<1>6. CASE m = 0 /\ Head(inbox[i]).topic # "sys"
  <2>1. CASE OnCmdClaim(i)
    <3>1. ownership'[i] = i
      BY <1>0, <2>1 DEF OnCmdClaim, LeaseOK
    <3>2. PICK c : Publish(i, Claim(i, c))
      BY <2>1 DEF OnCmdClaim
    <3>3. outbox'[i] = Append(outbox[i], Claim(i, c)) /\ outbox[i] \in Seq(Message)
      BY <1>0, <3>2, PublishEffect DEF OutboxOK
    <3>4. Len(outbox[i]) + 1 \in 1..Len(outbox'[i]) /\ outbox'[i][Len(outbox[i]) + 1] = Claim(i, c)
      BY <3>3
    <3>5. Claim(i, c).topic = "sys"
      BY DEF Claim
    <3>6. Announces(i)'
      BY <3>4, <3>5 DEF Announces
    <3> QED
      BY <1>6, <3>1, <3>6
  <2>2. CASE ~OnCmdClaim(i)
    <3>1. ownership'[i] = ownership[i]
      BY <1>6, <2>2 DEF Handle, OnCmdIgnored, OnCmdOwner, OnOut, OnSysClaim, OnSysRelease,
                        Receives, lease
    <3> QED
      BY <1>3, <1>6, <3>1
  <2> QED
    BY <2>1, <2>2
<1> QED
  BY <1>4, <1>5, <1>6

\* The others are left as they are, and what is to be announced stays so.
LEMMA HandledOthers ==
    ASSUME TypeOK, NEW i \in Instance, Handle(i)
    PROVE  /\ \A j \in Instance : j # i => inbox'[j] = inbox[j] /\ ownership'[j] = ownership[j]
           /\ inbox[i] # <<>> /\ inbox'[i] = Tail(inbox[i]) /\ inbox[i] \in Seq(Message)
           /\ UNCHANGED outbox \/ \E m \in Message : Publish(i, m)
<1>0. InboxOK /\ LeaseOK /\ OutboxOK
  BY TypeParts
<1>1. PICK topic : Receives(i, topic)
  BY DEF Handle, OnCmdIgnored, OnCmdOwner, OnCmdClaim, OnOut, OnSysClaim, OnSysRelease
<1>2. \A j \in Instance : j # i => ownership'[j] = ownership[j]
  BY <1>0 DEF Handle, OnCmdIgnored, OnCmdOwner, OnCmdClaim, OnOut, OnSysClaim, OnSysRelease,
              MaybeEvict, LeaseOK, lease
<1>3. UNCHANGED outbox \/ \E m \in Message : Publish(i, m)
  <2>1. CASE OnCmdClaim(i)
    <3>1. Head(inbox[i]).commandId \in Command
      BY <1>0, <2>1, ReceivesType, KindsOfMessage DEF OnCmdClaim
    <3>2. Claim(i, Head(inbox[i]).commandId) \in Message
      BY <3>1, SysMessageType
    <3> QED
      BY <2>1, <3>2 DEF OnCmdClaim
  <2> QED
    BY <2>1 DEF Handle, OnCmdIgnored, OnCmdOwner, OnOut, OnSysClaim, OnSysRelease
<1> QED
  BY <1>0, <1>1, <1>2, <1>3, ReceivesEffect

LEMMA AnnouncesKept ==
    ASSUME OutboxOK, NEW i \in Instance, UNCHANGED outbox \/ \E m \in Message : Publish(i, m)
    PROVE  \A j \in Instance : Announces(j) => Announces(j)'
<1> SUFFICES ASSUME NEW j \in Instance, Announces(j) PROVE Announces(j)'
  OBVIOUS
<1>1. PICK n \in 1..Len(outbox[j]) : outbox[j][n].topic = "sys"
  BY DEF Announces
<1>2. CASE UNCHANGED outbox
  BY <1>1, <1>2 DEF Announces
<1>3. ASSUME NEW m \in Message, Publish(i, m) PROVE Announces(j)'
  <2>1. CASE j = i
    <3>1. outbox'[j] = Append(outbox[j], m) /\ outbox[j] \in Seq(Message)
      BY <1>3, <2>1, PublishEffect DEF OutboxOK
    <3>2. n \in 1..Len(outbox'[j]) /\ outbox'[j][n] = outbox[j][n]
      BY <3>1
    <3> QED
      BY <1>1, <3>2 DEF Announces
  <2>2. CASE j # i
    BY <1>1, <1>3, <2>2, PublishEffect DEF Announces
  <2> QED
    BY <2>1, <2>2
<1> QED
  BY <1>2, <1>3

\* While nothing is lost and everybody listens, everybody receives what i sends.
LEMMA TransmitReachesAll ==
    ASSUME TypeOK, NEW i \in Instance, Transmit(i), \A j \in Instance : listening[j] = 3,
           left'["loss"] = left["loss"]
    PROVE  /\ outbox[i] # <<>> /\ outbox[i] \in Seq(Message) /\ Head(outbox[i]) \in Message
           /\ outbox'[i] = Tail(outbox[i])
           /\ \A j \in Instance : j # i => outbox'[j] = outbox[j]
           /\ \A j \in Instance : inbox'[j] = Append(inbox[j], Head(outbox[i]))
           /\ UNCHANGED <<ownership, phase, posted>>
<1>0. OutboxOK /\ LeftOK
  BY TypeParts
<1> DEFINE m == Head(outbox[i])
           audience == {j \in Instance : listening[j] >= TopicRank[m.topic]}
<1>1. outbox[i] # <<>> /\ outbox[i] \in Seq(Message) /\ m \in Message
  BY <1>0 DEF Transmit, OutboxOK
<1>2. audience = Instance
  <2>1. m.topic \in {"cmd", "out", "sys"}
    BY <1>1, KindsOfMessage
  <2>2. TopicRank[m.topic] \in {1, 2, 3}
    BY <2>1 DEF TopicRank
  <2> QED
    BY <2>2
<1>3. PICK lost \in SUBSET audience :
          /\ IF lost = {} THEN UNCHANGED left ELSE Spend("loss")
          /\ inbox' = [j \in Instance |-> IF j \in audience \ lost
                                          THEN Append(inbox[j], m) ELSE inbox[j]]
  BY DEF Transmit
<1>4. lost = {}
  <2>1. ~Spend("loss")
    BY <1>0 DEF Spend, LeftOK, Kind
  <2> QED
    BY <1>3, <2>1
<1>5. \A j \in Instance : inbox'[j] = Append(inbox[j], m)
  BY <1>2, <1>3, <1>4
<1>6. outbox'[i] = Tail(outbox[i]) /\ \A j \in Instance : j # i => outbox'[j] = outbox[j]
  BY <1>0 DEF Transmit, OutboxOK
<1> QED
  BY <1>1, <1>5, <1>6 DEF Transmit, lease, exec


-----------------------------------------------------------------------------
(* Agreement                                                               *)

LEMMA InitAgreement == Init => Agreement
<1> SUFFICES ASSUME Init PROVE AgreeOn(None)
  BY DEF Agreement
<1> QED
  BY DEF Init, AgreeOn, OwnerAfter

LEMMA LocalAgreement ==
    ASSUME TypeOK, Agreement, NEW i \in Instance, Local(i)
    PROVE  Agreement'
<1>1. PICK v \in Instance \cup {None} : AgreeOn(v)
  BY DEF Agreement
<1>2. \A j \in Instance : Announces(j) => Announces(j)'
  BY TypeParts, AnnouncesKept DEF Local
<1>3. UNCHANGED <<inbox, ownership>>
  BY DEF Local
<1>4. AgreeOn(v)'
  BY <1>1, <1>2, <1>3 DEF AgreeOn, OwnerAfter
<1> QED
  BY <1>4 DEF Agreement

LEMMA HandleAgreement ==
    ASSUME TypeOK, Agreement, NEW i \in Instance, Handle(i)
    PROVE  Agreement'
<1>1. PICK v \in Instance \cup {None} : AgreeOn(v)
  BY DEF Agreement
<1>2. /\ \A j \in Instance : j # i => inbox'[j] = inbox[j] /\ ownership'[j] = ownership[j]
      /\ inbox[i] # <<>> /\ inbox'[i] = Tail(inbox[i]) /\ inbox[i] \in Seq(Message)
      /\ UNCHANGED outbox \/ \E m \in Message : Publish(i, m)
  BY HandledOthers
<1>3. \A j \in Instance : Announces(j) => Announces(j)'
  BY <1>2, TypeParts, AnnouncesKept
<1>4. ASSUME NEW j \in Instance, NEW m \in 0..Len(inbox'[j]),
             LastBefore(inbox'[j], "sys", Len(inbox'[j]) + 1, m)
      PROVE  \/ OwnerAfter(j, m)' = v
             \/ m = 0 /\ ownership'[j] = j /\ Announces(j)'
  <2>1. CASE j # i
    <3>1. /\ inbox'[j] = inbox[j] /\ ownership'[j] = ownership[j]
          /\ OwnerAfter(j, m)' = OwnerAfter(j, m)
      BY <1>2, <2>1 DEF OwnerAfter
    <3> QED
      BY <1>1, <1>3, <1>4, <3>1 DEF AgreeOn
  <2>2. CASE j = i
    <3> DEFINE n == Len(inbox[i])
    <3>0. Len(inbox[i]) \in Nat /\ Len(inbox[i]) > 0 /\ Len(inbox'[i]) = Len(inbox[i]) - 1
      BY <1>2
    <3>1. n \in 1..Len(inbox[i]) /\ Len(inbox'[i]) + 1 = n /\ m \in 0..(n - 1)
      BY <2>2, <3>0
    <3>2. LastBefore(inbox'[i], "sys", n, m)
      BY <1>4, <2>2, <3>1
    <3>3. \/ \E k \in 1..n : /\ LastBefore(inbox[i], "sys", n + 1, k)
                             /\ OwnerAfter(i, m)' = OwnerAfter(i, k)
          \/ m = 0 /\ LastBefore(inbox[i], "sys", n + 1, 0) /\ ownership'[i] = ownership[i]
          \/ m = 0 /\ ownership'[i] = i /\ Announces(i)'
      BY <3>1, <3>2, HandledOwner
    <3>4. ASSUME NEW k \in 1..n, LastBefore(inbox[i], "sys", n + 1, k),
                 OwnerAfter(i, m)' = OwnerAfter(i, k)
          PROVE  OwnerAfter(j, m)' = v
      <4>1. k \in 0..Len(inbox[i]) /\ k # 0
        OBVIOUS
      <4> QED
        BY <1>1, <2>2, <3>4, <4>1 DEF AgreeOn
    <3>5. CASE m = 0 /\ LastBefore(inbox[i], "sys", n + 1, 0) /\ ownership'[i] = ownership[i]
      <4>1. OwnerAfter(i, m)' = ownership[i] /\ OwnerAfter(i, 0) = ownership[i]
        BY <3>5 DEF OwnerAfter
      <4>2. 0 \in 0..Len(inbox[i])
        BY <3>1
      <4>3. OwnerAfter(i, 0) = v \/ (ownership[i] = i /\ Announces(i))
        BY <1>1, <3>5, <4>2 DEF AgreeOn
      <4> QED
        BY <1>3, <2>2, <3>5, <4>1, <4>3
    <3> QED
      BY <2>2, <3>3, <3>4, <3>5
  <2> QED
    BY <2>1, <2>2
<1>5. AgreeOn(v)'
  BY <1>4 DEF AgreeOn
<1> QED
  BY <1>5 DEF Agreement

LEMMA TransmitAgreement ==
    ASSUME TypeOK, Agreement, NEW i \in Instance, Transmit(i),
           \A j \in Instance : listening[j] = 3, left'["loss"] = left["loss"]
    PROVE  Agreement'
<1> DEFINE x == Head(outbox[i])
<1>1. PICK v \in Instance \cup {None} : AgreeOn(v)
  BY DEF Agreement
<1>2. /\ outbox[i] # <<>> /\ outbox[i] \in Seq(Message) /\ x \in Message
      /\ outbox'[i] = Tail(outbox[i])
      /\ \A j \in Instance : j # i => outbox'[j] = outbox[j]
      /\ \A j \in Instance : inbox'[j] = Append(inbox[j], x)
      /\ UNCHANGED ownership
  BY TransmitReachesAll
<1>3. \A j \in Instance : inbox[j] \in Seq(Message)
  BY DEF TypeOK
<1>4. ASSUME NEW j \in Instance, NEW m \in 0..Len(inbox'[j]),
             LastBefore(inbox'[j], "sys", Len(inbox'[j]) + 1, m)
      PROVE  \/ x.topic = "sys" /\ m = Len(inbox[j]) + 1 /\ inbox'[j][m] = x
             \/ /\ x.topic # "sys" /\ m \in 0..Len(inbox[j])
                /\ LastBefore(inbox[j], "sys", Len(inbox[j]) + 1, m)
                /\ m > 0 => inbox'[j][m] = inbox[j][m]
  <2>1. inbox'[j] = Append(inbox[j], x) /\ Len(inbox'[j]) = Len(inbox[j]) + 1
    BY <1>2, <1>3
  <2>2. m \in 0..(Len(inbox[j]) + 1) /\ Len(inbox'[j]) + 1 = Len(inbox[j]) + 2
    BY <1>3, <2>1
  <2>3. LastBefore(Append(inbox[j], x), "sys", Len(inbox[j]) + 2, m)
    BY <1>4, <2>1, <2>2
  <2> HIDE DEF x
  <2> QED
    BY <1>2, <1>3, <2>1, <2>2, <2>3, LastOfAppend
<1> HIDE DEF x
<1>5. CASE x.topic = "sys"
  <2>1. PICK v2 \in Instance \cup {None} : v2 = Effect(x)
    BY <1>2, <1>5, KindsOfMessage DEF Effect
  <2>2. ASSUME NEW j \in Instance, NEW m \in 0..Len(inbox'[j]),
               LastBefore(inbox'[j], "sys", Len(inbox'[j]) + 1, m)
        PROVE  OwnerAfter(j, m)' = v2
    <3>1. m = Len(inbox[j]) + 1 /\ inbox'[j][m] = x
      BY <1>4, <1>5, <2>2
    <3>2. m # 0
      BY <1>3, <3>1
    <3> QED
      BY <2>1, <3>1, <3>2 DEF OwnerAfter, Effect
  <2>3. AgreeOn(v2)'
    BY <2>2 DEF AgreeOn
  <2> QED
    BY <2>3 DEF Agreement
<1>6. CASE x.topic # "sys"
  <2>1. ASSUME NEW j \in Instance, Announces(j) PROVE Announces(j)'
    <3>1. PICK n \in 1..Len(outbox[j]) : outbox[j][n].topic = "sys"
      BY <2>1 DEF Announces
    <3>2. CASE j = i
      <4>1. x = outbox[i][1]
        BY <1>2 DEF x
      <4>2. n # 1
        BY <1>6, <3>1, <3>2, <4>1
      <4>3. n - 1 \in 1..Len(outbox'[i]) /\ outbox'[i][n - 1] = outbox[i][n]
        BY <1>2, <3>1, <3>2, <4>2
      <4> QED
        BY <3>1, <3>2, <4>3 DEF Announces
    <3>3. CASE j # i
      BY <1>2, <3>1, <3>3 DEF Announces
    <3> QED
      BY <3>2, <3>3
  <2>2. ASSUME NEW j \in Instance, NEW m \in 0..Len(inbox'[j]),
               LastBefore(inbox'[j], "sys", Len(inbox'[j]) + 1, m)
        PROVE  \/ OwnerAfter(j, m)' = v
               \/ m = 0 /\ ownership'[j] = j /\ Announces(j)'
    <3>1. /\ m \in 0..Len(inbox[j]) /\ LastBefore(inbox[j], "sys", Len(inbox[j]) + 1, m)
          /\ m > 0 => inbox'[j][m] = inbox[j][m]
      BY <1>4, <1>6, <2>2
    <3>2. OwnerAfter(j, m)' = OwnerAfter(j, m)
      BY <1>2, <3>1 DEF OwnerAfter, Effect
    <3> QED
      BY <1>1, <1>2, <2>1, <3>1, <3>2 DEF AgreeOn
  <2>3. AgreeOn(v)'
    BY <2>2 DEF AgreeOn
  <2> QED
    BY <2>3 DEF Agreement
<1> QED
  BY <1>5, <1>6

LEMMA NextAgreement ==
    ASSUME TypeOK, Whole, Undisturbed => Agreement, [Next]_vars, Undisturbed'
    PROVE  Agreement'
<1>1. /\ Undisturbed /\ \A i \in Instance : listening[i] = 3
      /\ left'["loss"] = left["loss"]
      /\ \A i \in Instance : ~Crash(i)
  BY StillUndisturbed
<1>2. Agreement
  BY <1>1
<1>3. CASE UNCHANGED vars
  BY <1>2, <1>3 DEF vars, lease, Agreement, AgreeOn, OwnerAfter, Announces
<1>4. ASSUME NEW i \in Instance, Environment(i) PROVE Agreement'
  BY <1>1, <1>2, <1>4, EnvironmentLocal, LocalAgreement, TransmitAgreement
<1> QED
  BY <1>2, <1>3, <1>4, NextCases, HandleAgreement, ProceedLocal, LocalAgreement


-----------------------------------------------------------------------------
(* Acceptance                                                              *)

LEMMA InitAcceptance == Init => Acceptance
BY DEF Init, Acceptance, Unaccepted, Dispatched

LEMMA PostedKept ==
    ASSUME OutboxOK, NEW i \in Instance, UNCHANGED outbox \/ \E m \in Message : Publish(i, m)
    PROVE  \A c \in Command : Posted(c) => Posted(c)'
<1> SUFFICES ASSUME NEW c \in Command, Posted(c) PROVE Posted(c)'
  OBVIOUS
<1>1. PICK j \in Instance, n \in Nat : Carries(outbox[j], n, c)
  BY DEF Posted
<1>2. CASE UNCHANGED outbox
  BY <1>1, <1>2 DEF Posted
<1>3. ASSUME NEW m \in Message, Publish(i, m) PROVE Posted(c)'
  <2>1. Carries(outbox'[j], n, c)
    <3>1. CASE j = i
      <4>1. outbox'[j] = Append(outbox[j], m) /\ outbox[j] \in Seq(Message)
        BY <1>3, <3>1, PublishEffect DEF OutboxOK
      <4> QED
        BY <1>1, <4>1 DEF Carries
    <3>2. CASE j # i
      BY <1>1, <1>3, <3>2, PublishEffect
    <3> QED
      BY <3>1, <3>2
  <2> QED
    BY <2>1 DEF Posted
<1> QED
  BY <1>2, <1>3

LEMMA LocalAcceptance ==
    ASSUME TypeOK, Acceptance, NEW i \in Instance, Local(i)
    PROVE  Acceptance'
<1> SUFFICES ASSUME NEW c \in Command, Unaccepted(c)', ~Posted(c)'
             PROVE  \E v \in Instance \cup {None}, o \in Instance : Awaited(c, v, o)'
  BY DEF Acceptance
<1>1. Posted(c) => Posted(c)'
  BY TypeParts, PostedKept DEF Local
<1>2. Unaccepted(c)
  BY DEF Local, Unaccepted
<1>3. PICK v \in Instance \cup {None}, o \in Instance : Awaited(c, v, o)
  BY <1>1, <1>2 DEF Acceptance
<1>4. UNCHANGED <<inbox, ownership>>
  BY DEF Local
<1>5. Awaited(c, v, o)'
  BY <1>3, <1>4 DEF Awaited, OwnerAfter, NotInInbox
<1> QED
  BY <1>5

LEMMA HandlePhases ==
    ASSUME TypeOK, NEW i \in Instance, Handle(i)
    PROVE  /\ \A j \in Instance, c \in Command : phase'[j][c] = "idle" => phase[j][c] = "idle"
           /\ UNCHANGED posted
<1>0. ExecOK /\ InboxOK
  BY TypeParts
<1>1. CASE OnCmdOwner(i) \/ OnCmdClaim(i)
  <2>1. Head(inbox[i]).commandId \in Command
    BY <1>0, <1>1, ReceivesType, KindsOfMessage DEF OnCmdOwner, OnCmdClaim
  <2>2. \/ phase' = [phase EXCEPT ![i][Head(inbox[i]).commandId] = "queued"]
        \/ phase' = [phase EXCEPT ![i][Head(inbox[i]).commandId] = "claiming"]
    BY <1>1 DEF OnCmdOwner, OnCmdClaim
  <2>3. \A j \in Instance, c \in Command : phase'[j][c] = "idle" => phase[j][c] = "idle"
    BY <1>0, <2>1, <2>2, NotIdleKept
  <2> QED
    BY <1>1, <2>3 DEF OnCmdOwner, OnCmdClaim, env
<1>2. CASE ~OnCmdOwner(i) /\ ~OnCmdClaim(i)
  BY <1>2 DEF Handle, OnCmdIgnored, OnOut, OnSysClaim, OnSysRelease, exec, env
<1> QED
  BY <1>1, <1>2

\* Who ignores the command at the head of its inbox is not its owner, and not an
\* origin that could claim the channel.
LEMMA IgnoredFor ==
    ASSUME TypeOK, NEW i \in Instance, Handle(i), NEW c \in Command, Carries(inbox[i], 1, c),
           phase'[i][c] = "idle"
    PROVE  /\ ownership[i] # i
           /\ inbox[i][1].originInstanceId = i => ownership[i] # None
<1>0. ExecOK /\ InboxOK
  BY TypeParts
<1>1. inbox[i] \in Seq(Message) /\ inbox[i] # <<>> /\ Head(inbox[i]) = inbox[i][1]
  BY <1>0 DEF Carries, InboxOK
<1>2. Head(inbox[i]).topic = "cmd" /\ Head(inbox[i]).commandId = c
  BY <1>1 DEF Carries
<1>3. ~OnCmdOwner(i) /\ ~OnCmdClaim(i)
  BY <1>0, <1>2 DEF OnCmdOwner, OnCmdClaim, ExecOK
<1>4. OnCmdIgnored(i)
  BY <1>2, <1>3 DEF Handle, OnOut, OnSysClaim, OnSysRelease, Receives
<1> QED
  BY <1>1, <1>4 DEF OnCmdIgnored, EffectivelyOwnerless

LEMMA HandleAcceptance ==
    ASSUME TypeOK, Acceptance, NEW i \in Instance, Handle(i)
    PROVE  Acceptance'
<1> SUFFICES ASSUME NEW c \in Command, Unaccepted(c)', ~Posted(c)'
             PROVE  \E v \in Instance \cup {None}, o \in Instance : Awaited(c, v, o)'
  BY DEF Acceptance
<1>0. /\ \A j \in Instance : j # i => inbox'[j] = inbox[j] /\ ownership'[j] = ownership[j]
      /\ inbox[i] # <<>> /\ inbox'[i] = Tail(inbox[i]) /\ inbox[i] \in Seq(Message)
      /\ UNCHANGED outbox \/ \E m \in Message : Publish(i, m)
  BY HandledOthers
<1>1. Posted(c) => Posted(c)'
  BY <1>0, TypeParts, PostedKept
<1>2. Unaccepted(c)
  BY HandlePhases DEF Unaccepted, Dispatched
<1>3. PICK v \in Instance \cup {None}, o \in Instance : Awaited(c, v, o)
  BY <1>1, <1>2 DEF Acceptance
<1>4. ASSUME NEW j \in Instance, j # i
      PROVE  /\ NotInInbox(j, c)' => v # j /\ (j = o => v # None)
             /\ \A n \in 1..Len(inbox'[j]) :
                    Carries(inbox'[j], n, c) =>
                        /\ inbox'[j][n].originInstanceId = o
                        /\ \A m \in 0..(n - 1) :
                               LastBefore(inbox'[j], "sys", n, m) => OwnerAfter(j, m)' \in {v, j}
  <2>1. /\ inbox'[j] = inbox[j] /\ (NotInInbox(j, c)' <=> NotInInbox(j, c))
        /\ \A m : OwnerAfter(j, m)' = OwnerAfter(j, m)
    BY <1>0, <1>4 DEF NotInInbox, OwnerAfter
  <2> QED
    BY <1>3, <2>1 DEF Awaited
<1>5. ASSUME NotInInbox(i, c)' PROVE v # i /\ (i = o => v # None)
  <2>1. CASE NotInInbox(i, c)
    BY <1>3, <2>1 DEF Awaited
  <2>2. CASE ~NotInInbox(i, c)
    <3>1. PICK n \in Nat : Carries(inbox[i], n, c)
      BY <2>2 DEF NotInInbox
    <3>2. n = 1
      <4>1. ASSUME n # 1 PROVE Carries(inbox'[i], n - 1, c) /\ n - 1 \in Nat
        BY <1>0, <3>1, <4>1 DEF Carries
      <4> QED
        BY <1>5, <4>1 DEF NotInInbox
    <3>3. Carries(inbox[i], 1, c) /\ 1 \in 1..Len(inbox[i])
      BY <3>1, <3>2 DEF Carries
    <3>4. phase'[i][c] = "idle"
      BY DEF Unaccepted
    <3>5. ownership[i] # i /\ (inbox[i][1].originInstanceId = i => ownership[i] # None)
      BY <3>3, <3>4, IgnoredFor
    <3>6. LastBefore(inbox[i], "sys", 1, 0) /\ 0 \in 0..(1 - 1)
      BY DEF LastBefore
    <3>7. inbox[i][1].originInstanceId = o /\ OwnerAfter(i, 0) \in {v, i}
      BY <1>3, <3>3, <3>6 DEF Awaited
    <3> QED
      BY <3>5, <3>7 DEF OwnerAfter
  <2> QED
    BY <2>1, <2>2
<1>6. ASSUME NEW n \in 1..Len(inbox'[i]), Carries(inbox'[i], n, c)
      PROVE  /\ inbox'[i][n].originInstanceId = o
             /\ \A m \in 0..(n - 1) :
                    LastBefore(inbox'[i], "sys", n, m) => OwnerAfter(i, m)' \in {v, i}
  <2>1. /\ n \in 1..Len(inbox[i]) /\ n + 1 \in 1..Len(inbox[i])
        /\ inbox'[i][n] = inbox[i][n + 1]
    BY <1>0
  <2>2. Carries(inbox[i], n + 1, c)
    BY <1>0, <1>6, <2>1 DEF Carries
  <2>3. /\ inbox[i][n + 1].originInstanceId = o
        /\ \A k \in 0..n : LastBefore(inbox[i], "sys", n + 1, k) => OwnerAfter(i, k) \in {v, i}
    BY <1>3, <2>1, <2>2 DEF Awaited
  <2>4. ASSUME NEW m \in 0..(n - 1), LastBefore(inbox'[i], "sys", n, m)
        PROVE  OwnerAfter(i, m)' \in {v, i}
    <3>1. \/ \E k \in 1..n : /\ LastBefore(inbox[i], "sys", n + 1, k)
                             /\ OwnerAfter(i, m)' = OwnerAfter(i, k)
          \/ m = 0 /\ LastBefore(inbox[i], "sys", n + 1, 0) /\ ownership'[i] = ownership[i]
          \/ m = 0 /\ ownership'[i] = i /\ Announces(i)'
      BY <2>1, <2>4, HandledOwner
    <3>2. CASE m = 0 /\ LastBefore(inbox[i], "sys", n + 1, 0) /\ ownership'[i] = ownership[i]
      <4>1. OwnerAfter(i, 0) \in {v, i}
        BY <2>1, <2>3, <3>2
      <4> QED
        BY <3>2, <4>1 DEF OwnerAfter
    <3>3. CASE m = 0 /\ ownership'[i] = i /\ Announces(i)'
      BY <3>3 DEF OwnerAfter
    <3> QED
      BY <2>3, <3>1, <3>2, <3>3
  <2> QED
    BY <2>1, <2>3, <2>4
<1>7. Awaited(c, v, o)'
  BY <1>4, <1>5, <1>6 DEF Awaited
<1> QED
  BY <1>7

LEMMA TransmitAcceptance ==
    ASSUME TypeOK, CommandsOnce, Agreement, Acceptance, NEW i \in Instance, Transmit(i),
           \A j \in Instance : listening[j] = 3, left'["loss"] = left["loss"]
    PROVE  Acceptance'
<1> DEFINE x == Head(outbox[i])
<1> SUFFICES ASSUME NEW c \in Command, Unaccepted(c)', ~Posted(c)'
             PROVE  \E v \in Instance \cup {None}, o \in Instance : Awaited(c, v, o)'
  BY DEF Acceptance
<1>1. /\ outbox[i] # <<>> /\ outbox[i] \in Seq(Message) /\ x \in Message /\ x = outbox[i][1]
      /\ outbox'[i] = Tail(outbox[i])
      /\ \A j \in Instance : j # i => outbox'[j] = outbox[j]
      /\ \A j \in Instance : inbox'[j] = Append(inbox[j], x)
      /\ UNCHANGED <<ownership, phase, posted>>
  BY TransmitReachesAll
<1>2. \A j \in Instance : inbox[j] \in Seq(Message)
  BY DEF TypeOK
<1> HIDE DEF x
<1>3. \A j \in Instance : /\ Len(inbox'[j]) = Len(inbox[j]) + 1
                          /\ inbox'[j][Len(inbox[j]) + 1] = x
                          /\ \A n \in 1..Len(inbox[j]) : inbox'[j][n] = inbox[j][n]
  BY <1>1, <1>2
<1>4. Unaccepted(c)
  BY <1>1 DEF Unaccepted, Dispatched
\* Up to the end of the old inbox nothing changes.
<1>5. ASSUME NEW j \in Instance, NEW n \in 1..(Len(inbox[j]) + 1), NEW m \in 0..(n - 1),
             LastBefore(inbox'[j], "sys", n, m)
      PROVE  LastBefore(inbox[j], "sys", n, m) /\ OwnerAfter(j, m)' = OwnerAfter(j, m)
  <2>0. inbox'[j] = Append(inbox[j], x) /\ inbox[j] \in Seq(Message) /\ x \in Message
    BY <1>1, <1>2
  <2>1. LastBefore(inbox[j], "sys", n, m)
    BY <1>5, <2>0, LastBeforeAppend
  <2>2. m = 0 \/ m \in 1..Len(inbox[j])
    OBVIOUS
  <2> QED
    BY <1>1, <1>3, <2>1, <2>2 DEF OwnerAfter, Effect
<1>6. CASE x.topic = "cmd" /\ x.commandId = c
  <2>1. Carries(outbox[i], 1, c)
    BY <1>1, <1>6 DEF Carries
  <2>2. \A j \in Instance : NotInInbox(j, c)
    BY <2>1 DEF CommandsOnce
  <2>3. PICK o \in Instance : o = x.originInstanceId
    BY <1>1, <1>6, KindsOfMessage
  <2>4. PICK v \in Instance \cup {None} : AgreeOn(v)
    BY DEF Agreement
  <2>5. ASSUME NEW j \in Instance
        PROVE  /\ ~NotInInbox(j, c)'
               /\ \A n \in 1..Len(inbox'[j]) :
                      Carries(inbox'[j], n, c) =>
                          /\ inbox'[j][n].originInstanceId = o
                          /\ \A m \in 0..(n - 1) :
                                 LastBefore(inbox'[j], "sys", n, m) => OwnerAfter(j, m)' \in {v, j}
    <3>1. Carries(inbox'[j], Len(inbox[j]) + 1, c) /\ Len(inbox[j]) + 1 \in Nat
      BY <1>2, <1>3, <1>6 DEF Carries
    <3>2. ~NotInInbox(j, c)'
      BY <3>1 DEF NotInInbox
    <3>3. ASSUME NEW n \in 1..Len(inbox'[j]), Carries(inbox'[j], n, c)
          PROVE  n = Len(inbox[j]) + 1
      <4>1. n \in 1..Len(inbox[j]) => Carries(inbox[j], n, c)
        BY <1>3, <3>3 DEF Carries
      <4> QED
        BY <1>2, <1>3, <2>2, <4>1 DEF NotInInbox
    <3>4. ASSUME NEW m \in 0..Len(inbox[j]), LastBefore(inbox'[j], "sys", Len(inbox[j]) + 1, m)
          PROVE  OwnerAfter(j, m)' \in {v, j}
      <4>1. /\ Len(inbox[j]) + 1 \in 1..(Len(inbox[j]) + 1)
            /\ m \in 0..((Len(inbox[j]) + 1) - 1)
        BY <1>2
      <4>2. /\ LastBefore(inbox[j], "sys", Len(inbox[j]) + 1, m)
            /\ OwnerAfter(j, m)' = OwnerAfter(j, m)
        BY <1>5, <3>4, <4>1
      <4>3. OwnerAfter(j, m) = v \/ (m = 0 /\ ownership[j] = j)
        BY <2>4, <4>2 DEF AgreeOn
      <4> QED
        BY <4>2, <4>3 DEF OwnerAfter
    <3>5. (Len(inbox[j]) + 1) - 1 = Len(inbox[j])
      BY <1>2
    <3> QED
      BY <1>3, <2>3, <3>2, <3>3, <3>4, <3>5
  <2>6. Awaited(c, v, o)'
    BY <2>5 DEF Awaited
  <2> QED
    BY <2>6
<1>7. CASE ~(x.topic = "cmd" /\ x.commandId = c)
  <2>1. ~Posted(c)
    <3>1. ASSUME NEW j \in Instance, NEW n \in Nat, Carries(outbox[j], n, c) PROVE FALSE
      <4>1. CASE j = i
        <5>1. n # 1
          BY <1>1, <1>7, <3>1, <4>1 DEF Carries
        <5>2. Carries(outbox'[i], n - 1, c) /\ n - 1 \in Nat
          BY <1>1, <3>1, <4>1, <5>1 DEF Carries
        <5> QED
          BY <5>2 DEF Posted
      <4>2. CASE j # i
        BY <1>1, <3>1, <4>2 DEF Posted
      <4> QED
        BY <4>1, <4>2
    <3> QED
      BY <3>1 DEF Posted
  <2>2. PICK v \in Instance \cup {None}, o \in Instance : Awaited(c, v, o)
    BY <1>4, <2>1 DEF Acceptance
  <2>3. ASSUME NEW j \in Instance, NEW n \in Nat, Carries(inbox'[j], n, c)
        PROVE  n \in 1..Len(inbox[j]) /\ Carries(inbox[j], n, c) /\ inbox'[j][n] = inbox[j][n]
    <3>1. n \in 1..(Len(inbox[j]) + 1) /\ n # Len(inbox[j]) + 1
      BY <1>3, <1>7, <2>3 DEF Carries
    <3>2. n \in 1..Len(inbox[j])
      BY <1>2, <3>1
    <3> QED
      BY <1>3, <2>3, <3>2 DEF Carries
  <2>4. ASSUME NEW j \in Instance, NEW n \in Nat, Carries(inbox[j], n, c)
        PROVE  Carries(inbox'[j], n, c)
    BY <1>2, <1>3, <2>4 DEF Carries
  <2>5. ASSUME NEW j \in Instance
        PROVE  /\ NotInInbox(j, c)' => v # j /\ (j = o => v # None)
               /\ \A n \in 1..Len(inbox'[j]) :
                      Carries(inbox'[j], n, c) =>
                          /\ inbox'[j][n].originInstanceId = o
                          /\ \A m \in 0..(n - 1) :
                                 LastBefore(inbox'[j], "sys", n, m) => OwnerAfter(j, m)' \in {v, j}
    <3>1. NotInInbox(j, c)' => NotInInbox(j, c)
      BY <2>4 DEF NotInInbox
    <3>2. ASSUME NEW n \in 1..Len(inbox'[j]), Carries(inbox'[j], n, c)
          PROVE  /\ inbox'[j][n].originInstanceId = o
                 /\ \A m \in 0..(n - 1) :
                        LastBefore(inbox'[j], "sys", n, m) => OwnerAfter(j, m)' \in {v, j}
      <4>1. n \in 1..Len(inbox[j]) /\ Carries(inbox[j], n, c) /\ inbox'[j][n] = inbox[j][n]
        BY <2>3, <3>2
      <4>2. n \in 1..(Len(inbox[j]) + 1)
        BY <1>2, <4>1
      <4>3. /\ inbox[j][n].originInstanceId = o
            /\ \A m \in 0..(n - 1) :
                   LastBefore(inbox[j], "sys", n, m) => OwnerAfter(j, m) \in {v, j}
        BY <2>2, <4>1 DEF Awaited
      <4>4. ASSUME NEW m \in 0..(n - 1), LastBefore(inbox'[j], "sys", n, m)
            PROVE  OwnerAfter(j, m)' \in {v, j}
        BY <1>5, <4>2, <4>3, <4>4
      <4> QED
        BY <4>1, <4>3, <4>4
    <3> QED
      BY <2>2, <3>1, <3>2 DEF Awaited
  <2>6. Awaited(c, v, o)'
    BY <2>5 DEF Awaited
  <2> QED
    BY <2>6
<1> QED
  BY <1>6, <1>7

LEMMA NextAcceptance ==
    ASSUME TypeOK, CommandsOnce, Whole, Undisturbed => Agreement /\ Acceptance, [Next]_vars,
           Undisturbed'
    PROVE  Acceptance'
<1>1. /\ Undisturbed /\ \A i \in Instance : listening[i] = 3
      /\ left'["loss"] = left["loss"]
      /\ \A i \in Instance : ~Crash(i)
  BY StillUndisturbed
<1>2. Agreement /\ Acceptance
  BY <1>1
<1>3. CASE UNCHANGED vars
  <2>1. UNCHANGED <<ownership, phase, inbox, outbox, posted>>
    BY <1>3 DEF vars, lease, exec, env
  <2>2. \A c \in Command : (Unaccepted(c)' <=> Unaccepted(c)) /\ (Posted(c)' <=> Posted(c))
    BY <2>1 DEF Unaccepted, Dispatched, Posted
  <2>3. \A c \in Command, v \in Instance \cup {None}, o \in Instance :
            Awaited(c, v, o) => Awaited(c, v, o)'
    BY <2>1 DEF Awaited, OwnerAfter, NotInInbox
  <2> QED
    BY <1>2, <2>2, <2>3 DEF Acceptance
<1>4. ASSUME NEW i \in Instance, Environment(i) PROVE Acceptance'
  BY <1>1, <1>2, <1>4, EnvironmentLocal, LocalAcceptance, TransmitAcceptance
<1> QED
  BY <1>2, <1>3, <1>4, NextCases, HandleAcceptance, ProceedLocal, LocalAcceptance

-----------------------------------------------------------------------------
(* Event ids on their way to an instance                                   *)

IdAt(q, base, m) == IF m = 0 THEN base ELSE q[m].event.id

\* The events in q count on from base, without a gap, and end at top.
CountsOn(q, base, top) ==
    /\ \A n \in 1..Len(q), m \in 0..Len(q) :
           q[n].topic = "out" /\ LastBefore(q, "out", n, m) => q[n].event.id = 1 + IdAt(q, base, m)
    /\ \A m \in 0..Len(q) : LastBefore(q, "out", Len(q) + 1, m) => top = IdAt(q, base, m)

LEMMA LastBeforeRange ==
    ASSUME NEW q, NEW topic, NEW n \in Nat, NEW m \in Nat, n > 0, LastBefore(q, topic, n, m)
    PROVE  m \in 0..(n - 1)
BY DEF LastBefore

\* An event with the next id.
LEMMA CountsOnNext ==
    ASSUME NEW q \in Seq(Message), NEW x \in Message, NEW base \in Nat, NEW top \in Nat,
           CountsOn(q, base, top), x.topic = "out", x.event.id = top + 1
    PROVE  CountsOn(Append(q, x), base, top + 1)
<1> DEFINE r == Append(q, x)
<1>0. /\ Len(q) \in Nat /\ Len(r) = Len(q) + 1 /\ r[Len(q) + 1] = x
      /\ \A k \in 1..Len(q) : r[k] = q[k]
  OBVIOUS
<1>1. ASSUME NEW n \in 1..Len(r), NEW m \in 0..Len(r), r[n].topic = "out",
             LastBefore(r, "out", n, m)
      PROVE  r[n].event.id = 1 + IdAt(r, base, m)
  <2>1. m \in 0..(n - 1) /\ n \in 1..(Len(q) + 1)
    BY <1>0, <1>1, LastBeforeRange
  <2>2. LastBefore(q, "out", n, m)
    BY <1>1, <2>1, LastBeforeAppend
  <2>3. m \in 0..Len(q) /\ IdAt(r, base, m) = IdAt(q, base, m)
    BY <1>0, <2>1 DEF IdAt
  <2>4. CASE n = Len(q) + 1
    <3>1. top = IdAt(q, base, m)
      BY <2>2, <2>3, <2>4 DEF CountsOn
    <3> QED
      BY <1>0, <2>3, <2>4, <3>1
  <2>5. CASE n \in 1..Len(q)
    <3>1. q[n].topic = "out" /\ r[n] = q[n]
      BY <1>0, <1>1, <2>5
    <3> QED
      BY <2>2, <2>3, <2>5, <3>1 DEF CountsOn
  <2> QED
    BY <1>0, <2>1, <2>4, <2>5
<1>2. ASSUME NEW m \in 0..Len(r), LastBefore(r, "out", Len(r) + 1, m)
      PROVE  top + 1 = IdAt(r, base, m)
  <2>1. m \in 0..(Len(q) + 1) /\ LastBefore(Append(q, x), "out", Len(q) + 2, m)
    BY <1>0, <1>2
  <2>2. m = Len(q) + 1 /\ r[m] = x
    BY <2>1, LastOfAppend
  <2> QED
    BY <1>0, <2>2 DEF IdAt
<1> QED
  BY <1>1, <1>2 DEF CountsOn

\* A message that is no event, wherever it is put between the others.
LEMMA CountsOnInsert ==
    ASSUME NEW q \in Seq(Message), NEW r \in Seq(Message), NEW base, NEW top,
           CountsOn(q, base, top), NEW L \in 0..Len(q), Len(r) = Len(q) + 1,
           \A k \in 1..L : r[k] = q[k],
           r[L + 1].topic # "out",
           \A k \in (L + 1)..Len(q) : r[k + 1] = q[k]
    PROVE  CountsOn(r, base, top)
<1> DEFINE old(n) == IF n <= L THEN n ELSE n - 1
<1>0. Len(q) \in Nat /\ Len(r) \in Nat /\ L \in Nat
  OBVIOUS
<1>1. ASSUME NEW n \in 1..(Len(r) + 1), n # L + 1 \/ n = Len(r) + 1, NEW m \in 0..Len(r),
             LastBefore(r, "out", n, m)
      PROVE  /\ old(n) \in 1..(Len(q) + 1) /\ old(m) \in 0..Len(q)
             /\ LastBefore(q, "out", old(n), old(m)) /\ IdAt(r, base, m) = IdAt(q, base, old(m))
  <2>1. m \in 0..(n - 1) /\ m # L + 1
    BY <1>0, <1>1, LastBeforeRange DEF LastBefore
  <2>2. n <= L \/ n > L + 1
    BY <1>0, <1>1
  <2>3. old(n) \in 1..(Len(q) + 1) /\ old(m) \in 0..Len(q)
    BY <1>0, <2>1, <2>2
  <2>4. m # 0 => old(m) \in 1..(old(n) - 1) /\ r[m] = q[old(m)]
    <3>1. CASE m <= L
      BY <1>0, <2>1, <2>2, <3>1
    <3>2. CASE m > L + 1
      <4>1. m - 1 \in (L + 1)..Len(q) /\ old(m) = m - 1 /\ old(n) = n - 1
        BY <1>0, <2>1, <3>2
      <4>2. r[(m - 1) + 1] = q[m - 1]
        BY <4>1
      <4> QED
        BY <1>0, <2>1, <3>2, <4>1, <4>2
    <3> QED
      BY <1>0, <2>1, <3>1, <3>2
  <2>5. m = 0 => old(m) = 0
    BY <1>0
  <2>6. m # 0 => old(m) # 0
    BY <1>0, <2>4
  <2>7. ASSUME NEW k \in (old(m) + 1)..(old(n) - 1) PROVE q[k].topic # "out"
    <3>1. CASE k <= L
      <4>1. k \in (m + 1)..(n - 1) /\ k \in 1..L
        BY <1>0, <2>1, <2>2, <2>3, <2>7, <3>1
      <4> QED
        BY <1>1, <4>1 DEF LastBefore
    <3>2. CASE k > L
      <4>1. k + 1 \in (m + 1)..(n - 1) /\ k \in (L + 1)..Len(q)
        BY <1>0, <2>1, <2>2, <2>3, <2>7, <3>2
      <4> QED
        BY <1>1, <4>1 DEF LastBefore
    <3> QED
      BY <1>0, <2>3, <2>7, <3>1, <3>2
  <2>8. m # 0 => q[old(m)].topic = "out"
    BY <1>1, <2>4 DEF LastBefore
  <2>9. LastBefore(q, "out", old(n), old(m))
    BY <2>4, <2>5, <2>7, <2>8 DEF LastBefore
  <2>10. IdAt(r, base, m) = IdAt(q, base, old(m))
    BY <2>4, <2>5, <2>6 DEF IdAt
  <2> QED
    BY <2>3, <2>9, <2>10
<1>2. ASSUME NEW n \in 1..Len(r), NEW m \in 0..Len(r), r[n].topic = "out",
             LastBefore(r, "out", n, m)
      PROVE  r[n].event.id = 1 + IdAt(r, base, m)
  <2>1. n # L + 1 /\ n \in 1..(Len(r) + 1)
    BY <1>0, <1>2
  <2>2. /\ old(m) \in 0..Len(q)
        /\ LastBefore(q, "out", old(n), old(m)) /\ IdAt(r, base, m) = IdAt(q, base, old(m))
    BY <1>1, <1>2, <2>1
  <2>3. old(n) \in 1..Len(q) /\ r[n] = q[old(n)]
    <3>1. CASE n <= L
      BY <1>0, <3>1
    <3>2. CASE n > L + 1
      <4>1. n - 1 \in (L + 1)..Len(q) /\ old(n) = n - 1
        BY <1>0, <3>2
      <4>2. r[(n - 1) + 1] = q[n - 1]
        BY <4>1
      <4> QED
        BY <1>0, <3>2, <4>1, <4>2
    <3> QED
      BY <1>0, <2>1, <3>1, <3>2
  <2> HIDE DEF old
  <2> QED
    BY <1>2, <2>2, <2>3 DEF CountsOn
<1>3. ASSUME NEW m \in 0..Len(r), LastBefore(r, "out", Len(r) + 1, m)
      PROVE  top = IdAt(r, base, m)
  <2>1. Len(r) + 1 \in 1..(Len(r) + 1) /\ old(Len(r) + 1) = Len(q) + 1
    BY <1>0
  <2>2. /\ old(m) \in 0..Len(q)
        /\ LastBefore(q, "out", old(Len(r) + 1), old(m)) /\ IdAt(r, base, m) = IdAt(q, base, old(m))
    BY <1>1, <1>3, <2>1
  <2> HIDE DEF old
  <2> QED
    BY <2>1, <2>2 DEF CountsOn
<1> HIDE DEF old
<1> QED
  BY <1>2, <1>3 DEF CountsOn

\* The head of q is handled: an event moves the base on, anything else leaves it.
LEMMA CountsOnTail ==
    ASSUME NEW q \in Seq(Message), q # <<>>, NEW base \in Nat, NEW top, CountsOn(q, base, top)
    PROVE  /\ Head(q).topic = "out" =>
                  Head(q).event.id = base + 1 /\ CountsOn(Tail(q), Head(q).event.id, top)
           /\ Head(q).topic # "out" => CountsOn(Tail(q), base, top)
<1> DEFINE b == IF Head(q).topic = "out" THEN Head(q).event.id ELSE base
<1>0. /\ Len(q) \in Nat /\ Len(q) > 0 /\ Len(Tail(q)) = Len(q) - 1 /\ Head(q) = q[1]
      /\ \A k \in 1..(Len(q) - 1) : Tail(q)[k] = q[k + 1]
  OBVIOUS
<1>1. ASSUME NEW n \in 1..Len(q), NEW m \in 0..(n - 1), LastBefore(Tail(q), "out", n, m)
      PROVE  \E k \in 0..Len(q) :
                 LastBefore(q, "out", n + 1, k) /\ IdAt(Tail(q), b, m) = IdAt(q, base, k)
  <2>1. CASE m > 0 /\ LastBefore(q, "out", n + 1, m + 1) /\ Tail(q)[m] = q[m + 1]
    <3>1. m + 1 \in 0..Len(q) /\ m # 0 /\ m + 1 # 0
      BY <1>0, <2>1
    <3>2. IdAt(Tail(q), b, m) = IdAt(q, base, m + 1)
      BY <2>1, <3>1 DEF IdAt
    <3> QED
      BY <2>1, <3>1, <3>2
  <2>2. CASE m = 0 /\ Head(q).topic = "out" /\ LastBefore(q, "out", n + 1, 1)
    <3>1. 1 \in 0..Len(q) /\ IdAt(Tail(q), b, m) = IdAt(q, base, 1)
      BY <1>0, <2>2 DEF IdAt
    <3> QED
      BY <2>2, <3>1
  <2>3. CASE m = 0 /\ Head(q).topic # "out" /\ LastBefore(q, "out", n + 1, 0)
    <3>1. 0 \in 0..Len(q) /\ IdAt(Tail(q), b, m) = IdAt(q, base, 0)
      BY <1>0, <2>3 DEF IdAt
    <3> QED
      BY <2>3, <3>1
  <2> QED
    BY <1>1, <2>1, <2>2, <2>3, LastBeforeTail
<1>2. Head(q).topic = "out" => Head(q).event.id = base + 1
  <2>1. LastBefore(q, "out", 1, 0) /\ 1 \in 1..Len(q) /\ 0 \in 0..Len(q)
    BY <1>0 DEF LastBefore
  <2>2. IdAt(q, base, 0) = base
    BY DEF IdAt
  <2> QED
    BY <1>0, <2>1, <2>2 DEF CountsOn
<1>3. ASSUME NEW n \in 1..Len(Tail(q)), NEW m \in 0..Len(Tail(q)),
             Tail(q)[n].topic = "out", LastBefore(Tail(q), "out", n, m)
      PROVE  Tail(q)[n].event.id = 1 + IdAt(Tail(q), b, m)
  <2>1. n \in 1..Len(q) /\ n + 1 \in 1..Len(q) /\ m \in 0..(n - 1) /\ Tail(q)[n] = q[n + 1]
    BY <1>0, <1>3, LastBeforeRange
  <2>2. PICK k \in 0..Len(q) :
            LastBefore(q, "out", n + 1, k) /\ IdAt(Tail(q), b, m) = IdAt(q, base, k)
    BY <1>1, <1>3, <2>1
  <2> HIDE DEF b
  <2> QED
    BY <1>3, <2>1, <2>2 DEF CountsOn
<1>4. ASSUME NEW m \in 0..Len(Tail(q)), LastBefore(Tail(q), "out", Len(Tail(q)) + 1, m)
      PROVE  top = IdAt(Tail(q), b, m)
  <2>1. Len(q) \in 1..Len(q) /\ m \in 0..(Len(q) - 1) /\ Len(Tail(q)) + 1 = Len(q)
    BY <1>0
  <2>2. PICK k \in 0..Len(q) :
            LastBefore(q, "out", Len(q) + 1, k) /\ IdAt(Tail(q), b, m) = IdAt(q, base, k)
    BY <1>1, <1>4, <2>1
  <2> HIDE DEF b
  <2> QED
    BY <2>2 DEF CountsOn
<1>5. CountsOn(Tail(q), b, top)
  <2> HIDE DEF b
  <2> QED
    BY <1>3, <1>4 DEF CountsOn
<1> QED
  BY <1>2, <1>5

-----------------------------------------------------------------------------
(* What a step does to the numbering                                       *)

IsRelease(m) == m.topic = "sys" /\ m.kind = "release"

\* A step of k that numbers no event and hears of none.
Rests(k) ==
    /\ UNCHANGED inbox \/ \E topic : topic # "out" /\ Receives(k, topic)
    /\ UNCHANGED outbox \/ \E x \in Message : x.topic # "out" /\ ~IsRelease(x) /\ Publish(k, x)
    /\ \A j \in Instance : j # k => state'[j] = state[j]
    /\ state'[k].session = state[k].session
    /\ \/ state'[k].nextId = state[k].nextId /\ state'[k].buffer = state[k].buffer
       \/ state[k].session = None /\ state[k].buffer = 0 /\ state'[k].nextId = 0
    /\ \A j \in Instance, c \in Command : phase'[j][c] \in Executing => phase[j][c] \in Executing

\* A step of k that numbers an event and publishes it.
Numbers(k) ==
    /\ UNCHANGED inbox
    /\ \E x \in Message : /\ x.topic = "out" /\ x.event.id = state[k].nextId + 1
                          /\ Publish(k, x)
    /\ state'[k].nextId = state[k].nextId + 1
    /\ \A j \in Instance : j # k => state'[j] = state[j]

LEMMA EvictRests ==
    ASSUME MapOK, NEW k \in Instance, NEW st, NEW owner, NEW seenAt,
           MaybeEvict(k, st, owner, seenAt),
           st.nextId = state[k].nextId, st.buffer = state[k].buffer, st.session = state[k].session
    PROVE  /\ \A j \in Instance : j # k => state'[j] = state[j]
           /\ state'[k].session = state[k].session
           /\ \/ state'[k].nextId = state[k].nextId /\ state'[k].buffer = state[k].buffer
              \/ state[k].session = None /\ state[k].buffer = 0 /\ state'[k].nextId = 0
BY EvictEffect DEF Evictable, NewChannelState

LEMMA KeepRests ==
    ASSUME MapOK, NEW k \in Instance, NEW st, Keep(k, st),
           st.nextId = state[k].nextId, st.buffer = state[k].buffer, st.session = state[k].session
    PROVE  /\ \A j \in Instance : j # k => state'[j] = state[j]
           /\ state'[k].session = state[k].session
           /\ state'[k].nextId = state[k].nextId /\ state'[k].buffer = state[k].buffer
BY KeepEffect

\* The updates of the handlers leave the numbering alone.
LEMMA UpdatesRest ==
    ASSUME NEW st \in ChannelState, NEW c \in Command
    PROVE  /\ LET s == Enqueued(st, c)
              IN s.nextId = st.nextId /\ s.buffer = st.buffer /\ s.session = st.session
           /\ LET s == Enqueued([st EXCEPT !.pending = @ + 1], c)
              IN s.nextId = st.nextId /\ s.buffer = st.buffer /\ s.session = st.session
           /\ LET s == [st EXCEPT !.pending = @ + 1]
              IN s.nextId = st.nextId /\ s.buffer = st.buffer /\ s.session = st.session
           /\ LET s == [st EXCEPT !.subscriberCount = @ + 1]
              IN s.nextId = st.nextId /\ s.buffer = st.buffer /\ s.session = st.session
           /\ LET s == [st EXCEPT !.subscriberCount = @ - 1]
              IN s.nextId = st.nextId /\ s.buffer = st.buffer /\ s.session = st.session
           /\ LET s == Finished(st)
              IN s.nextId = st.nextId /\ s.buffer = st.buffer /\ s.session = st.session
<1>1. st = [nextId |-> st.nextId, buffer |-> st.buffer, session |-> st.session,
            currentCommandId |-> st.currentCommandId, execQueue |-> st.execQueue,
            pending |-> st.pending, subscriberCount |-> st.subscriberCount,
            ttlTimer |-> st.ttlTimer]
  BY DEF ChannelState
<1> QED
  BY <1>1 DEF Enqueued, Finished

LEMMA NotExecutingKept ==
    ASSUME ExecOK, NEW i \in Instance, NEW c \in Command, NEW to,
           phase' = [phase EXCEPT ![i][c] = to], to \in Executing => phase[i][c] \in Executing
    PROVE  \A j \in Instance, d \in Command :
               phase'[j][d] \in Executing => phase[j][d] \in Executing
BY DEF ExecOK

LEMMA SysMessageRests ==
    ASSUME NEW i \in Instance, NEW c \in Command \cup {None}
    PROVE  /\ Claim(i, c) \in Message /\ Claim(i, c).topic # "out" /\ ~IsRelease(Claim(i, c))
BY SysMessageType DEF Claim, IsRelease

LEMMA HandleRests ==
    ASSUME TypeOK, NEW k \in Instance, Handle(k)
    PROVE  Rests(k) \/ OnOut(k) \/ OnSysRelease(k)
<1>0. MapOK /\ ExecOK /\ InboxOK /\ state[k] \in ChannelState
  BY TypeParts DEF MapOK
<1>1. CASE OnCmdIgnored(k)
  BY <1>1 DEF OnCmdIgnored, Rests, map, exec
<1>2. CASE OnCmdOwner(k)
  <2> DEFINE c == Head(inbox[k]).commandId
  <2>1. c \in Command
    BY <1>0, <1>2, ReceivesType, KindsOfMessage DEF OnCmdOwner
  <2>2. /\ \A j \in Instance : j # k => state'[j] = state[j]
        /\ state'[k].session = state[k].session
        /\ state'[k].nextId = state[k].nextId /\ state'[k].buffer = state[k].buffer
    BY <1>0, <1>2, <2>1, UpdatesRest, KeepRests DEF OnCmdOwner
  <2>3. \A j \in Instance, d \in Command : phase'[j][d] \in Executing => phase[j][d] \in Executing
    BY <1>0, <1>2, <2>1, NotExecutingKept DEF OnCmdOwner, Executing
  <2> QED
    BY <1>2, <2>2, <2>3 DEF OnCmdOwner, Rests
<1>3. CASE OnCmdClaim(k)
  <2> DEFINE c == Head(inbox[k]).commandId
  <2>1. c \in Command
    BY <1>0, <1>3, ReceivesType, KindsOfMessage DEF OnCmdClaim
  <2>2. /\ \A j \in Instance : j # k => state'[j] = state[j]
        /\ state'[k].session = state[k].session
        /\ state'[k].nextId = state[k].nextId /\ state'[k].buffer = state[k].buffer
    BY <1>0, <1>3, <2>1, UpdatesRest, KeepRests DEF OnCmdClaim
  <2>3. \A j \in Instance, d \in Command : phase'[j][d] \in Executing => phase[j][d] \in Executing
    BY <1>0, <1>3, <2>1, NotExecutingKept DEF OnCmdClaim, Executing
  <2>4. \E x \in Message : x.topic # "out" /\ ~IsRelease(x) /\ Publish(k, x)
    BY <1>3, <2>1, SysMessageRests DEF OnCmdClaim
  <2> QED
    BY <1>3, <2>2, <2>3, <2>4 DEF OnCmdClaim, Rests
<1>4. CASE OnSysClaim(k)
  BY <1>4 DEF OnSysClaim, Rests, map, exec
<1> QED
  BY <1>1, <1>2, <1>3, <1>4 DEF Handle

LEMMA EmitNumbers ==
    ASSUME MapOK, OutboxOK, NEW k \in Instance,
           NEW type \in EventType, NEW c \in Command \cup {None},
           NEW writer \in Command \cup {None}, NEW awaited \in Command \cup {None},
           NEW st \in ChannelState, Emit(k, st, type, c, writer, awaited),
           st.nextId = state[k].nextId, UNCHANGED inbox
    PROVE  Numbers(k) /\ state'[k].session = st.session
<1> DEFINE x == [topic |-> "out", writer |-> writer, awaited |-> awaited,
                 event |-> [id |-> st.nextId + 1, type |-> type, commandId |-> c]]
<1>1. x \in Message /\ x.topic = "out" /\ x.event.id = state[k].nextId + 1
  BY DEF Message, OutMessage, Event, ChannelState
<1>2. Publish(k, x)
  BY DEF Emit
<1>3. state'[k] = [st EXCEPT !.nextId = @ + 1] /\ \A j \in Instance : j # k => state'[j] = state[j]
  BY EmitEffect
<1>4. state'[k].nextId = state[k].nextId + 1 /\ state'[k].session = st.session
  BY <1>3 DEF ChannelState
<1> HIDE DEF x
<1> QED
  BY <1>1, <1>2, <1>3, <1>4 DEF Numbers

\* Who executes numbers events, and has a session while it does.
LEMMA ProceedNumbers ==
    ASSUME TypeOK, NEW k \in Instance, NEW c \in Command, Proceed(k, c)
    PROVE  \/ Rests(k) /\ (Claimed(k, c) \/ StartEval(k, c) \/ Settle(k, c))
           \/ /\ Numbers(k) /\ BeginExecute(k, c) /\ state'[k].session # None
              /\ \A j \in Instance, d \in Command :
                     phase'[j][d] \in Executing => phase[j][d] \in Executing \/ j = k
           \/ /\ Numbers(k) /\ EvalSettles(k, c) /\ state'[k].session = state[k].session
              /\ \A j \in Instance, d \in Command :
                     phase'[j][d] \in Executing => phase[j][d] \in Executing
           \/ Numbers(k) /\ FailExecute(k, c)
<1>0. MapOK /\ ExecOK /\ OutboxOK /\ state[k] \in ChannelState
  BY TypeParts DEF MapOK
<1>1. CASE Claimed(k, c)
  <2>1. /\ \A j \in Instance : j # k => state'[j] = state[j]
        /\ state'[k].session = state[k].session
        /\ state'[k].nextId = state[k].nextId /\ state'[k].buffer = state[k].buffer
    BY <1>0, <1>1, UpdatesRest, KeepRests DEF Claimed
  <2>2. \A j \in Instance, d \in Command : phase'[j][d] \in Executing => phase[j][d] \in Executing
    BY <1>0, <1>1, NotExecutingKept DEF Claimed, Moves, Executing
  <2> QED
    BY <1>1, <2>1, <2>2 DEF Claimed, Rests
<1>2. CASE BeginExecute(k, c)
  <2> DEFINE s  == IF state[k].session = None THEN c ELSE state[k].session
             st == [state[k] EXCEPT !.session = s, !.currentCommandId = c]
  <2>1. s \in Command
    BY <1>0 DEF ChannelState
  <2>2. st \in ChannelState /\ st.nextId = state[k].nextId /\ st.session = s
    BY <1>0, <2>1, SessionUpdateType DEF ChannelState
  <2>3. Emit(k, st, "command", c, None, c) /\ UNCHANGED inbox
    BY <1>2 DEF BeginExecute
  <2>4. "command" \in EventType
    BY DEF EventType
  <2> HIDE DEF st
  <2>5. Numbers(k) /\ state'[k].session = st.session
    BY <1>0, <2>2, <2>3, <2>4, EmitNumbers
  <2>6. \A j \in Instance, d \in Command :
            phase'[j][d] \in Executing => phase[j][d] \in Executing \/ j = k
    BY <1>0, <1>2 DEF BeginExecute, Moves, ExecOK
  <2>7. state'[k].session \in Command
    BY <2>1, <2>2, <2>5
  <2> QED
    BY <1>2, <2>5, <2>6, <2>7, CommandAssumption DEF CommandAssumption
<1>3. CASE FailExecute(k, c)
  <2>1. Emit(k, state[k], "error", c, None, c) /\ UNCHANGED inbox /\ "error" \in EventType
    BY <1>3 DEF FailExecute, EventType
  <2>2. Numbers(k)
    BY <1>0, <2>1, EmitNumbers
  <2> QED
    BY <1>3, <2>2
<1>4. CASE StartEval(k, c)
  <2>1. \A j \in Instance, d \in Command : phase'[j][d] \in Executing => phase[j][d] \in Executing
    BY <1>0, <1>4, NotExecutingKept DEF StartEval, Moves, Executing
  <2> QED
    BY <1>4, <2>1 DEF StartEval, Rests, map
<1>5. CASE EvalSettles(k, c)
  <2>1. Emit(k, state[k], "done", c, None, c) /\ UNCHANGED inbox /\ "done" \in EventType
    BY <1>5 DEF EvalSettles, EventType
  <2>2. Numbers(k) /\ state'[k].session = state[k].session
    BY <1>0, <2>1, EmitNumbers
  <2>3. \A j \in Instance, d \in Command : phase'[j][d] \in Executing => phase[j][d] \in Executing
    BY <1>0, <1>5, NotExecutingKept DEF EvalSettles, Executing
  <2> QED
    BY <1>5, <2>2, <2>3
<1>6. CASE Settle(k, c)
  <2>1. MaybeEvict(k, Finished(state[k]), ownership[k], ownerSeenAt[k])
    BY <1>6 DEF Settle
  <2>2. LET s == Finished(state[k])
        IN s.nextId = state[k].nextId /\ s.buffer = state[k].buffer /\ s.session = state[k].session
    BY <1>0, UpdatesRest
  <2>3. /\ \A j \in Instance : j # k => state'[j] = state[j]
        /\ state'[k].session = state[k].session
        /\ \/ state'[k].nextId = state[k].nextId /\ state'[k].buffer = state[k].buffer
           \/ state[k].session = None /\ state[k].buffer = 0 /\ state'[k].nextId = 0
    BY <1>0, <2>1, <2>2, EvictRests
  <2>4. \A j \in Instance, d \in Command : phase'[j][d] \in Executing => phase[j][d] \in Executing
    BY <1>0, <1>6, NotExecutingKept DEF Settle, Executing
  <2> QED
    BY <1>6, <2>3, <2>4 DEF Settle, Rests
<1> QED
  BY <1>1, <1>2, <1>3, <1>4, <1>5, <1>6 DEF Proceed

LEMMA EnvironmentRests ==
    ASSUME TypeOK, NEW k \in Instance, Environment(k),
           ~Transmit(k), ~TtlFires(k), ~StrayTtlFires(k), ~Boot(k), ~Crash(k)
    PROVE  \/ Rests(k)
           \/ /\ Numbers(k) /\ state'[k].session = state[k].session /\ state[k].session # None
              /\ UNCHANGED phase
              /\ \E c \in Command : phase[k][c] \in {"evaluating", "finishing", "settled"}
<1>0. MapOK /\ ExecOK /\ OutboxOK /\ state[k] \in ChannelState
  BY TypeParts DEF MapOK
<1>1. ASSUME NEW c \in Command, Dispatch(k, c) PROVE Rests(k)
  <2> DEFINE x == [topic |-> "cmd", commandId |-> c, originInstanceId |-> k, awaited |-> None]
  <2>1. x \in Message /\ x.topic # "out" /\ ~IsRelease(x)
    BY DEF Message, CmdMessage, IsRelease
  <2>2. Publish(k, x)
    BY <1>1 DEF Dispatch
  <2> HIDE DEF x
  <2> QED
    BY <1>1, <2>1, <2>2 DEF Dispatch, Rests, map, exec
<1>2. ASSUME NEW s \in Command, WriteOutput(k, s)
      PROVE  /\ Numbers(k) /\ state'[k].session = state[k].session /\ state[k].session # None
             /\ UNCHANGED phase
             /\ \E c \in Command : phase[k][c] \in {"evaluating", "finishing", "settled"}
  <2>1. state[k].currentCommandId \in Command \cup {None} /\ "output" \in EventType
    BY <1>0 DEF ChannelState, EventType
  <2>2. Emit(k, state[k], "output", state[k].currentCommandId, s, None) /\ UNCHANGED inbox
    BY <1>2 DEF WriteOutput
  <2>3. Numbers(k) /\ state'[k].session = state[k].session
    BY <1>0, <2>1, <2>2, EmitNumbers
  <2>4. UNCHANGED phase /\ state[k].session \in Command
    BY <1>2 DEF WriteOutput, OutputAccepted, exec
  <2>5. \E c \in Command : phase[k][c] \in {"evaluating", "finishing", "settled"}
    BY <1>2 DEF WriteOutput
  <2> QED
    BY <2>3, <2>4, <2>5, CommandAssumption DEF CommandAssumption
<1>3. CASE Heartbeat(k)
  <2>1. \E x \in Message : x.topic # "out" /\ ~IsRelease(x) /\ Publish(k, x)
    BY <1>3, SysMessageRests DEF Heartbeat
  <2> QED
    BY <1>3, <2>1 DEF Heartbeat, Rests, map, exec
<1>4. CASE LeaseLapses(k)
  BY <1>4 DEF LeaseLapses, Rests, map, exec
<1>5. CASE OpenStream(k)
  <2>1. LET s == [state[k] EXCEPT !.subscriberCount = @ + 1]
        IN s.nextId = state[k].nextId /\ s.buffer = state[k].buffer /\ s.session = state[k].session
    BY <1>0 DEF ChannelState
  <2>2. /\ \A j \in Instance : j # k => state'[j] = state[j]
        /\ state'[k].session = state[k].session
        /\ state'[k].nextId = state[k].nextId /\ state'[k].buffer = state[k].buffer
    BY <1>0, <1>5, <2>1, KeepRests DEF OpenStream
  <2> QED
    BY <1>5, <2>2 DEF OpenStream, Rests, exec
<1>6. CASE CloseStream(k)
  <2> DEFINE st == [state[k] EXCEPT !.subscriberCount = @ - 1]
  <2>1. st.nextId = state[k].nextId /\ st.buffer = state[k].buffer /\ st.session = state[k].session
    BY <1>0 DEF ChannelState
  <2>2. st \in ChannelState /\ MaybeEvict(k, st, ownership[k], ownerSeenAt[k])
    BY <1>0, <1>6, UpdateType DEF CloseStream
  <2> HIDE DEF st
  <2>3. /\ \A j \in Instance : j # k => state'[j] = state[j]
        /\ state'[k].session = state[k].session
        /\ \/ state'[k].nextId = state[k].nextId /\ state'[k].buffer = state[k].buffer
           \/ state[k].session = None /\ state[k].buffer = 0 /\ state'[k].nextId = 0
    BY <1>0, <2>1, <2>2, EvictRests
  <2> QED
    BY <1>6, <2>3 DEF CloseStream, Rests, exec
<1> QED
  BY <1>1, <1>2, <1>3, <1>4, <1>5, <1>6 DEF Environment

-----------------------------------------------------------------------------
(* The events of a sole executor                                           *)

\* The steps of a command that come before it executes anything.
Early == {"idle", "claiming", "queued"}

LEMMA EarlyBefore ==
    ASSUME TypeOK, CommandsOnce, [Next]_vars, \A i \in Instance : ~Crash(i)
    PROVE  \A j \in Instance, c \in Command : phase'[j][c] \in Early => phase[j][c] \in Early
<1>0. ExecOK /\ InboxOK
  BY TypeParts
<1>1. ASSUME NEW i \in Instance, Handle(i)
      PROVE  \A j \in Instance, c \in Command : phase'[j][c] \in Early => phase[j][c] \in Early
  <2>1. CASE OnCmdOwner(i) \/ OnCmdClaim(i)
    <3> DEFINE d == Head(inbox[i]).commandId
    <3>1. d \in Command /\ Receives(i, "cmd")
      BY <1>0, <2>1, ReceivesType, KindsOfMessage DEF OnCmdOwner, OnCmdClaim
    <3>2. phase[i][d] = "idle"
      <4>1. Carries(inbox[i], 1, d)
        BY <1>0, <3>1 DEF Receives, InboxOK, Carries
      <4> QED
        BY <3>1, <4>1 DEF CommandsOnce
    <3>3. PICK to \in Early : phase' = [phase EXCEPT ![i][d] = to]
      BY <2>1 DEF OnCmdOwner, OnCmdClaim, Early
    <3> HIDE DEF d
    <3> QED
      BY <1>0, <3>1, <3>2, <3>3 DEF ExecOK, Early
  <2>2. CASE ~OnCmdOwner(i) /\ ~OnCmdClaim(i)
    BY <1>1, <2>2 DEF Handle, OnCmdIgnored, OnOut, OnSysClaim, OnSysRelease, exec
  <2> QED
    BY <2>1, <2>2
<1>2. ASSUME NEW i \in Instance, NEW d \in Command, Proceed(i, d)
      PROVE  \A j \in Instance, c \in Command : phase'[j][c] \in Early => phase[j][c] \in Early
  <2>1. PICK to : /\ phase' = [phase EXCEPT ![i][d] = to]
                  /\ to \in Early => phase[i][d] \in Early
    <3>1. CASE Claimed(i, d)
      BY <3>1 DEF Claimed, Moves, Early
    <3>2. CASE BeginExecute(i, d) \/ FailExecute(i, d) \/ StartEval(i, d)
      BY <3>2 DEF BeginExecute, FailExecute, StartEval, Moves, Early
    <3>3. CASE EvalSettles(i, d) \/ Settle(i, d)
      BY <3>3 DEF EvalSettles, Settle, Early
    <3> QED
      BY <1>2, <3>1, <3>2, <3>3 DEF Proceed
  <2> QED
    BY <1>0, <2>1 DEF ExecOK
<1>3. ASSUME NEW i \in Instance, Environment(i) PROVE UNCHANGED phase
  BY <1>3 DEF Environment, Transmit, Dispatch, WriteOutput, Heartbeat, LeaseLapses, TtlFires,
              StrayTtlFires, OpenStream, CloseStream, Boot, exec
<1>4. CASE UNCHANGED vars
  BY <1>4 DEF vars, exec
<1> QED
  BY <1>1, <1>2, <1>3, <1>4, NextCases

LEMMA StillSole ==
    ASSUME TypeOK, CommandsOnce, Whole, [Next]_vars, NEW i \in Instance, SoleExecutor(i)'
    PROVE  /\ SoleExecutor(i) /\ \A j \in Instance : listening[j] = 3
           /\ \A k \in {"loss", "crash", "ttl", "fault"} : left'[k] = left[k]
           /\ \A j \in Instance : ~Crash(j) /\ ~Boot(j)
<1>1. Undisturbed'
  BY DEF SoleExecutor
<1>2. /\ Undisturbed /\ \A j \in Instance : listening[j] = 3
      /\ \A k \in {"loss", "crash"} : left'[k] = left[k]
      /\ \A j \in Instance : ~Crash(j) /\ ~Boot(j)
  BY <1>1, StillUndisturbed
<1>3. \A k \in {"ttl", "fault"} : left'[k] = left[k] /\ left[k] = Budget[k]
  <2>1. \A k \in {"ttl", "fault"} :
            left'[k] <= left[k] /\ left[k] <= Budget[k] /\ left'[k] = Budget[k]
    BY StepBudget DEF Whole, SoleExecutor, Kind
  <2>2. \A k \in {"ttl", "fault"} : left[k] \in Nat /\ Budget[k] \in Nat
    BY BoundsAssumption DEF TypeOK, Kind
  <2> QED
    BY <2>1, <2>2
<1>4. \A j \in Instance, c \in Command : phase'[j][c] \in Early => phase[j][c] \in Early
  BY <1>2, EarlyBefore
<1> QED
  BY <1>2, <1>3, <1>4 DEF SoleExecutor, Early

\* Each other instance stands where the events on their way to it begin, and they end
\* where i stands.  What it takes besides: an eviction, which starts the count again,
\* finds it at zero.
Numbered(i) ==
    /\ \A j \in Instance : j # i =>
           /\ \A n \in 1..Len(outbox[j]) : outbox[j][n].topic # "out"
           /\ CountsOn(inbox[j] \o outbox[i], state[j].nextId, state[i].nextId)
           /\ state[j].buffer = 0 => state[j].nextId = 0
    /\ \A n \in 1..Len(inbox[i]) :
           inbox[i][n].topic = "out" => inbox[i][n].event.id <= state[i].nextId
    /\ \A n \in 1..Len(outbox[i]) :
           outbox[i][n].topic = "out" => outbox[i][n].event.id <= state[i].nextId
    /\ state[i].session = None => state[i].nextId = 0
    /\ \A c \in Command : phase[i][c] \in Executing => state[i].session # None
    /\ \A j \in Instance : /\ \A n \in 1..Len(inbox[j]) : ~IsRelease(inbox[j][n])
                           /\ \A n \in 1..Len(outbox[j]) : ~IsRelease(outbox[j][n])

LEMMA ConcatTail ==
    ASSUME NEW s \in Seq(Message), NEW t \in Seq(Message), s # <<>>
    PROVE  /\ s \o t # <<>> /\ Head(s \o t) = Head(s) /\ Tail(s \o t) = Tail(s) \o t
OBVIOUS

LEMMA ConcatAppend ==
    ASSUME NEW s \in Seq(Message), NEW t \in Seq(Message), NEW x \in Message
    PROVE  s \o Append(t, x) = Append(s \o t, x)
OBVIOUS

LEMMA ConcatShift ==
    ASSUME NEW s \in Seq(Message), NEW t \in Seq(Message), t # <<>>
    PROVE  Append(s, Head(t)) \o Tail(t) = s \o t
OBVIOUS

LEMMA ConcatInsert ==
    ASSUME NEW s \in Seq(Message), NEW t \in Seq(Message), NEW x \in Message
    PROVE  /\ Len(Append(s, x) \o t) = Len(s \o t) + 1 /\ Len(s) \in 0..Len(s \o t)
           /\ \A k \in 1..Len(s) : (Append(s, x) \o t)[k] = (s \o t)[k]
           /\ (Append(s, x) \o t)[Len(s) + 1] = x
           /\ \A k \in (Len(s) + 1)..Len(s \o t) : (Append(s, x) \o t)[k + 1] = (s \o t)[k]
OBVIOUS

LEMMA TailPoint ==
    ASSUME NEW s \in Seq(Message), s # <<>>, NEW n \in 1..Len(Tail(s))
    PROVE  n + 1 \in 1..Len(s) /\ Tail(s)[n] = s[n + 1]
OBVIOUS

LEMMA AppendPoint ==
    ASSUME NEW s \in Seq(Message), NEW x, NEW n \in 1..Len(Append(s, x))
    PROVE  (n \in 1..Len(s) /\ Append(s, x)[n] = s[n]) \/ Append(s, x)[n] = x
OBVIOUS

\* A message at the end that is no event.
LEMMA CountsOnOther ==
    ASSUME NEW q \in Seq(Message), NEW x \in Message, NEW base, NEW top,
           CountsOn(q, base, top), x.topic # "out"
    PROVE  CountsOn(Append(q, x), base, top)
<1> DEFINE r == Append(q, x)
<1>1. /\ r \in Seq(Message) /\ Len(q) \in 0..Len(q) /\ Len(r) = Len(q) + 1
      /\ \A k \in 1..Len(q) : r[k] = q[k]
      /\ r[Len(q) + 1].topic # "out"
      /\ \A k \in (Len(q) + 1)..Len(q) : r[k + 1] = q[k]
  OBVIOUS
<1> HIDE DEF r
<1>2. CountsOn(r, base, top)
  BY <1>1, CountsOnInsert
<1> QED
  BY <1>2 DEF r

LEMMA RestsNumbered ==
    ASSUME TypeOK, NEW i \in Instance, Numbered(i), NEW k \in Instance, Rests(k)
    PROVE  Numbered(i)'
<1>0. /\ InboxOK /\ OutboxOK /\ state \in [Instance -> ChannelState]
      /\ \A j \in Instance : inbox[j] \in Seq(Message) /\ outbox[j] \in Seq(Message)
      /\ \A j \in Instance : state[j].nextId \in Nat
  BY TypeParts DEF TypeOK, ChannelState
<1>1. /\ \A j \in Instance : j # k => inbox'[j] = inbox[j]
      /\ \/ inbox'[k] = inbox[k]
         \/ /\ inbox[k] # <<>> /\ inbox'[k] = Tail(inbox[k])
            /\ Head(inbox[k]).topic # "out"
  BY <1>0, ReceivesEffect DEF Rests, Receives
<1>2. /\ \A j \in Instance : j # k => outbox'[j] = outbox[j]
      /\ \/ outbox'[k] = outbox[k]
         \/ \E x \in Message : /\ x.topic # "out" /\ ~IsRelease(x)
                               /\ outbox'[k] = Append(outbox[k], x)
  BY <1>0, PublishEffect DEF Rests
<1>3. ASSUME NEW j \in Instance, NEW n \in 1..Len(inbox'[j])
      PROVE  \E m \in 1..Len(inbox[j]) : inbox'[j][n] = inbox[j][m]
  <2>1. CASE inbox'[j] = inbox[j]
    BY <1>3, <2>1
  <2>2. CASE inbox[j] # <<>> /\ inbox'[j] = Tail(inbox[j])
    <3>1. n + 1 \in 1..Len(inbox[j]) /\ inbox'[j][n] = inbox[j][n + 1]
      BY <1>0, <2>2
    <3> QED
      BY <3>1
  <2> QED
    BY <1>1, <2>1, <2>2
<1>4. ASSUME NEW j \in Instance, NEW n \in 1..Len(outbox'[j])
      PROVE  \/ \E m \in 1..Len(outbox[j]) : outbox'[j][n] = outbox[j][m]
             \/ outbox'[j][n].topic # "out" /\ ~IsRelease(outbox'[j][n])
  <2>1. CASE outbox'[j] = outbox[j]
    BY <1>4, <2>1
  <2>2. ASSUME NEW x \in Message, x.topic # "out", ~IsRelease(x), outbox'[j] = Append(outbox[j], x)
        PROVE  \/ \E m \in 1..Len(outbox[j]) : outbox'[j][n] = outbox[j][m]
               \/ outbox'[j][n].topic # "out" /\ ~IsRelease(outbox'[j][n])
    <3>1. (n \in 1..Len(outbox[j]) /\ outbox'[j][n] = outbox[j][n]) \/ outbox'[j][n] = x
      BY <1>0, <1>4, <2>2
    <3> QED
      BY <2>2, <3>1
  <2> QED
    BY <1>2, <2>1, <2>2
<1>5. /\ \A j \in Instance : j # i => /\ state'[j].nextId = state[j].nextId
                                      /\ state'[j].buffer = 0 => state'[j].nextId = 0
      /\ state'[i].nextId = state[i].nextId /\ state'[i].session = state[i].session
  BY DEF Rests, Numbered
<1>6. ASSUME NEW j \in Instance, j # i
      PROVE  CountsOn(inbox'[j] \o outbox'[i], state[j].nextId, state[i].nextId)
  <2> DEFINE q == inbox[j] \o outbox[i]
  <2>1. q \in Seq(Message) /\ CountsOn(q, state[j].nextId, state[i].nextId)
    BY <1>0, <1>6 DEF Numbered
  <2>2. CASE inbox'[j] = inbox[j] /\ outbox'[i] = outbox[i]
    BY <2>1, <2>2
  <2>3. CASE /\ inbox[j] # <<>> /\ inbox'[j] = Tail(inbox[j]) /\ Head(inbox[j]).topic # "out"
             /\ outbox'[i] = outbox[i]
    <3>1. q # <<>> /\ Head(q) = Head(inbox[j]) /\ Tail(q) = inbox'[j] \o outbox'[i]
      <4>1. inbox[j] \in Seq(Message) /\ outbox[i] \in Seq(Message) /\ inbox[j] # <<>>
        BY <1>0, <2>3
      <4>2. Tail(q) = Tail(inbox[j]) \o outbox[i] /\ q # <<>> /\ Head(q) = Head(inbox[j])
        BY <4>1, ConcatTail
      <4> QED
        BY <2>3, <4>2
    <3> HIDE DEF q
    <3>2. CountsOn(Tail(q), state[j].nextId, state[i].nextId)
      BY <1>0, <2>1, <2>3, <3>1, CountsOnTail
    <3> QED
      BY <3>1, <3>2
  <2>4. ASSUME NEW x \in Message, x.topic # "out", inbox'[j] = inbox[j],
               outbox'[i] = Append(outbox[i], x)
        PROVE  CountsOn(inbox'[j] \o outbox'[i], state[j].nextId, state[i].nextId)
    <3>1. inbox'[j] \o outbox'[i] = Append(q, x)
      <4>1. inbox[j] \in Seq(Message) /\ outbox[i] \in Seq(Message)
        BY <1>0
      <4>2. inbox[j] \o Append(outbox[i], x) = Append(q, x)
        BY <4>1, ConcatAppend
      <4> QED
        BY <2>4, <4>2
    <3> HIDE DEF q
    <3> QED
      BY <2>1, <2>4, <3>1, CountsOnOther
  <2> QED
    BY <1>1, <1>2, <1>6, <2>2, <2>3, <2>4
<1>7. \A j \in Instance : j # i =>
          /\ \A n \in 1..Len(outbox'[j]) : outbox'[j][n].topic # "out"
          /\ CountsOn(inbox'[j] \o outbox'[i], state'[j].nextId, state'[i].nextId)
          /\ state'[j].buffer = 0 => state'[j].nextId = 0
  BY <1>4, <1>5, <1>6 DEF Numbered
<1>8. \A n \in 1..Len(inbox'[i]) :
          inbox'[i][n].topic = "out" => inbox'[i][n].event.id <= state'[i].nextId
  BY <1>3, <1>5 DEF Numbered
<1>9. \A n \in 1..Len(outbox'[i]) :
          outbox'[i][n].topic = "out" => outbox'[i][n].event.id <= state'[i].nextId
  BY <1>4, <1>5 DEF Numbered
<1>10. \A j \in Instance : /\ \A n \in 1..Len(inbox'[j]) : ~IsRelease(inbox'[j][n])
                           /\ \A n \in 1..Len(outbox'[j]) : ~IsRelease(outbox'[j][n])
  BY <1>3, <1>4 DEF Numbered
<1>11. \A c \in Command : phase'[i][c] \in Executing => state'[i].session # None
  BY <1>5 DEF Numbered, Rests
<1>12. state'[i].session = None => state'[i].nextId = 0
  BY <1>5 DEF Numbered
<1> QED
  BY <1>7, <1>8, <1>9, <1>10, <1>11, <1>12 DEF Numbered

LEMMA NumbersNumbered ==
    ASSUME TypeOK, NEW i \in Instance, Numbered(i), Numbers(i), state'[i].session # None
    PROVE  Numbered(i)'
<1>0. /\ InboxOK /\ OutboxOK /\ state \in [Instance -> ChannelState]
      /\ \A j \in Instance : inbox[j] \in Seq(Message) /\ outbox[j] \in Seq(Message)
      /\ \A j \in Instance : state[j].nextId \in Nat
  BY TypeParts DEF TypeOK, ChannelState
<1>1. PICK x \in Message : /\ x.topic = "out" /\ x.event.id = state[i].nextId + 1
                           /\ Publish(i, x)
  BY DEF Numbers
<1>2. /\ \A j \in Instance : j # i => outbox'[j] = outbox[j] /\ state'[j] = state[j]
      /\ outbox'[i] = Append(outbox[i], x) /\ UNCHANGED inbox
      /\ state'[i].nextId = state[i].nextId + 1 /\ ~IsRelease(x)
  BY <1>0, <1>1, PublishEffect DEF Numbers, IsRelease
<1>3. ASSUME NEW n \in 1..Len(outbox'[i])
      PROVE  (n \in 1..Len(outbox[i]) /\ outbox'[i][n] = outbox[i][n]) \/ outbox'[i][n] = x
  BY <1>0, <1>2, <1>3
<1>4. ASSUME NEW j \in Instance, j # i
      PROVE  /\ \A n \in 1..Len(outbox'[j]) : outbox'[j][n].topic # "out"
             /\ CountsOn(inbox'[j] \o outbox'[i], state'[j].nextId, state'[i].nextId)
             /\ state'[j].buffer = 0 => state'[j].nextId = 0
  <2> DEFINE q == inbox[j] \o outbox[i]
  <2>1. q \in Seq(Message) /\ CountsOn(q, state[j].nextId, state[i].nextId)
    BY <1>0, <1>4 DEF Numbered
  <2>2. inbox'[j] \o outbox'[i] = Append(q, x)
    <3>1. inbox[j] \in Seq(Message) /\ outbox[i] \in Seq(Message)
      BY <1>0
    <3>2. inbox[j] \o Append(outbox[i], x) = Append(q, x)
      BY <3>1, ConcatAppend
    <3> QED
      BY <1>2, <3>2
  <2> HIDE DEF q
  <2>3. CountsOn(Append(q, x), state[j].nextId, state[i].nextId + 1)
    BY <1>0, <1>1, <2>1, CountsOnNext
  <2> QED
    BY <1>2, <1>4, <2>2, <2>3 DEF Numbered
<1>5. \A n \in 1..Len(inbox'[i]) :
          inbox'[i][n].topic = "out" => inbox'[i][n].event.id <= state'[i].nextId
  <2>1. \A n \in 1..Len(inbox[i]) :
            inbox[i][n].topic = "out" => inbox[i][n].event.id \in Nat
    BY <1>0, KindsOfMessage DEF Event
  <2> QED
    BY <1>0, <1>2, <2>1 DEF Numbered
<1>6. \A n \in 1..Len(outbox'[i]) :
          outbox'[i][n].topic = "out" => outbox'[i][n].event.id <= state'[i].nextId
  <2>1. \A n \in 1..Len(outbox[i]) :
            outbox[i][n].topic = "out" => outbox[i][n].event.id \in Nat
    BY <1>0, KindsOfMessage DEF Event
  <2>2. state[i].nextId \in Nat /\ state'[i].nextId = state[i].nextId + 1
    BY <1>0, <1>2
  <2>3. \A n \in 1..Len(outbox[i]) :
            outbox[i][n].topic = "out" => outbox[i][n].event.id <= state[i].nextId
    BY DEF Numbered
  <2>4. ASSUME NEW n \in 1..Len(outbox'[i]), outbox'[i][n].topic = "out"
        PROVE  outbox'[i][n].event.id <= state'[i].nextId
    <3>1. CASE n \in 1..Len(outbox[i]) /\ outbox'[i][n] = outbox[i][n]
      <4>1. outbox[i][n].event.id \in Nat /\ outbox[i][n].event.id <= state[i].nextId
        BY <2>1, <2>3, <2>4, <3>1
      <4> QED
        BY <2>2, <3>1, <4>1
    <3>2. CASE outbox'[i][n] = x
      BY <1>1, <2>2, <3>2
    <3> QED
      BY <1>3, <2>4, <3>1, <3>2
  <2> QED
    BY <2>4
<1>7. \A j \in Instance : /\ \A n \in 1..Len(inbox'[j]) : ~IsRelease(inbox'[j][n])
                          /\ \A n \in 1..Len(outbox'[j]) : ~IsRelease(outbox'[j][n])
  <2> SUFFICES ASSUME NEW j \in Instance
               PROVE  /\ \A n \in 1..Len(inbox'[j]) : ~IsRelease(inbox'[j][n])
                      /\ \A n \in 1..Len(outbox'[j]) : ~IsRelease(outbox'[j][n])
    OBVIOUS
  <2>1. CASE j = i
    BY <1>2, <1>3, <2>1 DEF Numbered
  <2>2. CASE j # i
    BY <1>2, <2>2 DEF Numbered
  <2> QED
    BY <2>1, <2>2
<1>8. /\ state'[i].session = None => state'[i].nextId = 0
      /\ \A c \in Command : phase'[i][c] \in Executing => state'[i].session # None
  OBVIOUS
<1> QED
  BY <1>4, <1>5, <1>6, <1>7, <1>8 DEF Numbered

LEMMA OnOutNumbered ==
    ASSUME TypeOK, ReplayBufferSize > 0, NEW i \in Instance, Numbered(i),
           NEW k \in Instance, OnOut(k)
    PROVE  Numbered(i)'
<1>0. /\ InboxOK /\ MapOK /\ state \in [Instance -> ChannelState]
      /\ \A j \in Instance : inbox[j] \in Seq(Message) /\ outbox[j] \in Seq(Message)
      /\ \A j \in Instance : state[j].nextId \in Nat /\ state[j].buffer \in Nat
  BY TypeParts DEF TypeOK, ChannelState
<1> DEFINE id == Head(inbox[k]).event.id
           st == [state[k] EXCEPT !.nextId = IF id > @ THEN id ELSE @, !.buffer = Pushed(@)]
<1>1. /\ \A j \in Instance : j # k => inbox'[j] = inbox[j] /\ state'[j] = state[j]
      /\ inbox[k] # <<>> /\ inbox'[k] = Tail(inbox[k]) /\ Head(inbox[k]).topic = "out"
      /\ UNCHANGED <<outbox, phase>> /\ state'[k] = st
  <2>1. Receives(k, "out") /\ Keep(k, st) /\ UNCHANGED <<outbox, phase>>
    BY DEF OnOut, exec
  <2>2. /\ \A j \in Instance : j # k => inbox'[j] = inbox[j]
        /\ inbox[k] # <<>> /\ inbox'[k] = Tail(inbox[k]) /\ Head(inbox[k]).topic = "out"
    BY <1>0, <2>1, ReceivesEffect DEF Receives
  <2>3. state'[k] = st /\ \A j \in Instance : j # k => state'[j] = state[j]
    BY <1>0, <2>1, KeepEffect
  <2> QED
    BY <2>1, <2>2, <2>3
<1>2. id \in Nat
  BY <1>0, <1>1, ReceivesType, KindsOfMessage DEF OnOut, Event
<1>3. /\ state'[k].nextId = IF id > state[k].nextId THEN id ELSE state[k].nextId
      /\ state'[k].session = state[k].session /\ state'[k].buffer > 0
  <2>1. Pushed(state[k].buffer) > 0
    BY <1>0, BoundsAssumption DEF Pushed
  <2> QED
    BY <1>0, <1>1, <2>1 DEF ChannelState
<1> HIDE DEF id, st
<1>4. ASSUME NEW j \in Instance, NEW n \in 1..Len(inbox'[j])
      PROVE  \E m \in 1..Len(inbox[j]) : inbox'[j][n] = inbox[j][m]
  <2>1. CASE j # k
    BY <1>1, <1>4, <2>1
  <2>2. CASE j = k
    <3>1. n + 1 \in 1..Len(inbox[j]) /\ inbox'[j][n] = inbox[j][n + 1]
      <4>1. /\ inbox[j] \in Seq(Message) /\ inbox[j] # <<>> /\ inbox'[j] = Tail(inbox[j])
        BY <1>0, <1>1, <2>2
      <4>2. n \in 1..Len(Tail(inbox[j]))
        BY <1>4, <4>1
      <4> QED
        BY <4>1, <4>2, TailPoint
    <3> QED
      BY <3>1
  <2> QED
    BY <2>1, <2>2
<1>5. state'[i].nextId = state[i].nextId /\ state'[i].session = state[i].session
  <2>1. CASE k = i
    <3>1. 1 \in 1..Len(inbox[i]) /\ inbox[i][1] = Head(inbox[i])
      BY <1>0, <1>1, <2>1
    <3>2. id <= state[i].nextId
      BY <1>1, <2>1, <3>1 DEF Numbered, id
    <3> QED
      BY <1>0, <1>2, <1>3, <2>1, <3>2
  <2>2. CASE k # i
    BY <1>1, <2>2
  <2> QED
    BY <2>1, <2>2
<1>6. ASSUME NEW j \in Instance, j # i
      PROVE  /\ \A n \in 1..Len(outbox'[j]) : outbox'[j][n].topic # "out"
             /\ CountsOn(inbox'[j] \o outbox'[i], state'[j].nextId, state[i].nextId)
             /\ state'[j].buffer = 0 => state'[j].nextId = 0
  <2> DEFINE q == inbox[j] \o outbox[i]
  <2>1. q \in Seq(Message) /\ CountsOn(q, state[j].nextId, state[i].nextId)
    BY <1>0, <1>6 DEF Numbered
  <2>2. CASE j # k
    BY <1>1, <1>6, <2>1, <2>2 DEF Numbered
  <2>3. CASE j = k
    <3>1. q # <<>> /\ Head(q) = Head(inbox[j]) /\ Tail(q) = inbox'[j] \o outbox'[i]
      <4>1. /\ inbox[j] \in Seq(Message) /\ outbox[i] \in Seq(Message) /\ inbox[j] # <<>>
            /\ inbox'[j] = Tail(inbox[j]) /\ outbox'[i] = outbox[i]
        BY <1>0, <1>1, <2>3
      <4>2. Tail(q) = Tail(inbox[j]) \o outbox[i] /\ q # <<>> /\ Head(q) = Head(inbox[j])
        BY <4>1, ConcatTail
      <4> QED
        BY <4>1, <4>2
    <3> HIDE DEF q
    <3>2. /\ Head(q).event.id = state[j].nextId + 1
          /\ CountsOn(Tail(q), Head(q).event.id, state[i].nextId)
      BY <1>0, <1>1, <2>1, <2>3, <3>1, CountsOnTail
    <3>3. state'[j].nextId = Head(q).event.id
      BY <1>0, <1>3, <2>3, <3>1, <3>2 DEF id
    <3>4. CountsOn(inbox'[j] \o outbox'[i], state'[j].nextId, state[i].nextId)
      BY <3>1, <3>2, <3>3
    <3>5. \A n \in 1..Len(outbox'[j]) : outbox'[j][n].topic # "out"
      BY <1>1, <1>6 DEF Numbered
    <3>6. state'[j].buffer = 0 => state'[j].nextId = 0
      <4>1. state'[j].buffer # 0
        BY <1>3, <2>3
      <4> QED
        BY <4>1
    <3> QED
      BY <3>4, <3>5, <3>6
  <2> QED
    BY <2>2, <2>3
<1>7. \A n \in 1..Len(inbox'[i]) :
          inbox'[i][n].topic = "out" => inbox'[i][n].event.id <= state'[i].nextId
  BY <1>4, <1>5 DEF Numbered
<1>8. \A j \in Instance : \A n \in 1..Len(inbox'[j]) : ~IsRelease(inbox'[j][n])
  BY <1>4 DEF Numbered
<1>9. \A j \in Instance : j # i =>
          /\ \A n \in 1..Len(outbox'[j]) : outbox'[j][n].topic # "out"
          /\ CountsOn(inbox'[j] \o outbox'[i], state'[j].nextId, state'[i].nextId)
          /\ state'[j].buffer = 0 => state'[j].nextId = 0
  BY <1>5, <1>6
<1>10. /\ \A n \in 1..Len(outbox'[i]) :
              outbox'[i][n].topic = "out" => outbox'[i][n].event.id <= state'[i].nextId
       /\ state'[i].session = None => state'[i].nextId = 0
       /\ \A c \in Command : phase'[i][c] \in Executing => state'[i].session # None
       /\ \A j \in Instance : \A n \in 1..Len(outbox'[j]) : ~IsRelease(outbox'[j][n])
  BY <1>1, <1>5 DEF Numbered
<1> QED
  BY <1>7, <1>8, <1>9, <1>10 DEF Numbered

LEMMA TransmitNumbered ==
    ASSUME TypeOK, NEW i \in Instance, Numbered(i), NEW k \in Instance, Transmit(k),
           \A j \in Instance : listening[j] = 3, left'["loss"] = left["loss"]
    PROVE  Numbered(i)'
<1> DEFINE x == Head(outbox[k])
<1>0. /\ \A j \in Instance : inbox[j] \in Seq(Message) /\ outbox[j] \in Seq(Message)
      /\ \A j \in Instance : state[j].nextId \in Nat
  BY DEF TypeOK, ChannelState
<1>1. /\ outbox[k] # <<>> /\ x \in Message /\ outbox'[k] = Tail(outbox[k])
      /\ \A j \in Instance : j # k => outbox'[j] = outbox[j]
      /\ \A j \in Instance : inbox'[j] = Append(inbox[j], x)
      /\ UNCHANGED phase
  BY TransmitReachesAll
<1>2. UNCHANGED state
  BY DEF Transmit, map
<1>3. x = outbox[k][1] /\ 1 \in 1..Len(outbox[k]) /\ ~IsRelease(x)
  BY <1>0, <1>1 DEF Numbered
<1>4. ASSUME NEW j \in Instance, NEW n \in 1..Len(inbox'[j])
      PROVE  (n \in 1..Len(inbox[j]) /\ inbox'[j][n] = inbox[j][n]) \/ inbox'[j][n] = x
  <2>1. inbox[j] \in Seq(Message) /\ inbox'[j] = Append(inbox[j], x)
    BY <1>0, <1>1
  <2> HIDE DEF x
  <2>2. n \in 1..Len(Append(inbox[j], x))
    BY <1>4, <2>1
  <2> QED
    BY <2>1, <2>2, AppendPoint
<1>5. ASSUME NEW j \in Instance, NEW n \in 1..Len(outbox'[j])
      PROVE  \E m \in 1..Len(outbox[j]) : outbox'[j][n] = outbox[j][m]
  <2>1. CASE j # k
    BY <1>1, <1>5, <2>1
  <2>2. CASE j = k
    <3>1. n + 1 \in 1..Len(outbox[j]) /\ outbox'[j][n] = outbox[j][n + 1]
      <4>1. /\ outbox[j] \in Seq(Message) /\ outbox[j] # <<>> /\ outbox'[j] = Tail(outbox[j])
        BY <1>0, <1>1, <2>2
      <4>2. n \in 1..Len(Tail(outbox[j]))
        BY <1>5, <4>1
      <4> QED
        BY <4>1, <4>2, TailPoint
    <3> QED
      BY <3>1
  <2> QED
    BY <2>1, <2>2
<1>6. ASSUME NEW j \in Instance, j # i
      PROVE  CountsOn(inbox'[j] \o outbox'[i], state[j].nextId, state[i].nextId)
  <2> DEFINE q == inbox[j] \o outbox[i]
             r == inbox'[j] \o outbox'[i]
  <2>1. q \in Seq(Message) /\ CountsOn(q, state[j].nextId, state[i].nextId)
    BY <1>0, <1>6 DEF Numbered
  <2>2. CASE k = i
    <3>1. r = q
      BY <1>0, <1>1, <2>2, ConcatShift
    <3> QED
      BY <2>1, <3>1
  <2>3. CASE k # i
    <3>1. x.topic # "out"
      BY <1>3, <2>3 DEF Numbered
    <3>0. inbox[j] \in Seq(Message) /\ outbox[i] \in Seq(Message) /\ x \in Message
      BY <1>0, <1>1
    <3> HIDE DEF x
    <3>2. r = Append(inbox[j], x) \o outbox[i] /\ r \in Seq(Message)
      <4>1. inbox'[j] = Append(inbox[j], x) /\ outbox'[i] = outbox[i]
        BY <1>1, <2>3
      <4> QED
        BY <3>0, <4>1
    <3> HIDE DEF q, r
    <3>3. /\ Len(r) = Len(q) + 1 /\ Len(inbox[j]) \in 0..Len(q)
          /\ \A l \in 1..Len(inbox[j]) : r[l] = q[l]
          /\ r[Len(inbox[j]) + 1] = x
          /\ \A l \in (Len(inbox[j]) + 1)..Len(q) : r[l + 1] = q[l]
      <4> DEFINE a == inbox[j]
                 b == outbox[i]
      <4>1. a \in Seq(Message) /\ b \in Seq(Message) /\ q = a \o b /\ r = Append(a, x) \o b
        BY <3>0, <3>2 DEF q
      <4> HIDE DEF a, b
      <4>2. /\ Len(Append(a, x) \o b) = Len(a \o b) + 1 /\ Len(a) \in 0..Len(a \o b)
            /\ \A l \in 1..Len(a) : (Append(a, x) \o b)[l] = (a \o b)[l]
            /\ (Append(a, x) \o b)[Len(a) + 1] = x
            /\ \A l \in (Len(a) + 1)..Len(a \o b) : (Append(a, x) \o b)[l + 1] = (a \o b)[l]
        BY <3>0, <4>1, ConcatInsert
      <4>3. /\ Len(r) = Len(q) + 1 /\ Len(a) \in 0..Len(q)
            /\ \A l \in 1..Len(a) : r[l] = q[l]
            /\ r[Len(a) + 1] = x
            /\ \A l \in (Len(a) + 1)..Len(q) : r[l + 1] = q[l]
        BY <4>1, <4>2, Zenon
      <4> QED
        BY <4>3 DEF a
    <3>4. CountsOn(r, state[j].nextId, state[i].nextId)
      <4>1. PICK L \in 0..Len(q) : /\ \A l \in 1..L : r[l] = q[l]
                                  /\ r[L + 1].topic # "out"
                                  /\ \A l \in (L + 1)..Len(q) : r[l + 1] = q[l]
        BY <3>1, <3>3
      <4>2. q \in Seq(Message) /\ r \in Seq(Message) /\ Len(r) = Len(q) + 1
        BY <2>1, <3>2, <3>3
      <4> QED
        BY <2>1, <4>1, <4>2, CountsOnInsert
    <3> QED
      BY <3>4 DEF r
  <2> QED
    BY <2>2, <2>3
<1>7. \A j \in Instance : j # i =>
          /\ \A n \in 1..Len(outbox'[j]) : outbox'[j][n].topic # "out"
          /\ CountsOn(inbox'[j] \o outbox'[i], state'[j].nextId, state'[i].nextId)
          /\ state'[j].buffer = 0 => state'[j].nextId = 0
  BY <1>2, <1>5, <1>6 DEF Numbered
<1>8. \A n \in 1..Len(inbox'[i]) :
          inbox'[i][n].topic = "out" => inbox'[i][n].event.id <= state'[i].nextId
  <2>1. x.topic = "out" => x.event.id <= state[i].nextId
    BY <1>3 DEF Numbered
  <2> QED
    BY <1>2, <1>4, <2>1 DEF Numbered
<1>9. \A n \in 1..Len(outbox'[i]) :
          outbox'[i][n].topic = "out" => outbox'[i][n].event.id <= state'[i].nextId
  BY <1>2, <1>5 DEF Numbered
<1>10. \A j \in Instance : /\ \A n \in 1..Len(inbox'[j]) : ~IsRelease(inbox'[j][n])
                           /\ \A n \in 1..Len(outbox'[j]) : ~IsRelease(outbox'[j][n])
  BY <1>3, <1>4, <1>5 DEF Numbered
<1>11. /\ state'[i].session = None => state'[i].nextId = 0
       /\ \A c \in Command : phase'[i][c] \in Executing => state'[i].session # None
  BY <1>1, <1>2 DEF Numbered
<1> QED
  BY <1>7, <1>8, <1>9, <1>10, <1>11 DEF Numbered

Numbering == ReplayBufferSize > 0 => \A i \in Instance : SoleExecutor(i) => Numbered(i)

LEMMA InitNumbering == Init => Numbering
<1> SUFFICES ASSUME Init, NEW i \in Instance PROVE Numbered(i)
  BY DEF Numbering
<1>1. \A j \in Instance : inbox[j] = <<>> /\ outbox[j] = <<>> /\ state[j] = NewChannelState
  BY DEF Init
<1>2. CountsOn(<<>> \o <<>>, 0, 0)
  <2>1. <<>> \o <<>> = <<>>
    OBVIOUS
  <2> QED
    BY <2>1 DEF CountsOn, IdAt
<1>3. \A c \in Command : phase[i][c] \notin Executing
  BY DEF Init, Executing
<1>4. \A j \in Instance : state[j].nextId = 0
  BY <1>1 DEF NewChannelState
<1>5. ASSUME NEW j \in Instance
      PROVE  CountsOn(inbox[j] \o outbox[i], state[j].nextId, state[i].nextId)
  <2>1. inbox[j] = <<>> /\ outbox[i] = <<>> /\ state[j].nextId = 0 /\ state[i].nextId = 0
    BY <1>1, <1>4
  <2> QED
    BY <1>2, <2>1
<1>6. \A j \in Instance : Len(inbox[j]) = 0 /\ Len(outbox[j]) = 0
  BY <1>1
<1> QED
  BY <1>3, <1>4, <1>5, <1>6 DEF Numbered

LEMMA NextNumbering ==
    ASSUME TypeOK, CommandsOnce, Whole, Numbering, [Next]_vars
    PROVE  Numbering'
<1> SUFFICES ASSUME ReplayBufferSize > 0, NEW i \in Instance, SoleExecutor(i)'
             PROVE  Numbered(i)'
  BY DEF Numbering
<1>0. LeftOK
  BY TypeParts
<1>1. /\ SoleExecutor(i) /\ \A j \in Instance : listening[j] = 3
      /\ \A k \in {"loss", "crash", "ttl", "fault"} : left'[k] = left[k]
      /\ \A j \in Instance : ~Crash(j) /\ ~Boot(j)
  BY StillSole
<1>2. Numbered(i)
  BY <1>1 DEF Numbering
<1>3. ~Spend("ttl") /\ ~Spend("fault")
  BY <1>0, <1>1, SpendFalls DEF LeftOK, Kind
<1>4. CASE UNCHANGED vars
  <2>1. UNCHANGED <<state, phase, inbox, outbox>>
    BY <1>4 DEF vars, map, exec
  <2> QED
    BY <1>2, <2>1 DEF Numbered
<1>5. ASSUME NEW k \in Instance, Handle(k) PROVE Numbered(i)'
  <2>1. ~OnSysRelease(k)
    <3>1. ASSUME OnSysRelease(k) PROVE FALSE
      <4>1. inbox[k] \in Seq(Message) /\ inbox[k] # <<>> /\ Head(inbox[k]) = inbox[k][1]
        BY <3>1 DEF OnSysRelease, Receives, TypeOK
      <4>2. 1 \in 1..Len(inbox[k]) /\ IsRelease(inbox[k][1])
        BY <3>1, <4>1 DEF OnSysRelease, Receives, IsRelease
      <4> QED
        BY <1>2, <4>2 DEF Numbered
    <3> QED
      BY <3>1
  <2> QED
    BY <1>2, <1>5, <2>1, HandleRests, RestsNumbered, OnOutNumbered
<1>6. ASSUME NEW k \in Instance, NEW c \in Command, Proceed(k, c) PROVE Numbered(i)'
  <2>1. CASE Rests(k)
    BY <1>2, <2>1, RestsNumbered
  <2>2. CASE Numbers(k) /\ BeginExecute(k, c) /\ state'[k].session # None
    <3>1. phase'[k][c] = "echoing"
      BY <2>2 DEF BeginExecute, Moves, TypeOK
    <3>2. k = i
      BY <3>1 DEF SoleExecutor
    <3> QED
      BY <1>2, <2>2, <3>2, NumbersNumbered
  <2>3. CASE Numbers(k) /\ EvalSettles(k, c) /\ state'[k].session = state[k].session
    <3>1. phase[k][c] \in {"evaluating", "skipped"}
      BY <2>3 DEF EvalSettles
    <3>2. k = i
      BY <1>1, <3>1 DEF SoleExecutor
    <3>3. state'[i].session # None
      BY <1>2, <2>3, <3>1, <3>2 DEF Numbered, Executing
    <3> QED
      BY <1>2, <2>3, <3>2, <3>3, NumbersNumbered
  <2>4. ~FailExecute(k, c)
    BY <1>3 DEF FailExecute
  <2> QED
    BY <1>6, <2>1, <2>2, <2>3, <2>4, ProceedNumbers
<1>7. ASSUME NEW k \in Instance, Environment(k) PROVE Numbered(i)'
  <2>1. CASE Transmit(k)
    BY <1>1, <1>2, <2>1, TransmitNumbered
  <2>2. ~TtlFires(k) /\ ~StrayTtlFires(k)
    BY <1>3 DEF TtlFires, StrayTtlFires
  <2>3. CASE Rests(k)
    BY <1>2, <2>3, RestsNumbered
  <2>4. CASE /\ Numbers(k) /\ state'[k].session = state[k].session /\ state[k].session # None
             /\ \E c \in Command : phase[k][c] \in {"evaluating", "finishing", "settled"}
    <3>1. k = i
      BY <1>1, <2>4 DEF SoleExecutor
    <3> QED
      BY <1>2, <2>4, <3>1, NumbersNumbered
  <2> QED
    BY <1>1, <1>7, <2>1, <2>2, <2>3, <2>4, EnvironmentRests
<1> QED
  BY <1>4, <1>5, <1>6, <1>7, NextCases

LEMMA NumberedContinues ==
    ASSUME TypeOK, Numbering
    PROVE  IdsContinue
<1>1. ASSUME NEW i \in Instance, NEW j \in Instance, SoleExecutor(i), i # j,
             ReplayBufferSize > 0
      PROVE  CountsOn(inbox[j] \o outbox[i], state[j].nextId, state[i].nextId)
  BY <1>1 DEF Numbering, Numbered
<1>2. ASSUME NEW q, NEW base, NEW top, CountsOn(q, base, top),
             NEW n \in 1..Len(q), NEW m \in 0..Len(q),
             q[n].topic = "out", LastBefore(q, "out", n, m)
      PROVE  q[n].event.id = 1 + IF m = 0 THEN base ELSE q[m].event.id
  BY <1>2 DEF CountsOn, IdAt
<1>3. ASSUME NEW i \in Instance, NEW j \in Instance, SoleExecutor(i), i # j,
             ReplayBufferSize > 0
      PROVE  LET coming == inbox[j] \o outbox[i]
             IN \A n \in 1..Len(coming), m \in 0..Len(coming) :
                    coming[n].topic = "out" /\ LastBefore(coming, "out", n, m) =>
                        coming[n].event.id =
                            1 + IF m = 0 THEN state[j].nextId ELSE coming[m].event.id
  <2> DEFINE q == inbox[j] \o outbox[i]
  <2>1. CountsOn(q, state[j].nextId, state[i].nextId)
    BY <1>1, <1>3
  <2> HIDE DEF q
  <2>2. \A n \in 1..Len(q), m \in 0..Len(q) :
            q[n].topic = "out" /\ LastBefore(q, "out", n, m) =>
                q[n].event.id = 1 + IF m = 0 THEN state[j].nextId ELSE q[m].event.id
    BY <1>2, <2>1
  <2> QED
    BY <2>2 DEF q
<1> QED
  BY <1>3 DEF IdsContinue

-----------------------------------------------------------------------------
(* The theorems                                                            *)

\* The inductive invariant: that of the executors, and what an undisturbed fleet
\* agrees on through the messages in transit.
FleetInv == IInv /\ Whole /\ (Undisturbed => Agreement /\ Acceptance) /\ Numbering

\* Every state of the fleet satisfies it.
THEOREM FleetInvariance == Spec => []FleetInv
<1>1. Init => Whole /\ Agreement /\ Acceptance /\ Numbering
  BY InitWhole, InitAgreement, InitAcceptance, InitNumbering
<1>2. IInv /\ Whole /\ (Undisturbed => Agreement /\ Acceptance) /\ Numbering /\ [Next]_vars
          => Whole' /\ (Undisturbed => Agreement /\ Acceptance)' /\ Numbering'
  <2> SUFFICES ASSUME IInv, Whole, Undisturbed => Agreement /\ Acceptance, Numbering, [Next]_vars
               PROVE  Whole' /\ (Undisturbed => Agreement /\ Acceptance)' /\ Numbering'
    OBVIOUS
  <2>1. TypeOK /\ CommandsOnce
    BY DEF IInv
  <2>2. Whole'
    BY <2>1, NextWhole
  <2>3. Undisturbed' => Agreement' /\ Acceptance'
    BY <2>1, NextAgreement, NextAcceptance
  <2>4. Numbering'
    BY <2>1, NextNumbering
  <2> QED
    BY <2>2, <2>3, <2>4
<1> QED
  BY <1>1, <1>2, Invariance, PTL DEF Spec, FleetInv

\* In a fleet that loses no message and no process all instances name the same owner
\* once no claim or release is under way, for any number of instances and of claims,
\* releases, heartbeats and evictions that raced (322-376, 483-541).
THEOREM OwnersAgree == Spec => []OwnershipAgreed
<1>1. FleetInv => OwnershipAgreed
  <2> SUFFICES ASSUME FleetInv, Undisturbed, Quiet("sys"), NEW i \in Instance, NEW j \in Instance
               PROVE  ownership[i] = ownership[j]
    BY DEF OwnershipAgreed
  <2>1. PICK v \in Instance \cup {None} : AgreeOn(v)
    BY DEF FleetInv, Agreement
  <2>2. ASSUME NEW k \in Instance PROVE ownership[k] = v
    <3>1. ~Announces(k)
      BY DEF Announces, Quiet
    <3>2. inbox[k] \in Seq(Message)
      BY DEF FleetInv, IInv, TypeOK
    <3>3. LastBefore(inbox[k], "sys", Len(inbox[k]) + 1, 0) /\ 0 \in 0..Len(inbox[k])
      BY <3>2 DEF LastBefore, Quiet
    <3> QED
      BY <2>1, <3>1, <3>3 DEF AgreeOn, OwnerAfter
  <2> QED
    BY <2>2
<1> QED
  BY <1>1, FleetInvariance, PTL

\* In such a fleet no command falls between the instances, although each of them
\* decides alone, on its own record of the owner, whether to take it (322-344).
THEOREM NoCommandIsDropped == Spec => []EveryCommandAccepted
<1>1. FleetInv => EveryCommandAccepted
  <2> SUFFICES ASSUME FleetInv, Undisturbed, NEW c \in Command, Unaccepted(c)
               PROVE  \E i \in Instance :
                          InTransit([topic |-> "cmd", commandId |-> c, originInstanceId |-> i,
                                     awaited |-> None])
    BY DEF EveryCommandAccepted, Unaccepted
  <2>0. /\ \A i \in Instance : outbox[i] \in Seq(Message) /\ inbox[i] \in Seq(Message)
    BY DEF FleetInv, IInv, TypeOK
  <2>1. ASSUME NEW q \in Seq(Message), NEW n \in Nat, Carries(q, n, c)
        PROVE  \E i \in Instance : q[n] = [topic |-> "cmd", commandId |-> c,
                                           originInstanceId |-> i, awaited |-> None]
    <3>1. q[n] \in Message /\ q[n].topic = "cmd" /\ q[n].commandId = c
      BY <2>1 DEF Carries
    <3>2. q[n] \in CmdMessage
      BY <3>1 DEF Message, OutMessage, SysMessage
    <3> QED
      BY <3>1, <3>2 DEF CmdMessage
  <2>2. CASE Posted(c)
    <3>1. PICK i \in Instance, n \in Nat : Carries(outbox[i], n, c)
      BY <2>2 DEF Posted
    <3> QED
      BY <2>0, <2>1, <3>1 DEF InTransit, Carries
  <2>3. CASE ~Posted(c)
    <3>1. PICK v \in Instance \cup {None}, o \in Instance : Awaited(c, v, o)
      BY <2>3 DEF FleetInv, Acceptance
    <3>2. \E j \in Instance : ~NotInInbox(j, c)
      BY <3>1 DEF Awaited
    <3>3. PICK j \in Instance, n \in Nat : Carries(inbox[j], n, c)
      BY <3>2 DEF NotInInbox
    <3> QED
      BY <2>0, <2>1, <3>3 DEF InTransit, Carries
  <2> QED
    BY <2>2, <2>3
<1> QED
  BY <1>1, FleetInvariance, PTL

\* Where one instance has executed everything and nothing failed or was released, every
\* other one hears its events numbered without a gap from where it stands, so that it
\* goes on from the highest id if it becomes the owner (464-478).
THEOREM IdsAreContinued == Spec => []IdsContinue
<1>1. FleetInv => IdsContinue
  BY NumberedContinues DEF FleetInv, IInv
<1> QED
  BY <1>1, FleetInvariance, PTL

===============================================================================
