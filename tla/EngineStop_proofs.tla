-------------------------- MODULE EngineStop_proofs --------------------------
(***************************************************************************)
(* What commands and streams captured, what the states count, that stop()  *)
(* closes every session, and that the chain of every state implements      *)
(* SerialQueue, proved for any number of commands, streams and timers.     *)
(*                                                                         *)
(* The invariant of the ChannelStates is stated of a map entry and of the  *)
(* objects, since getChannel() may change both before the handler that     *)
(* calls it goes on: StatesOK(channel, state) is what holds in each state, *)
(* and StatesOK(Mapped, Looked) what a handler finds.                      *)
(***************************************************************************)
EXTENDS EngineStop, FiniteSetTheorems, TLAPS

-----------------------------------------------------------------------------
(* The inductive invariant                                                 *)

\* A command that was not dispatched has done nothing, and one that was not handled
\* has no state.
CommandsOK ==
    /\ \A c \in Command : c \notin posted => phase[c] = "idle"
    /\ \A c \in Command : phase[c] = "idle" <=> at[c] = None

\* A command is on its way once, and not handled yet.
BusOK ==
    \A n \in 1..Len(bus) : bus[n].topic = "cmd" =>
        /\ bus[n].commandId \in posted /\ phase[bus[n].commandId] = "idle"
        /\ \A m \in 1..Len(bus) :
               bus[m].topic = "cmd" /\ bus[m].commandId = bus[n].commandId => m = n

StreamsOK == \A s \in Stream : Attached(s) => on[s] # None

\* A command is in the queue of its state until it settles, at the head once it runs.
QueuesOK(st) ==
    \A c \in Command : InFlight(c) /\ phase[c] # "claiming" =>
        \E n \in 1..Len(st[at[c]].execQueue) :
            st[at[c]].execQueue[n] = c /\ (phase[c] # "queued" => n = 1)

Holders(o) == {c \in Command : InFlight(c) /\ at[c] = o}

CountsOK(st) == \A o \in Object : st[o].pending = Cardinality(Holders(o))

\* Sessions and timers are made for commands.
MadeOK(st) ==
    \A o \in Object : st[o].session # None \/ st[o].ttlTimer => \E c \in Command : at[c] = o

\* The subscriptions of the map's state.
Attachments == {s \in Stream : Attached(s)}

\* Until stop() everything hangs on the map's entry.
MapOK(entry, st) ==
    ~stopped =>
        /\ \A c \in Command : InFlight(c) => at[c] = entry
        /\ \A s \in Stream : Attached(s) => on[s] = entry
        /\ entry = None => open = {}
        /\ entry # None => /\ open \subseteq {st[entry].session}
                           /\ st[entry].subscriberCount = Cardinality(Attachments)

StatesOK(entry, st) ==
    /\ st \in [Object -> ChannelState]
    /\ QueuesOK(st) /\ CountsOK(st) /\ MadeOK(st) /\ MapOK(entry, st)

IInv == TypeOK /\ CommandsOK /\ BusOK /\ StreamsOK /\ StatesOK(channel, state)

-----------------------------------------------------------------------------
(* There is always an object to spare                                      *)

LEMMA FreshExists ==
    ASSUME IInv, channel = None
    PROVE  Fresh \in Object /\ Unreferenced(Fresh)
<1> DEFINE ats == {at[c] : c \in Command}
           ons == {on[s] : s \in Stream}
<1>0. /\ at \in [Command -> Object \cup {None}] /\ on \in [Stream -> Object \cup {None}]
      /\ IsFiniteSet(Command) /\ IsFiniteSet(Stream) /\ None \notin Object
  BY ObjectAssumption, StopAssumption DEF IInv, TypeOK
<1>1. IsFiniteSet(ats) /\ Cardinality(ats) <= Cardinality(Command)
  <2>1. at \in Surjection(Command, ats)
    BY <1>0 DEF Surjection
  <2> QED
    BY <1>0, <2>1, FS_Surjection
<1>2. IsFiniteSet(ons) /\ Cardinality(ons) <= Cardinality(Stream)
  <2>1. on \in Surjection(Stream, ons)
    BY <1>0 DEF Surjection
  <2> QED
    BY <1>0, <2>1, FS_Surjection
<1>3. \E o \in Object : o \notin ats \cup ons
  <2>1. SUFFICES ASSUME Object \subseteq ats \cup ons PROVE FALSE
    OBVIOUS
  <2> HIDE DEF ats, ons
  <2>2. /\ IsFiniteSet(ats \cup ons) /\ IsFiniteSet(ats \cap ons)
        /\ Cardinality(ats \cup ons) = Cardinality(ats) + Cardinality(ons)
                                        - Cardinality(ats \cap ons)
    <3>1. IsFiniteSet(ats \cap ons)
      BY <1>1, FS_Subset
    <3> QED
      BY <1>1, <1>2, <3>1, FS_Union
  <2>3. Cardinality(Object) <= Cardinality(ats \cup ons)
    BY <2>1, <2>2, FS_Subset
  <2>4. /\ Cardinality(ats) \in Nat /\ Cardinality(ons) \in Nat /\ Cardinality(ats \cap ons) \in Nat
        /\ Cardinality(Command) \in Nat /\ Cardinality(Stream) \in Nat
        /\ Cardinality(Object) \in Nat
    BY <1>0, <1>1, <1>2, <2>2, ObjectAssumption, FS_CardinalityType
  <2> QED
    BY <1>1, <1>2, <2>2, <2>3, <2>4, ObjectAssumption
<1>4. PICK o \in Object : o \notin ats \cup ons
  BY <1>3
<1>5. Unreferenced(o)
  <2>1. o # None /\ (\A c \in Command : at[c] # o) /\ \A s \in Stream : on[s] # o
    BY <1>0, <1>4
  <2>2. state[o].session = None /\ ~state[o].ttlTimer
    BY <2>1 DEF IInv, StatesOK, MadeOK
  <2> QED
    BY <2>1, <2>2 DEF Unreferenced
<1> QED
  BY <1>5 DEF Fresh

-----------------------------------------------------------------------------
(* getChannel()                                                            *)

\* The objects once getChannel() has looked the channel up.
Looked == [state EXCEPT ![Mapped] = MappedState]

LEMMA NewIsState == NewChannelState \in ChannelState
BY DEF NewChannelState, ChannelState

\* What getChannel() finds is a state of this channel as good as the map's.
LEMMA GetChannel ==
    ASSUME IInv
    PROVE  /\ Mapped \in Object /\ MappedState \in ChannelState
           /\ Looked[Mapped] = MappedState
           /\ \A c \in Command : InFlight(c) => at[c] \in Object /\ Looked[at[c]] = state[at[c]]
           /\ \A o \in Object : state[o].session # None => Looked[o] = state[o]
           /\ StatesOK(Mapped, Looked)
<1>0. /\ state \in [Object -> ChannelState] /\ channel \in Object \cup {None}
      /\ StatesOK(channel, state) /\ \A c \in Command : InFlight(c) => at[c] \in Object
  BY DEF IInv, TypeOK, CommandsOK, InFlight
<1>1. CASE channel # None
  <2>1. Mapped = channel /\ MappedState = state[channel] /\ Looked = state
    BY <1>0, <1>1 DEF Mapped, MappedState, Looked
  <2> QED
    BY <1>0, <1>1, <2>1
<1>2. CASE channel = None
  <2>1. Mapped = Fresh /\ MappedState = NewChannelState /\ Fresh \in Object /\ Unreferenced(Fresh)
    BY <1>2, FreshExists DEF Mapped, MappedState
  <2> DEFINE f == Fresh
  <2>2. f \in Object /\ Unreferenced(f) /\ Looked = [state EXCEPT ![f] = NewChannelState]
    BY <2>1 DEF Looked
  <2> HIDE DEF f
  <2>3. /\ \A o \in Object : o # f => Looked[o] = state[o]
        /\ Looked[f] = NewChannelState
        /\ Looked \in [Object -> ChannelState]
    BY <1>0, <2>2, NewIsState
  <2>4. /\ \A c \in Command : InFlight(c) => at[c] # f
        /\ \A s \in Stream : Attached(s) => on[s] # f
        /\ state[f].session = None /\ ~state[f].ttlTimer
    BY <2>2 DEF Unreferenced
  <2>5. \A c \in Command : InFlight(c) => Looked[at[c]] = state[at[c]]
    BY <1>0, <2>3, <2>4
  <2>6. QueuesOK(Looked)
    BY <1>0, <2>5 DEF StatesOK, QueuesOK
  <2>7. CountsOK(Looked)
    <3>1. Holders(f) = {}
      BY <2>4 DEF Holders
    <3>2. Looked[f].pending = Cardinality(Holders(f))
      BY <2>3, <3>1, FS_EmptySet DEF NewChannelState
    <3> QED
      BY <1>0, <2>3, <3>2 DEF StatesOK, CountsOK
  <2>8. MadeOK(Looked)
    BY <1>0, <2>3 DEF StatesOK, MadeOK, NewChannelState
  <2>9. MapOK(f, Looked)
    <3> SUFFICES ASSUME ~stopped
                 PROVE  /\ \A c \in Command : ~InFlight(c)
                        /\ \A s \in Stream : ~Attached(s)
                        /\ open = {} /\ Cardinality(Attachments) = 0
      BY <2>3 DEF MapOK, NewChannelState
    <3>1. \A c \in Command : ~InFlight(c)
      BY <1>0, <1>2, StopAssumption DEF StatesOK, MapOK
    <3>2. \A s \in Stream : ~Attached(s)
      BY <1>0, <1>2 DEF StatesOK, MapOK, IInv, StreamsOK
    <3>3. open = {}
      BY <1>0, <1>2 DEF StatesOK, MapOK
    <3>4. Attachments = {}
      BY <3>2 DEF Attachments
    <3> QED
      BY <3>1, <3>2, <3>3, <3>4, FS_EmptySet
  <2>10. \A o \in Object : state[o].session # None => Looked[o] = state[o]
    BY <2>3, <2>4
  <2> QED
    BY <1>0, <2>1, <2>2, <2>3, <2>5, <2>6, <2>7, <2>8, <2>9, <2>10, NewIsState DEF StatesOK, f
<1> QED
  BY <1>1, <1>2

-----------------------------------------------------------------------------
(* What the steps have in common                                           *)

LEMMA Types ==
    ASSUME IInv
    PROVE  /\ state \in [Object -> ChannelState] /\ channel \in Object \cup {None}
           /\ phase \in [Command -> Phase] /\ at \in [Command -> Object \cup {None}]
           /\ \A c \in Command : phase[c] # "idle" => at[c] \in Object
           /\ \A c \in Command : InFlight(c) => at[c] \in Object
BY DEF IInv, TypeOK, CommandsOK, InFlight

\* What is published that is no command.
LEMMA BusPublished ==
    ASSUME IInv, NEW m \in Message, m.topic # "cmd", bus' = Published(m),
           UNCHANGED posted, \A c \in Command : phase[c] = "idle" => phase'[c] = "idle"
    PROVE  bus' \in Seq(Message) /\ BusOK'
<1>0. bus \in Seq(Message) /\ BusOK
  BY DEF IInv, TypeOK
<1>1. \A n \in 1..Len(bus) : bus[n].topic = "cmd" => bus[n].commandId \in Command
  BY <1>0 DEF Message
<1>2. CASE bus' = bus
  BY <1>0, <1>1, <1>2 DEF BusOK
<1>3. CASE bus' = Append(bus, m)
  <2>1. /\ bus' \in Seq(Message)
        /\ \A n \in 1..Len(bus') : bus'[n].topic = "cmd" => n \in 1..Len(bus) /\ bus'[n] = bus[n]
    BY <1>0, <1>3
  <2> QED
    BY <1>0, <1>1, <2>1 DEF BusOK
<1> QED
  BY <1>2, <1>3 DEF Published

\* What is delivered: its command, if it has one, is the only one that may begin.
LEMMA BusDelivered ==
    ASSUME IInv, bus # <<>>, bus' = Tail(bus), UNCHANGED posted,
           \A c \in Command : phase[c] = "idle" =>
               phase'[c] = "idle" \/ (Head(bus).topic = "cmd" /\ Head(bus).commandId = c)
    PROVE  bus' \in Seq(Message) /\ BusOK'
<1>0. bus \in Seq(Message) /\ BusOK
  BY DEF IInv, TypeOK
<1>1. \A n \in 1..Len(bus) : bus[n].topic = "cmd" => bus[n].commandId \in Command
  BY <1>0 DEF Message
<1>2. /\ bus' \in Seq(Message) /\ Head(bus) = bus[1] /\ 1 \in 1..Len(bus)
      /\ \A n \in 1..Len(bus') : n + 1 \in 1..Len(bus) /\ bus'[n] = bus[n + 1]
  BY <1>0
<1>3. ASSUME NEW n \in 1..Len(bus'), bus'[n].topic = "cmd"
      PROVE  /\ bus'[n].commandId \in posted /\ phase'[bus'[n].commandId] = "idle"
             /\ \A m \in 1..Len(bus') :
                  bus'[m].topic = "cmd" /\ bus'[m].commandId = bus'[n].commandId => m = n
  <2>1. n + 1 \in 1..Len(bus) /\ bus'[n] = bus[n + 1] /\ n + 1 # 1
    BY <1>2, <1>3
  <2>2. bus[n + 1].commandId \in posted /\ phase[bus[n + 1].commandId] = "idle"
    BY <1>0, <1>3, <2>1 DEF BusOK
  <2>3. ~(bus[1].topic = "cmd" /\ bus[1].commandId = bus[n + 1].commandId)
    BY <1>0, <1>2, <1>3, <2>1 DEF BusOK
  <2>4. phase'[bus[n + 1].commandId] = "idle"
    BY <1>1, <1>2, <1>3, <2>1, <2>2, <2>3
  <2>5. ASSUME NEW m \in 1..Len(bus'), bus'[m].topic = "cmd", bus'[m].commandId = bus'[n].commandId
        PROVE  m = n
    <3>1. m + 1 \in 1..Len(bus) /\ bus'[m] = bus[m + 1]
      BY <1>2
    <3>2. m + 1 = n + 1
      BY <1>0, <1>3, <2>1, <2>5, <3>1 DEF BusOK
    <3> QED
      BY <3>2
  <2> QED
    BY <2>1, <2>2, <2>4, <2>5
<1> QED
  BY <1>2, <1>3 DEF BusOK

\* A command goes on.
LEMMA CommandStep ==
    ASSUME IInv, NEW c \in Command, phase[c] # "idle", NEW p \in Phase \ {"idle"},
           phase' = [phase EXCEPT ![c] = p], UNCHANGED <<posted, at>>
    PROVE  /\ CommandsOK' /\ phase' \in [Command -> Phase]
           /\ \A d \in Command : phase[d] = "idle" => phase'[d] = "idle"
           /\ \A d \in Command : d # c => phase'[d] = phase[d]
           /\ phase'[c] = p
<1>1. phase \in [Command -> Phase]
  BY Types
<1>2. /\ phase' \in [Command -> Phase] /\ phase'[c] = p
      /\ \A d \in Command : d # c => phase'[d] = phase[d]
  BY <1>1
<1> QED
  BY <1>2 DEF IInv, CommandsOK

\* An object that differs only where nothing depends on it.
Similar(a, b) ==
    /\ a.execQueue = b.execQueue /\ a.pending = b.pending
    /\ a.session = b.session /\ a.subscriberCount = b.subscriberCount
    /\ a.ttlTimer => b.ttlTimer

\* A step that leaves the states as they are, and at most moves on the command at the
\* head of its queue.
LEMMA Frame ==
    ASSUME IInv, NEW entry, NEW st, StatesOK(entry, st), channel' = entry,
           entry \in Object \cup {None},
           state' \in [Object -> ChannelState], \A o \in Object : Similar(state'[o], st[o]),
           UNCHANGED <<stopped, at, stream, on>>, open' \subseteq open,
           \A d \in Command : \/ phase'[d] = phase[d]
                              \/ /\ InFlight(d) /\ phase[d] # "claiming" /\ InFlight(d)'
                                 /\ Len(st[at[d]].execQueue) > 0 /\ st[at[d]].execQueue[1] = d
    PROVE  StatesOK(channel, state)'
<1>0. \A d \in Command : InFlight(d) => at[d] \in Object
  BY Types
<1>1. \A d \in Command : InFlight(d)' <=> InFlight(d)
  BY DEF InFlight
<1>2. \A s \in Stream : Attached(s)' <=> Attached(s)
  BY DEF Attached
<1>3. ASSUME NEW c \in Command, InFlight(c), phase'[c] # "claiming"
      PROVE  \E n \in 1..Len(state'[at[c]].execQueue) :
                 state'[at[c]].execQueue[n] = c /\ (phase'[c] # "queued" => n = 1)
  <2>1. at[c] \in Object /\ state'[at[c]].execQueue = st[at[c]].execQueue
    BY <1>0, <1>3 DEF Similar
  <2>2. CASE phase'[c] = phase[c]
    BY <1>3, <2>1, <2>2 DEF StatesOK, QueuesOK
  <2>3. CASE Len(st[at[c]].execQueue) > 0 /\ st[at[c]].execQueue[1] = c
    <3>1. Len(st[at[c]].execQueue) \in Nat
      BY <2>1 DEF StatesOK, ChannelState
    <3>2. 1 \in 1..Len(state'[at[c]].execQueue) /\ state'[at[c]].execQueue[1] = c
      BY <2>1, <2>3, <3>1
    <3> QED
      BY <3>2
  <2> QED
    BY <2>2, <2>3
<1>4. QueuesOK(state)'
  BY <1>1, <1>3 DEF QueuesOK
<1>5. CountsOK(state)'
  <2>1. \A o \in Object : Holders(o)' = Holders(o)
    BY <1>1 DEF Holders
  <2> QED
    BY <2>1 DEF StatesOK, CountsOK, Similar
<1>6. MadeOK(state)'
  BY DEF StatesOK, MadeOK, Similar
<1>7. MapOK(channel, state)'
  <2>1. Attachments' = Attachments
    BY <1>2 DEF Attachments
  <2> QED
    BY <1>1, <1>2, <2>1 DEF StatesOK, MapOK, Similar
<1> QED
  BY <1>4, <1>5, <1>6, <1>7 DEF StatesOK

LEMMA SimilarToItself == \A a : Similar(a, a)
BY DEF Similar

\* A running command is at the head of its queue.
LEMMA AtTheHead ==
    ASSUME IInv, NEW c \in Command, InFlight(c), phase[c] # "claiming",
           phase[c] = "queued" => MayBegin(c)
    PROVE  /\ at[c] \in Object /\ state[at[c]].execQueue \in Seq(Command)
           /\ Len(state[at[c]].execQueue) > 0 /\ state[at[c]].execQueue[1] = c
           /\ Looked[at[c]] = state[at[c]]
<1>1. at[c] \in Object /\ state[at[c]].execQueue \in Seq(Command)
  BY Types DEF ChannelState
<1>2. PICK n \in 1..Len(state[at[c]].execQueue) :
          state[at[c]].execQueue[n] = c /\ (phase[c] # "queued" => n = 1)
  BY DEF IInv, StatesOK, QueuesOK
<1>3. Len(state[at[c]].execQueue) > 0
  BY <1>1, <1>2
<1>4. state[at[c]].execQueue[1] = c
  <2>1. CASE phase[c] = "queued"
    <3>1. Head(state[at[c]].execQueue) = c
      BY <2>1 DEF MayBegin
    <3> QED
      BY <1>1, <1>3, <3>1
  <2>2. CASE phase[c] # "queued"
    BY <1>2, <2>2
  <2> QED
    BY <2>1, <2>2
<1>5. Looked[at[c]] = state[at[c]]
  BY GetChannel
<1> QED
  BY <1>1, <1>3, <1>4, <1>5

\* emit() leaves what getChannel() found, with what the caller did to its own state.
LEMMA EmitEffect ==
    ASSUME IInv, Emit(state)
    PROVE  channel' = Mapped /\ state' = Looked /\ bus' = Published([topic |-> "out"])
<1>1. CASE channel # None
  BY <1>1, Types DEF Emit, Looked, Mapped, MappedState
<1>2. CASE channel = None
  BY <1>2 DEF Emit, Looked, Mapped, MappedState
<1> QED
  BY <1>1, <1>2

OutMessage == [topic |-> "out"]

LEMMA MessageTypes ==
    /\ OutMessage \in Message /\ OutMessage.topic # "cmd"
    /\ Claim \in Message /\ Claim.topic # "cmd"
    /\ Release \in Message /\ Release.topic # "cmd"
BY DEF OutMessage, Claim, Release, Message

-----------------------------------------------------------------------------
(* The steps that leave the states as they are                             *)

LEMMA DispatchInv == ASSUME IInv, NEW c \in Command, Dispatch(c) PROVE IInv'
<1>0. /\ TypeOK /\ CommandsOK /\ BusOK /\ c \notin posted
      /\ posted' = posted \cup {c}
      /\ bus' = Published([topic |-> "cmd", commandId |-> c])
      /\ UNCHANGED <<stopped, listening, owned, channel, state, phase, at, ranIn, open, stream>>
      /\ UNCHANGED <<on, left>>
  BY DEF IInv, Dispatch, map, streams
<1>1. CommandsOK'
  BY <1>0 DEF CommandsOK
<1>2. bus' \in Seq(Message) /\ BusOK'
  <2>1. CASE bus' = bus
    BY <1>0, <2>1 DEF TypeOK, BusOK
  <2>2. CASE bus' = Append(bus, [topic |-> "cmd", commandId |-> c])
    <3> DEFINE m == [topic |-> "cmd", commandId |-> c]
    <3>1. m \in Message /\ m.commandId = c /\ bus \in Seq(Message) /\ phase[c] = "idle"
      BY <1>0 DEF Message, TypeOK, CommandsOK
    <3> HIDE DEF m
    <3>2. /\ bus' \in Seq(Message)
          /\ \A n \in 1..Len(bus') : \/ n \in 1..Len(bus) /\ bus'[n] = bus[n]
                                     \/ n = Len(bus) + 1 /\ bus'[n] = m
      BY <2>2, <3>1 DEF m
    <3>3. \A n \in 1..Len(bus) : bus[n].topic = "cmd" => bus[n].commandId # c
      BY <1>0 DEF BusOK
    <3>4. Len(bus) + 1 \notin 1..Len(bus)
      BY <3>1
    <3> QED
      BY <1>0, <3>1, <3>2, <3>3, <3>4 DEF BusOK
  <2> QED
    BY <1>0, <2>1, <2>2 DEF Published
<1>3. StatesOK(channel, state)'
  <2>1. /\ StatesOK(channel, state)
        /\ channel \in Object \cup {None} /\ state \in [Object -> ChannelState]
    BY Types DEF IInv
  <2> QED
    BY <1>0, <2>1, Frame, SimilarToItself
<1>4. StreamsOK'
  BY <1>0 DEF IInv, StreamsOK, Attached
<1>5. TypeOK'
  BY <1>0, <1>2 DEF TypeOK
<1> QED
  BY <1>1, <1>2, <1>3, <1>4, <1>5 DEF IInv

\* The steps of a running command that only emit: the failed one and the end of an eval().
LEMMA EmittingInv ==
    ASSUME IInv, NEW c \in Command, FailExecute(c) \/ EvalSettles(c) PROVE IInv'
<1>0. /\ InFlight(c) /\ phase[c] # "claiming" /\ (phase[c] = "queued" => MayBegin(c))
      /\ Emit(state)
      /\ \E p \in {"failing", "finishing"} : phase' = [phase EXCEPT ![c] = p]
      /\ UNCHANGED <<stopped, listening, owned, posted, at, ranIn, open, stream, on>>
      /\ left' \in [ttls: Nat, chunks: Nat, faults: Nat]
  <2>1. left \in [ttls: Nat, chunks: Nat, faults: Nat]
    BY DEF IInv, TypeOK
  <2>2. Spend("faults") => left' \in [ttls: Nat, chunks: Nat, faults: Nat]
    BY <2>1 DEF Spend
  <2> QED
    BY <2>1, <2>2 DEF FailExecute, EvalSettles, streams, MayBegin, InFlight
<1>1. channel' = Mapped /\ state' = Looked /\ bus' = Published(OutMessage)
  BY <1>0, EmitEffect DEF OutMessage
<1>2. PICK p \in {"failing", "finishing"} : phase' = [phase EXCEPT ![c] = p]
  BY <1>0
<1>3. /\ CommandsOK' /\ phase' \in [Command -> Phase]
      /\ \A d \in Command : phase[d] = "idle" => phase'[d] = "idle"
      /\ \A d \in Command : d # c => phase'[d] = phase[d]
      /\ phase'[c] = p
  <2>1. p \in Phase \ {"idle"} /\ phase[c] # "idle"
    BY <1>0 DEF Phase, InFlight
  <2> QED
    BY <1>0, <1>2, <2>1, CommandStep
<1>4. bus' \in Seq(Message) /\ BusOK'
  BY <1>0, <1>1, <1>3, BusPublished, MessageTypes
<1>5. StatesOK(channel, state)'
  <2>1. /\ Mapped \in Object /\ Looked \in [Object -> ChannelState] /\ StatesOK(Mapped, Looked)
    BY GetChannel DEF StatesOK
  <2>2. Len(Looked[at[c]].execQueue) > 0 /\ Looked[at[c]].execQueue[1] = c
    BY <1>0, AtTheHead
  <2>3. InFlight(c)'
    BY <1>2, <1>3 DEF InFlight
  <2> QED
    BY <1>0, <1>1, <1>3, <2>1, <2>2, <2>3, Frame, SimilarToItself
<1>6. StreamsOK'
  BY <1>0 DEF IInv, StreamsOK, Attached
<1>7. TypeOK'
  <2>1. Mapped \in Object /\ Looked \in [Object -> ChannelState]
    BY GetChannel DEF StatesOK
  <2> QED
    BY <1>0, <1>1, <1>3, <1>4, <2>1 DEF IInv, TypeOK
<1> QED
  BY <1>3, <1>4, <1>5, <1>6, <1>7 DEF IInv

LEMMA StartEvalInv == ASSUME IInv, NEW c \in Command, StartEval(c) PROVE IInv'
<1>0. /\ phase[c] = "echoing" /\ InFlight(c) /\ phase' = [phase EXCEPT ![c] = "evaluating"]
      /\ UNCHANGED <<stopped, listening, owned, channel, state, posted, at, ranIn, open>>
      /\ UNCHANGED <<stream, on, bus, left>>
  BY DEF StartEval, map, streams, InFlight
<1>1. /\ CommandsOK' /\ phase' \in [Command -> Phase]
      /\ \A d \in Command : phase[d] = "idle" => phase'[d] = "idle"
      /\ \A d \in Command : d # c => phase'[d] = phase[d]
      /\ phase'[c] = "evaluating"
  <2>1. "evaluating" \in Phase \ {"idle"}
    BY DEF Phase
  <2> QED
    BY <1>0, <2>1, CommandStep
<1>2. StatesOK(channel, state)'
  <2>1. /\ StatesOK(channel, state)
        /\ channel \in Object \cup {None} /\ state \in [Object -> ChannelState]
    BY Types DEF IInv
  <2>2. Len(state[at[c]].execQueue) > 0 /\ state[at[c]].execQueue[1] = c
    BY <1>0, AtTheHead
  <2>3. InFlight(c)'
    BY <1>1 DEF InFlight
  <2> QED
    BY <1>0, <1>1, <2>1, <2>2, <2>3, Frame, SimilarToItself
<1>3. BusOK'
  <2>1. \A n \in 1..Len(bus) : bus[n].topic = "cmd" => bus[n].commandId \in Command
    BY DEF IInv, TypeOK, Message
  <2> QED
    BY <1>0, <1>1, <2>1 DEF IInv, BusOK
<1>4. StreamsOK'
  BY <1>0 DEF IInv, StreamsOK, Attached
<1>5. TypeOK'
  BY <1>0, <1>1 DEF IInv, TypeOK
<1> QED
  BY <1>1, <1>2, <1>3, <1>4, <1>5 DEF IInv

\* The steps of everybody else that move no command: the state they begin with is the
\* map's, or what getChannel() finds.
LEMMA OthersInv ==
    ASSUME IInv, NEW entry \in Object \cup {None}, NEW st, StatesOK(entry, st),
           channel' = entry, state' \in [Object -> ChannelState],
           \A o \in Object : Similar(state'[o], st[o]),
           UNCHANGED <<stopped, posted, phase, at, ranIn, open, stream, on>>,
           listening' \in BOOLEAN, owned' \in BOOLEAN,
           bus' \in Seq(Message), BusOK', left' \in [ttls: Nat, chunks: Nat, faults: Nat]
    PROVE  IInv'
<1>1. StatesOK(channel, state)'
  BY Frame
<1>2. CommandsOK' /\ StreamsOK'
  BY DEF IInv, CommandsOK, StreamsOK, Attached
<1>3. TypeOK'
  BY DEF IInv, TypeOK
<1> QED
  BY <1>1, <1>2, <1>3 DEF IInv

LEMMA WriteOutputInv == ASSUME IInv, NEW o \in Object, WriteOutput(o) PROVE IInv'
<1>1. channel' = Mapped /\ state' = Looked /\ bus' = Published(OutMessage)
  BY EmitEffect DEF WriteOutput, OutMessage
<1>2. /\ UNCHANGED <<stopped, listening, owned, posted, phase, at, ranIn, open, stream, on>>
      /\ left' \in [ttls: Nat, chunks: Nat, faults: Nat]
  <2>1. left \in [ttls: Nat, chunks: Nat, faults: Nat]
    BY DEF IInv, TypeOK
  <2> QED
    BY <2>1 DEF WriteOutput, Spend, commands, streams
<1>3. bus' \in Seq(Message) /\ BusOK'
  BY <1>1, <1>2, BusPublished, MessageTypes
<1>4. Mapped \in Object /\ Looked \in [Object -> ChannelState] /\ StatesOK(Mapped, Looked)
  BY GetChannel DEF StatesOK
<1> QED
  BY <1>1, <1>2, <1>3, <1>4, OthersInv, SimilarToItself DEF IInv, TypeOK

LEMMA TtlFiresInv == ASSUME IInv, NEW o \in Object, TtlFires(o) PROVE IInv'
<1>1. /\ channel' = channel /\ bus' = Published(Release)
      /\ state' = [state EXCEPT ![o].ttlTimer = FALSE]
      /\ UNCHANGED <<stopped, listening, owned, posted, phase, at, ranIn, open, stream, on>>
      /\ left' \in [ttls: Nat, chunks: Nat, faults: Nat]
  <2>1. left \in [ttls: Nat, chunks: Nat, faults: Nat]
    BY DEF IInv, TypeOK
  <2> QED
    BY <2>1 DEF TtlFires, Spend, commands, streams
<1>2. state' \in [Object -> ChannelState] /\ \A p \in Object : Similar(state'[p], state[p])
  <2>1. state \in [Object -> ChannelState]
    BY Types
  <2>2. [state[o] EXCEPT !.ttlTimer = FALSE] \in ChannelState
    BY <2>1 DEF ChannelState
  <2>3. /\ state'[o] = [state[o] EXCEPT !.ttlTimer = FALSE]
        /\ \A p \in Object : p # o => state'[p] = state[p]
    BY <1>1, <2>1
  <2>4. state' \in [Object -> ChannelState]
    BY <1>1, <2>1, <2>2
  <2>5. Similar(state'[o], state[o])
    BY <2>1, <2>3 DEF ChannelState, Similar
  <2> QED
    BY <2>3, <2>4, <2>5, SimilarToItself
<1>3. bus' \in Seq(Message) /\ BusOK'
  BY <1>1, BusPublished, MessageTypes
<1>4. StatesOK(channel, state) /\ channel \in Object \cup {None}
  BY Types DEF IInv
<1> QED
  BY <1>1, <1>2, <1>3, <1>4, OthersInv DEF IInv, TypeOK

LEMMA PushedType == ASSUME NEW n \in Nat PROVE Pushed(n) \in Nat
BY StopAssumption DEF Pushed

LEMMA OnOutInv == ASSUME IInv, OnOut PROVE IInv'
<1>1. /\ bus # <<>> /\ Head(bus).topic = "out" /\ bus' = Tail(bus) /\ channel' = Mapped
      /\ state' = [state EXCEPT ![Mapped] = [MappedState EXCEPT !.buffer = Pushed(@)]]
      /\ UNCHANGED <<stopped, listening, owned, posted, phase, at, ranIn, open, stream, on, left>>
  BY DEF OnOut, Receives, commands, streams
<1>2. Mapped \in Object /\ Looked \in [Object -> ChannelState] /\ StatesOK(Mapped, Looked)
  BY GetChannel DEF StatesOK
<1>3. state' \in [Object -> ChannelState] /\ \A o \in Object : Similar(state'[o], Looked[o])
  <2>1. MappedState \in ChannelState /\ Looked[Mapped] = MappedState
    BY GetChannel
  <2>2. Pushed(MappedState.buffer) \in Nat
    BY <2>1, PushedType DEF ChannelState
  <2>3. PICK b \in Nat : state' = [state EXCEPT ![Mapped] = [MappedState EXCEPT !.buffer = b]]
    BY <1>1, <2>2
  <2>4. [MappedState EXCEPT !.buffer = b] \in ChannelState
    BY <2>1 DEF ChannelState
  <2>5. Similar([MappedState EXCEPT !.buffer = b], MappedState)
    BY <2>1 DEF ChannelState, Similar
  <2>6. state \in [Object -> ChannelState]
    BY Types
  <2>7. \A o \in Object : o # Mapped => Looked[o] = state[o]
    BY <1>2, <2>6 DEF Looked
  <2> QED
    BY <1>2, <2>1, <2>3, <2>4, <2>5, <2>6, <2>7, SimilarToItself
<1>4. bus' \in Seq(Message) /\ BusOK'
  BY <1>1, BusDelivered
<1> QED
  BY <1>1, <1>2, <1>3, <1>4, OthersInv DEF IInv, TypeOK

LEMMA QuietInv ==
    ASSUME IInv, OnClaim \/ TransportCloses \/ UNCHANGED vars PROVE IInv'
<1>1. /\ UNCHANGED <<channel, state, stopped, posted, phase, at, ranIn, open, stream, on, left>>
      /\ listening' \in BOOLEAN /\ owned' \in BOOLEAN
  BY DEF OnClaim, TransportCloses, vars, map, commands, streams, IInv, TypeOK
<1>2. bus' \in Seq(Message) /\ BusOK'
  <2>1. CASE OnClaim
    BY <1>1, <2>1, BusDelivered DEF OnClaim, Receives
  <2>2. CASE TransportCloses
    BY <2>2 DEF TransportCloses, BusOK
  <2>3. CASE UNCHANGED vars
    BY <1>1, <2>3 DEF vars, IInv, TypeOK, BusOK
  <2> QED
    BY <2>1, <2>2, <2>3
<1>3. /\ StatesOK(channel, state) /\ channel \in Object \cup {None}
      /\ state \in [Object -> ChannelState]
  BY Types DEF IInv
<1> QED
  BY <1>1, <1>2, <1>3, OthersInv, SimilarToItself DEF IInv, TypeOK

-----------------------------------------------------------------------------
(* The steps that change a state                                           *)

LEMMA HoldersFinite ==
    \A o \in Object : IsFiniteSet(Holders(o)) /\ Cardinality(Holders(o)) \in Nat
<1>1. \A o \in Object : Holders(o) \in SUBSET Command
  BY DEF Holders
<1> QED
  BY <1>1, ObjectAssumption, FS_Subset, FS_CardinalityType

LEMMA Appended ==
    ASSUME NEW q \in Seq(Command), NEW c \in Command
    PROVE  /\ Append(q, c) \in Seq(Command)
           /\ \A n \in 1..Len(q) : n \in 1..Len(Append(q, c)) /\ Append(q, c)[n] = q[n]
           /\ Len(q) + 1 \in 1..Len(Append(q, c)) /\ Append(q, c)[Len(q) + 1] = c
OBVIOUS

LEMMA EnqueuedIs ==
    ASSUME NEW st \in ChannelState, NEW c \in Command
    PROVE  /\ Enqueued(st, c) \in ChannelState /\ Enqueued(st, c).pending = st.pending
           /\ Enqueued(st, c).session = st.session
           /\ Enqueued(st, c).subscriberCount = st.subscriberCount
           /\ st.execQueue \in Seq(Command)
           /\ Enqueued(st, c).execQueue = Append(st.execQueue, c)
<1>1. st.execQueue \in Seq(Command)
  BY DEF ChannelState
<1>2. Append(st.execQueue, c) \in Seq(Command)
  BY <1>1, Appended
<1>3. PICK q \in Seq(Command) : q = Append(st.execQueue, c)
  BY <1>2
<1>4. Enqueued(st, c) = [st EXCEPT !.ttlTimer = TRUE, !.execQueue = q]
  BY <1>3 DEF Enqueued
<1> QED
  BY <1>1, <1>3, <1>4 DEF ChannelState

\* getChannel(), and what the handler makes of the state it found.
LEMMA MappedChange ==
    ASSUME IInv, NEW X \in ChannelState, state' = [state EXCEPT ![Mapped] = X]
    PROVE  /\ state' \in [Object -> ChannelState] /\ state'[Mapped] = X
           /\ \A o \in Object : o # Mapped => state'[o] = Looked[o]
<1>1. Mapped \in Object /\ state \in [Object -> ChannelState]
  BY GetChannel, Types
<1> QED
  BY <1>1 DEF Looked

\* A command that is delivered was not handled yet.
LEMMA DeliveredIsNew ==
    ASSUME IInv, bus # <<>>, Head(bus).topic = "cmd", NEW c, c = Head(bus).commandId
    PROVE  /\ c \in Command /\ c \in posted /\ phase[c] = "idle" /\ at[c] = None
           /\ bus \in Seq(Message) /\ Head(bus) = bus[1] /\ 1 \in 1..Len(bus)
<1>1. bus \in Seq(Message) /\ Head(bus) = bus[1] /\ 1 \in 1..Len(bus)
  BY DEF IInv, TypeOK
<1>2. c \in Command
  BY <1>1 DEF Message
<1>3. c \in posted /\ phase[c] = "idle"
  BY <1>1 DEF IInv, BusOK
<1> QED
  BY <1>1, <1>2, <1>3 DEF IInv, CommandsOK

LEMMA OnCmdInv == ASSUME IInv, OnCmd PROVE IInv'
<1>c. PICK c : c = Head(bus).commandId
  OBVIOUS
<1> DEFINE st == [MappedState EXCEPT !.pending = @ + 1]
<1>0. /\ bus # <<>> /\ Head(bus).topic = "cmd" /\ channel' = Mapped
      /\ at' = [at EXCEPT ![c] = Mapped]
      /\ UNCHANGED <<stopped, listening, posted, ranIn, open, stream, on, left>>
      /\ owned' = TRUE
      /\ \/ /\ state' = [state EXCEPT ![Mapped] = Enqueued(st, c)]
            /\ phase' = [phase EXCEPT ![c] = "queued"]
            /\ bus' = Tail(bus)
         \/ /\ state' = [state EXCEPT ![Mapped] = st]
            /\ phase' = [phase EXCEPT ![c] = "claiming"]
            /\ bus' = Append(Tail(bus), Claim)
  BY <1>c DEF OnCmd, Receives, streams
<1>1. /\ c \in Command /\ c \in posted /\ phase[c] = "idle" /\ at[c] = None
      /\ bus \in Seq(Message) /\ Head(bus) = bus[1] /\ 1 \in 1..Len(bus)
  BY <1>0, <1>c, DeliveredIsNew
<1>2. /\ Mapped \in Object /\ MappedState \in ChannelState /\ Looked[Mapped] = MappedState
      /\ StatesOK(Mapped, Looked) /\ Mapped # None
  BY GetChannel, StopAssumption
<1>3. /\ st \in ChannelState /\ st.pending = MappedState.pending + 1
      /\ st.session = MappedState.session /\ st.subscriberCount = MappedState.subscriberCount
      /\ st.execQueue = MappedState.execQueue
  BY <1>2 DEF ChannelState
<1> HIDE DEF st
<1>4. /\ Enqueued(st, c) \in ChannelState /\ Enqueued(st, c).pending = st.pending
      /\ Enqueued(st, c).session = st.session
      /\ Enqueued(st, c).subscriberCount = st.subscriberCount
      /\ Enqueued(st, c).execQueue = Append(st.execQueue, c)
  BY <1>1, <1>3, EnqueuedIs
<1>5. PICK X \in ChannelState : /\ state' = [state EXCEPT ![Mapped] = X]
                                /\ X = st \/ X = Enqueued(st, c)
                                /\ phase' = [phase EXCEPT ![c] =
                                       IF X = st THEN "claiming" ELSE "queued"]
  <2>1. st # Enqueued(st, c)
    <3>1. st.execQueue \in Seq(Command)
      BY <1>3 DEF ChannelState
    <3>2. Append(st.execQueue, c) # st.execQueue
      <4>1. Len(Append(st.execQueue, c)) = Len(st.execQueue) + 1 /\ Len(st.execQueue) \in Nat
        BY <1>1, <3>1
      <4> QED
        BY <4>1
    <3> QED
      BY <1>4, <3>2
  <2> QED
    BY <1>0, <1>3, <1>4, <2>1
<1>6. /\ state' \in [Object -> ChannelState] /\ state'[Mapped] = X
      /\ \A o \in Object : o # Mapped => state'[o] = Looked[o]
  BY <1>5, MappedChange
<1>7. /\ phase' \in [Command -> Phase] /\ phase'[c] \in {"claiming", "queued"}
      /\ at' \in [Command -> Object \cup {None}] /\ at'[c] = Mapped
      /\ phase'[c] = "queued" => X.execQueue = Append(MappedState.execQueue, c)
      /\ \A d \in Command : d # c => phase'[d] = phase[d] /\ at'[d] = at[d]
  <2>1. phase \in [Command -> Phase] /\ at \in [Command -> Object \cup {None}]
    BY Types
  <2>2. phase' \in [Command -> Phase] /\ at' \in [Command -> Object \cup {None}]
    BY <1>0, <1>1, <1>2, <1>5, <2>1 DEF Phase
  <2> QED
    BY <1>0, <1>1, <1>2, <1>3, <1>4, <1>5, <2>1, <2>2
<1>8. /\ ~InFlight(c) /\ InFlight(c)'
      /\ \A d \in Command : d # c => (InFlight(d)' <=> InFlight(d))
      /\ \A d \in Command : InFlight(d) => at[d] \in Object
  BY <1>1, <1>7, Types DEF InFlight
<1>9. /\ X.pending = MappedState.pending + 1 /\ X.session = MappedState.session
      /\ X.subscriberCount = MappedState.subscriberCount
      /\ MappedState.execQueue \in Seq(Command)
      /\ X.execQueue = MappedState.execQueue \/ X.execQueue = Append(MappedState.execQueue, c)
  BY <1>2, <1>3, <1>4, <1>5 DEF ChannelState
<1>10. CommandsOK'
  BY <1>0, <1>1, <1>2, <1>7 DEF IInv, CommandsOK
<1>11. bus' \in Seq(Message) /\ BusOK'
  <2>1. Tail(bus) \in Seq(Message) /\ \A n \in 1..Len(Tail(bus)) :
            n + 1 \in 1..Len(bus) /\ Tail(bus)[n] = bus[n + 1]
    BY <1>1
  <2>2. \A n \in 1..Len(bus') : bus'[n].topic = "cmd" =>
            n + 1 \in 1..Len(bus) /\ bus'[n] = bus[n + 1] /\ n + 1 # 1
    <3>1. CASE bus' = Tail(bus)
      BY <2>1, <3>1
    <3>2. CASE bus' = Append(Tail(bus), Claim)
      BY <2>1, <3>2, MessageTypes
    <3> QED
      BY <1>0, <3>1, <3>2
  <2>3. bus' \in Seq(Message)
    <3>1. Append(Tail(bus), Claim) \in Seq(Message)
      BY <2>1, MessageTypes
    <3> QED
      BY <1>0, <2>1, <3>1
  <2>4. ASSUME NEW n \in 1..Len(bus'), bus'[n].topic = "cmd"
        PROVE  /\ bus'[n].commandId \in posted /\ phase'[bus'[n].commandId] = "idle"
               /\ \A m \in 1..Len(bus') :
                    bus'[m].topic = "cmd" /\ bus'[m].commandId = bus'[n].commandId => m = n
    <3>1. n + 1 \in 1..Len(bus) /\ bus'[n] = bus[n + 1] /\ n + 1 # 1
      BY <2>2, <2>4
    <3>2. bus[n + 1].commandId # c
      BY <1>0, <1>1, <1>c, <2>4, <3>1 DEF IInv, BusOK
    <3>3. bus[n + 1].commandId \in Command
      BY <1>1, <2>4, <3>1 DEF Message
    <3>4. bus[n + 1].commandId \in posted /\ phase[bus[n + 1].commandId] = "idle"
      BY <2>4, <3>1 DEF IInv, BusOK
    <3>5. ASSUME NEW m \in 1..Len(bus'), bus'[m].topic = "cmd",
                 bus'[m].commandId = bus'[n].commandId
          PROVE  m = n
      <4>1. m + 1 \in 1..Len(bus) /\ bus'[m] = bus[m + 1]
        BY <2>2, <3>5
      <4>2. m + 1 = n + 1
        BY <2>4, <3>1, <3>5, <4>1 DEF IInv, BusOK
      <4> QED
        BY <4>2
    <3> QED
      BY <1>7, <3>1, <3>2, <3>3, <3>4, <3>5
  <2> QED
    BY <1>0, <2>3, <2>4 DEF BusOK
<1>12. QueuesOK(state)'
  <2> SUFFICES ASSUME NEW d \in Command, InFlight(d)', phase'[d] # "claiming"
               PROVE  \E n \in 1..Len(state'[at'[d]].execQueue) :
                          /\ state'[at'[d]].execQueue[n] = d
                          /\ phase'[d] # "queued" => n = 1
    BY DEF QueuesOK
  <2>1. CASE d = c
    <3>1. state'[at'[d]].execQueue = Append(MappedState.execQueue, c) /\ phase'[d] = "queued"
      BY <1>6, <1>7, <2>1
    <3> QED
      BY <1>1, <1>9, <2>1, <3>1, Appended
  <2>2. CASE d # c
    <3>1. /\ InFlight(d) /\ phase'[d] = phase[d] /\ at'[d] = at[d] /\ at[d] \in Object
      BY <1>7, <1>8, <2>2
    <3>2. PICK n \in 1..Len(Looked[at[d]].execQueue) :
              Looked[at[d]].execQueue[n] = d /\ (phase[d] # "queued" => n = 1)
      BY <1>2, <3>1 DEF StatesOK, QueuesOK
    <3>3. \/ state'[at[d]].execQueue = Looked[at[d]].execQueue
          \/ /\ Looked[at[d]].execQueue \in Seq(Command)
             /\ state'[at[d]].execQueue = Append(Looked[at[d]].execQueue, c)
      BY <1>2, <1>6, <1>9, <3>1
    <3>4. n \in 1..Len(state'[at[d]].execQueue) /\ state'[at[d]].execQueue[n] = d
      <4>1. PICK q, r : q = Looked[at[d]].execQueue /\ r = state'[at[d]].execQueue
        OBVIOUS
      <4>2. n \in 1..Len(q) /\ q[n] = d /\ (r = q \/ (q \in Seq(Command) /\ r = Append(q, c)))
        BY <3>2, <3>3, <4>1
      <4>3. n \in 1..Len(r) /\ r[n] = d
        BY <1>1, <4>2, Appended
      <4> QED
        BY <4>1, <4>3
    <3> QED
      BY <3>1, <3>2, <3>4
  <2> QED
    BY <2>1, <2>2
<1>13. CountsOK(state)'
  <2> SUFFICES ASSUME NEW o \in Object PROVE state'[o].pending = Cardinality(Holders(o)')
    BY DEF CountsOK
  <2>1. CASE o = Mapped
    <3>1. Holders(o)' = Holders(o) \cup {c} /\ c \notin Holders(o)
      BY <1>1, <1>7, <1>8, <2>1 DEF Holders
    <3>2. MappedState.pending = Cardinality(Holders(o))
      BY <1>2, <2>1 DEF StatesOK, CountsOK
    <3>3. Cardinality(Holders(o) \cup {c}) = Cardinality(Holders(o)) + 1
      BY <3>1, HoldersFinite, FS_AddElement
    <3>4. state'[o].pending = MappedState.pending + 1
      BY <1>6, <1>9, <2>1
    <3> QED
      BY <3>1, <3>2, <3>3, <3>4
  <2>2. CASE o # Mapped
    <3>1. Holders(o)' = Holders(o)
      BY <1>7, <1>8, <2>2 DEF Holders
    <3> QED
      BY <1>2, <1>6, <2>2, <3>1 DEF StatesOK, CountsOK
  <2> QED
    BY <2>1, <2>2
<1>14. MadeOK(state)'
  <2> SUFFICES ASSUME NEW o \in Object, state'[o].session # None \/ state'[o].ttlTimer
               PROVE  \E d \in Command : at'[d] = o
    BY DEF MadeOK
  <2>1. CASE o = Mapped
    BY <1>1, <1>7, <2>1
  <2>2. CASE o # Mapped
    <3>1. PICK d \in Command : at[d] = o
      BY <1>2, <1>6, <2>2 DEF StatesOK, MadeOK
    <3>2. d # c
      BY <1>1, <3>1, StopAssumption
    <3> QED
      BY <1>7, <3>1, <3>2
  <2> QED
    BY <2>1, <2>2
<1>15. MapOK(channel, state)' /\ StreamsOK'
  <2>1. Attachments' = Attachments /\ \A s \in Stream : Attached(s)' <=> Attached(s)
    BY <1>0 DEF Attachments, Attached
  <2>2. MapOK(Mapped, Looked)
    BY <1>2 DEF StatesOK
  <2> QED
    BY <1>0, <1>2, <1>6, <1>7, <1>8, <1>9, <2>1, <2>2 DEF MapOK, IInv, StreamsOK
<1>16. TypeOK'
  BY <1>0, <1>2, <1>6, <1>7, <1>11 DEF IInv, TypeOK
<1> QED
  BY <1>6, <1>10, <1>11, <1>12, <1>13, <1>14, <1>15, <1>16 DEF IInv, StatesOK

LEMMA ClaimedInv == ASSUME IInv, NEW c \in Command, Claimed(c) PROVE IInv'
<1>0. /\ phase[c] = "claiming" /\ phase' = [phase EXCEPT ![c] = "queued"]
      /\ state' = [state EXCEPT ![at[c]] = Enqueued(@, c)]
      /\ UNCHANGED <<stopped, listening, owned, channel, posted, at, ranIn, open>>
      /\ UNCHANGED <<stream, on, bus, left>>
  BY DEF Claimed, streams
<1>1. /\ CommandsOK' /\ phase' \in [Command -> Phase]
      /\ \A d \in Command : phase[d] = "idle" => phase'[d] = "idle"
      /\ \A d \in Command : d # c => phase'[d] = phase[d]
      /\ phase'[c] = "queued"
  <2>1. "queued" \in Phase \ {"idle"}
    BY DEF Phase
  <2> QED
    BY <1>0, <2>1, CommandStep
<1>2. InFlight(c) /\ \A d \in Command : InFlight(d)' <=> InFlight(d)
  BY <1>0, <1>1 DEF InFlight
<1>3. /\ state \in [Object -> ChannelState] /\ at[c] \in Object /\ StatesOK(channel, state)
      /\ \A d \in Command : InFlight(d) => at[d] \in Object
  BY <1>2, Types DEF IInv
<1> DEFINE X == Enqueued(state[at[c]], c)
<1>4. /\ X \in ChannelState /\ X.pending = state[at[c]].pending
      /\ X.session = state[at[c]].session /\ X.subscriberCount = state[at[c]].subscriberCount
      /\ state[at[c]].execQueue \in Seq(Command)
      /\ X.execQueue = Append(state[at[c]].execQueue, c)
  BY <1>3, EnqueuedIs
<1>5. state' = [state EXCEPT ![at[c]] = X]
  BY <1>0, <1>3
<1> HIDE DEF X
<1>6. /\ state' \in [Object -> ChannelState] /\ state'[at[c]] = X
      /\ \A o \in Object : o # at[c] => state'[o] = state[o]
  BY <1>3, <1>4, <1>5
<1>7. QueuesOK(state)'
  <2> SUFFICES ASSUME NEW d \in Command, InFlight(d), phase'[d] # "claiming"
               PROVE  \E n \in 1..Len(state'[at[d]].execQueue) :
                          /\ state'[at[d]].execQueue[n] = d
                          /\ phase'[d] # "queued" => n = 1
    BY <1>0, <1>2 DEF QueuesOK
  <2>1. CASE d = c
    BY <1>1, <1>4, <1>6, <2>1, Appended
  <2>2. CASE d # c
    <3>1. PICK n \in 1..Len(state[at[d]].execQueue) :
              state[at[d]].execQueue[n] = d /\ (phase'[d] # "queued" => n = 1)
      BY <1>1, <1>3, <2>2 DEF StatesOK, QueuesOK
    <3>2. \/ state'[at[d]].execQueue = state[at[d]].execQueue
          \/ /\ state[at[d]].execQueue \in Seq(Command)
             /\ state'[at[d]].execQueue = Append(state[at[d]].execQueue, c)
      BY <1>3, <1>4, <1>6
    <3>3. n \in 1..Len(state'[at[d]].execQueue) /\ state'[at[d]].execQueue[n] = d
      <4>1. CASE state'[at[d]].execQueue = state[at[d]].execQueue
        BY <3>1, <4>1
      <4>2. CASE /\ state[at[d]].execQueue \in Seq(Command)
                 /\ state'[at[d]].execQueue = Append(state[at[d]].execQueue, c)
        BY <3>1, <4>2, Appended
      <4> QED
        BY <3>2, <4>1, <4>2
    <3> QED
      BY <3>1, <3>3
  <2> QED
    BY <2>1, <2>2
<1>8. CountsOK(state)'
  <2>1. \A o \in Object : Holders(o)' = Holders(o) /\ state'[o].pending = state[o].pending
    BY <1>0, <1>2, <1>4, <1>6 DEF Holders
  <2> QED
    BY <1>3, <2>1 DEF StatesOK, CountsOK
<1>9. MadeOK(state)'
  BY <1>0, <1>3, <1>6 DEF StatesOK, MadeOK
<1>10. MapOK(channel, state)' /\ StreamsOK'
  <2>1. Attachments' = Attachments /\ \A s \in Stream : Attached(s)' <=> Attached(s)
    BY <1>0 DEF Attachments, Attached
  <2>2. \A o \in Object : /\ state'[o].session = state[o].session
                          /\ state'[o].subscriberCount = state[o].subscriberCount
    BY <1>4, <1>6
  <2> QED
    BY <1>0, <1>2, <1>3, <2>1, <2>2, Types DEF StatesOK, MapOK, IInv, StreamsOK
<1>11. BusOK'
  <2>1. \A n \in 1..Len(bus) : bus[n].topic = "cmd" => bus[n].commandId \in Command
    BY DEF IInv, TypeOK, Message
  <2> QED
    BY <1>0, <1>1, <2>1 DEF IInv, BusOK
<1>12. TypeOK'
  BY <1>0, <1>1, <1>6 DEF IInv, TypeOK
<1> QED
  BY <1>1, <1>6, <1>7, <1>8, <1>9, <1>10, <1>11, <1>12 DEF IInv, StatesOK

\* A command begins: its state has the session, and the emitted echo may map a new one.
LEMMA BeginExecuteInv == ASSUME IInv, NEW c \in Command, BeginExecute(c) PROVE IInv'
<1>1. PICK session : session = IF state[at[c]].session = None THEN c ELSE state[at[c]].session
  OBVIOUS
<1>2. /\ phase[c] = "queued" /\ MayBegin(c) /\ InFlight(c)
      /\ phase' = [phase EXCEPT ![c] = "echoing"] /\ ranIn' = [ranIn EXCEPT ![c] = session]
      /\ open' = IF session = c THEN open \cup {c} ELSE open
      /\ Emit([state EXCEPT ![at[c]].session = session])
      /\ UNCHANGED <<stopped, listening, owned, posted, at, stream, on, left>>
  BY <1>1 DEF BeginExecute, MayBegin, streams, InFlight
<1>3. /\ at[c] \in Object /\ Len(state[at[c]].execQueue) > 0 /\ state[at[c]].execQueue[1] = c
      /\ Looked[at[c]] = state[at[c]] /\ state \in [Object -> ChannelState]
      /\ state[at[c]] \in ChannelState /\ session \in Command
  <2>1. at[c] \in Object /\ Len(state[at[c]].execQueue) > 0 /\ state[at[c]].execQueue[1] = c
        /\ Looked[at[c]] = state[at[c]] /\ state \in [Object -> ChannelState]
    BY <1>2, AtTheHead, Types
  <2> QED
    BY <1>1, <2>1 DEF ChannelState
<1>4. /\ Mapped \in Object /\ Looked \in [Object -> ChannelState] /\ StatesOK(Mapped, Looked)
      /\ Mapped # None
  BY GetChannel, StopAssumption DEF StatesOK
<1>5. /\ channel' = Mapped /\ bus' = Published(OutMessage)
      /\ state' = [Looked EXCEPT ![at[c]].session = session]
  <2>1. CASE channel # None
    BY <1>2, <1>3, <2>1 DEF Emit, Looked, Mapped, MappedState, OutMessage
  <2>2. CASE channel = None
    <3>1. at[c] # Mapped
      BY <1>2, <2>2, FreshExists DEF Mapped, Unreferenced
    <3>2. state' = [[state EXCEPT ![at[c]].session = session] EXCEPT ![Mapped] = NewChannelState]
      BY <1>2, <2>2 DEF Emit
    <3>3. Looked = [state EXCEPT ![Mapped] = NewChannelState]
      BY <2>2 DEF Looked, MappedState
    <3> QED
      BY <1>2, <1>3, <1>4, <3>1, <3>2, <3>3 DEF Emit, OutMessage
  <2> QED
    BY <2>1, <2>2
<1>6. /\ CommandsOK' /\ phase' \in [Command -> Phase]
      /\ \A d \in Command : phase[d] = "idle" => phase'[d] = "idle"
      /\ \A d \in Command : d # c => phase'[d] = phase[d]
      /\ phase'[c] = "echoing"
  <2>1. "echoing" \in Phase \ {"idle"}
    BY DEF Phase
  <2> QED
    BY <1>2, <2>1, CommandStep
<1>7. \A d \in Command : InFlight(d)' <=> InFlight(d)
  BY <1>2, <1>6 DEF InFlight
<1>8. /\ state' \in [Object -> ChannelState] /\ state'[at[c]].session = session
      /\ \A o \in Object : o # at[c] => state'[o] = Looked[o]
      /\ \A o \in Object : /\ state'[o].execQueue = Looked[o].execQueue
                           /\ state'[o].pending = Looked[o].pending
                           /\ state'[o].subscriberCount = Looked[o].subscriberCount
  <2>1. Looked[at[c]] \in ChannelState
    BY <1>3
  <2>2. [Looked[at[c]] EXCEPT !.session = session] \in ChannelState
    BY <1>3, <2>1 DEF ChannelState
  <2> QED
    BY <1>3, <1>4, <1>5, <2>1, <2>2 DEF ChannelState
<1>9. QueuesOK(state)'
  <2> SUFFICES ASSUME NEW d \in Command, InFlight(d), phase'[d] # "claiming"
               PROVE  \E n \in 1..Len(Looked[at[d]].execQueue) :
                          /\ Looked[at[d]].execQueue[n] = d
                          /\ phase'[d] # "queued" => n = 1
    BY <1>2, <1>7, <1>8, Types DEF QueuesOK
  <2>1. CASE d = c
    <3>1. Len(state[at[c]].execQueue) \in Nat
      BY <1>3 DEF ChannelState
    <3>2. 1 \in 1..Len(Looked[at[c]].execQueue) /\ Looked[at[c]].execQueue[1] = c
      BY <1>3, <3>1
    <3> QED
      BY <2>1, <3>2
  <2>2. CASE d # c
    BY <1>4, <1>6, <2>2 DEF StatesOK, QueuesOK
  <2> QED
    BY <2>1, <2>2
<1>10. CountsOK(state)'
  <2>1. \A o \in Object : Holders(o)' = Holders(o)
    BY <1>2, <1>7 DEF Holders
  <2> QED
    BY <1>4, <1>8, <2>1 DEF StatesOK, CountsOK
<1>11. MadeOK(state)'
  BY <1>2, <1>4, <1>8 DEF StatesOK, MadeOK
\* Before stop() the command's state is the map's, and had no session if it made one.
<1>12. MapOK(channel, state)' /\ StreamsOK'
  <2>1. Attachments' = Attachments /\ \A s \in Stream : Attached(s)' <=> Attached(s)
    BY <1>2 DEF Attachments, Attached
  <2>2. MapOK(Mapped, Looked)
    BY <1>4 DEF StatesOK
  <2>3. ASSUME ~stopped PROVE open' \subseteq {state'[Mapped].session}
    <3>1. at[c] = Mapped
      BY <1>2, <2>2, <2>3 DEF MapOK
    <3>2. open \subseteq {state[at[c]].session} /\ open \subseteq Command
      BY <1>3, <1>4, <2>2, <2>3, <3>1 DEF MapOK, IInv, TypeOK
    <3>3. state'[Mapped].session = session
      BY <1>8, <3>1
    <3> QED
      BY <1>1, <1>2, <3>2, <3>3, StopAssumption
  <2> QED
    BY <1>2, <1>4, <1>5, <1>7, <1>8, <2>1, <2>2, <2>3 DEF MapOK, IInv, StreamsOK
<1>13. bus' \in Seq(Message) /\ BusOK'
  BY <1>2, <1>5, <1>6, BusPublished, MessageTypes
<1>14. TypeOK'
  BY <1>2, <1>3, <1>4, <1>5, <1>6, <1>8, <1>13 DEF IInv, TypeOK
<1> QED
  BY <1>6, <1>8, <1>9, <1>10, <1>11, <1>12, <1>13, <1>14 DEF IInv, StatesOK

\* maybeEvict() of the state a command captured: it was at the head, and leaves.
LEMMA SettleInv == ASSUME IInv, NEW c \in Command, Settle(c) PROVE IInv'
<1>0. /\ phase[c] \in {"finishing", "failing"} /\ phase' = [phase EXCEPT ![c] = "settled"]
      /\ MaybeEvict(at[c], Finished(state[at[c]]))
      /\ UNCHANGED <<stopped, listening, owned, posted, at, ranIn, open, stream, on, bus, left>>
      /\ InFlight(c) /\ phase[c] \notin {"claiming", "queued"}
  BY DEF Settle, streams, InFlight
<1>1. /\ at[c] \in Object /\ state[at[c]].execQueue \in Seq(Command)
      /\ Len(state[at[c]].execQueue) > 0 /\ state[at[c]].execQueue[1] = c
      /\ state \in [Object -> ChannelState] /\ state[at[c]] \in ChannelState
      /\ StatesOK(channel, state) /\ channel \in Object \cup {None}
  BY <1>0, AtTheHead, Types DEF IInv
<1>2. /\ CommandsOK' /\ phase' \in [Command -> Phase]
      /\ \A d \in Command : phase[d] = "idle" => phase'[d] = "idle"
      /\ \A d \in Command : d # c => phase'[d] = phase[d]
      /\ phase'[c] = "settled"
  <2>1. "settled" \in Phase \ {"idle"} /\ phase[c] # "idle"
    BY <1>0 DEF Phase
  <2> QED
    BY <1>0, <2>1, CommandStep
<1>3. ~InFlight(c)' /\ \A d \in Command : d # c => (InFlight(d)' <=> InFlight(d))
  BY <1>2 DEF InFlight
<1>4. /\ c \in Holders(at[c]) /\ state[at[c]].pending = Cardinality(Holders(at[c]))
      /\ Cardinality(Holders(at[c]) \ {c}) = state[at[c]].pending - 1
      /\ state[at[c]].pending - 1 \in Nat
  <2>1. c \in Holders(at[c])
    BY <1>0 DEF Holders
  <2>2. state[at[c]].pending = Cardinality(Holders(at[c])) /\ IsFiniteSet(Holders(at[c]))
    BY <1>1, HoldersFinite DEF StatesOK, CountsOK
  <2>3. /\ IsFiniteSet(Holders(at[c]) \ {c})
        /\ Cardinality(Holders(at[c]) \ {c}) = Cardinality(Holders(at[c])) - 1
    BY <2>1, <2>2, FS_RemoveElement
  <2> QED
    BY <2>1, <2>2, <2>3, FS_CardinalityType
<1>5. PICK o : o = at[c]
  OBVIOUS
<1>6. PICK X : X = Finished(state[at[c]])
  OBVIOUS
<1>7. /\ X \in ChannelState /\ X.pending = state[o].pending - 1
      /\ X.session = state[o].session /\ X.subscriberCount = state[o].subscriberCount
      /\ X.ttlTimer = state[o].ttlTimer
      /\ X.execQueue = Tail(state[o].execQueue) /\ X.execQueue \in Seq(Command)
  <2>1. Tail(state[o].execQueue) \in Seq(Command)
    BY <1>1, <1>5
  <2>2. PICK q \in Seq(Command) : q = Tail(state[o].execQueue)
    BY <2>1
  <2>3. PICK p \in Nat : p = state[o].pending - 1
    BY <1>4, <1>5
  <2>4. X = [state[o] EXCEPT !.pending = p, !.execQueue = q]
    BY <1>5, <1>6, <2>2, <2>3 DEF Finished
  <2> QED
    BY <1>1, <1>5, <2>2, <2>3, <2>4 DEF ChannelState
<1>8. /\ state' \in [Object -> ChannelState] /\ state'[o] = X
      /\ \A p \in Object : p # o => state'[p] = state[p]
      /\ channel' = IF Evictable(X) THEN None ELSE channel
  BY <1>0, <1>1, <1>5, <1>6, <1>7 DEF MaybeEvict
<1>9. QueuesOK(state)'
  <2> SUFFICES ASSUME NEW d \in Command, d # c, InFlight(d), phase[d] # "claiming"
               PROVE  \E n \in 1..Len(state'[at[d]].execQueue) :
                          /\ state'[at[d]].execQueue[n] = d
                          /\ phase[d] # "queued" => n = 1
    BY <1>0, <1>2, <1>3 DEF QueuesOK
  <2>1. PICK n \in 1..Len(state[at[d]].execQueue) :
            state[at[d]].execQueue[n] = d /\ (phase[d] # "queued" => n = 1)
    BY <1>1 DEF StatesOK, QueuesOK
  <2>2. CASE at[d] = o
    <3>1. n # 1 /\ phase[d] = "queued"
      BY <1>1, <1>5, <2>1, <2>2
    <3>2. n - 1 \in 1..Len(X.execQueue) /\ X.execQueue[n - 1] = d
      BY <1>1, <1>5, <1>7, <2>1, <2>2, <3>1
    <3> QED
      BY <1>8, <2>2, <3>1, <3>2
  <2>3. CASE at[d] # o
    BY <1>8, <2>1, <2>3, Types
  <2> QED
    BY <2>2, <2>3
<1>10. CountsOK(state)'
  <2> SUFFICES ASSUME NEW p \in Object PROVE state'[p].pending = Cardinality(Holders(p)')
    BY DEF CountsOK
  <2>1. CASE p = o
    <3>1. Holders(p)' = Holders(o) \ {c}
      BY <1>0, <1>3, <2>1 DEF Holders
    <3> QED
      BY <1>4, <1>5, <1>7, <1>8, <2>1, <3>1
  <2>2. CASE p # o
    <3>1. Holders(p)' = Holders(p)
      BY <1>0, <1>3, <1>5, <2>2 DEF Holders
    <3> QED
      BY <1>1, <1>8, <2>2, <3>1 DEF StatesOK, CountsOK
  <2> QED
    BY <2>1, <2>2
<1>11. MadeOK(state)'
  BY <1>0, <1>1, <1>5, <1>7, <1>8 DEF StatesOK, MadeOK
<1>12. MapOK(channel, state)' /\ StreamsOK'
  <2>1. Attachments' = Attachments /\ \A s \in Stream : Attached(s)' <=> Attached(s)
    BY <1>0 DEF Attachments, Attached
  <2>2. MapOK(channel, state)
    BY <1>1 DEF StatesOK
  <2>3. ASSUME ~stopped PROVE o = channel /\ channel # None
    BY <1>0, <1>1, <1>5, <2>2, <2>3, StopAssumption DEF MapOK
  <2>4. CASE Evictable(X)
    <3> SUFFICES ASSUME ~stopped
                 PROVE  /\ \A d \in Command : ~InFlight(d)'
                        /\ \A s \in Stream : ~Attached(s)
                        /\ open = {}
      BY <1>0, <1>8, <2>1, <2>4 DEF MapOK, IInv, StreamsOK
    <3>1. /\ state[o].pending - 1 = 0 /\ X.subscriberCount = 0 /\ X.session = None
      BY <1>7, <2>4 DEF Evictable
    <3>2. Holders(o) \ {c} = {}
      <4>1. IsFiniteSet(Holders(o) \ {c})
        BY <1>1, <1>5, HoldersFinite, FS_RemoveElement
      <4> QED
        BY <1>4, <1>5, <3>1, <4>1, FS_EmptySet
    <3>3. \A d \in Command : ~InFlight(d)'
      BY <1>3, <2>2, <2>3, <3>2 DEF MapOK, Holders
    <3>4. Attachments = {}
      <4>1. Attachments \in SUBSET Stream
        BY DEF Attachments
      <4>2. IsFiniteSet(Attachments) /\ Cardinality(Attachments) = 0
        BY <1>7, <2>2, <2>3, <3>1, <4>1, ObjectAssumption, FS_Subset DEF MapOK
      <4> QED
        BY <4>2, FS_EmptySet
    <3>5. open = {}
      <4>1. open \subseteq {None} /\ open \subseteq Command
        BY <1>7, <2>2, <2>3, <3>1 DEF MapOK, IInv, TypeOK
      <4> QED
        BY <4>1, StopAssumption
    <3> QED
      BY <3>3, <3>4, <3>5 DEF Attachments
  <2>5. CASE ~Evictable(X)
    <3>1. \A p \in Object : /\ state'[p].session = state[p].session
                            /\ state'[p].subscriberCount = state[p].subscriberCount
      BY <1>7, <1>8
    <3> QED
      BY <1>0, <1>1, <1>3, <1>8, <2>1, <2>2, <2>5, <3>1 DEF MapOK, IInv, StreamsOK
  <2> QED
    BY <2>4, <2>5
<1>13. BusOK'
  <2>1. \A n \in 1..Len(bus) : bus[n].topic = "cmd" => bus[n].commandId \in Command
    BY DEF IInv, TypeOK, Message
  <2> QED
    BY <1>0, <1>2, <2>1 DEF IInv, BusOK
<1>14. TypeOK'
  BY <1>0, <1>1, <1>2, <1>8 DEF IInv, TypeOK
<1> QED
  BY <1>2, <1>8, <1>9, <1>10, <1>11, <1>12, <1>13, <1>14 DEF IInv, StatesOK

-----------------------------------------------------------------------------
(* Releases, streams and stop()                                            *)

\* A step that leaves the commands alone, and at most takes a session or a timer away.
LEMMA CommandsKept ==
    ASSUME IInv, NEW entry, NEW st, StatesOK(entry, st), UNCHANGED <<phase, at>>,
           \A o \in Object : /\ state'[o].execQueue = st[o].execQueue
                             /\ state'[o].pending = st[o].pending
                             /\ state'[o].session \in {st[o].session, None}
                             /\ state'[o].ttlTimer => st[o].ttlTimer
    PROVE  /\ QueuesOK(state)' /\ CountsOK(state)' /\ MadeOK(state)'
           /\ \A c \in Command : InFlight(c)' <=> InFlight(c)
<1>1. \A c \in Command : InFlight(c)' <=> InFlight(c)
  BY DEF InFlight
<1>2. QueuesOK(state)'
  BY <1>1, Types DEF StatesOK, QueuesOK
<1>3. CountsOK(state)'
  <2>1. \A o \in Object : Holders(o)' = Holders(o)
    BY <1>1 DEF Holders
  <2> QED
    BY <2>1 DEF StatesOK, CountsOK
<1>4. MadeOK(state)'
  BY DEF StatesOK, MadeOK
<1> QED
  BY <1>1, <1>2, <1>3, <1>4

LEMMA AttachmentsFinite == IsFiniteSet(Attachments) /\ Cardinality(Attachments) \in Nat
<1>1. Attachments \in SUBSET Stream
  BY DEF Attachments
<1> QED
  BY <1>1, ObjectAssumption, FS_Subset, FS_CardinalityType

\* An evictable state of the map holds no command: whoever is in flight is counted.
LEMMA NobodyIsIn ==
    ASSUME IInv, ~stopped, channel # None, state[channel].pending = 0
    PROVE  \A c \in Command : ~InFlight(c)
<1>1. channel \in Object /\ StatesOK(channel, state)
  BY Types DEF IInv
<1>2. Cardinality(Holders(channel)) = 0
  BY <1>1 DEF StatesOK, CountsOK
<1>3. Holders(channel) = {}
  BY <1>1, <1>2, HoldersFinite, FS_EmptySet
<1> QED
  BY <1>1, <1>3 DEF Holders, StatesOK, MapOK

LEMMA OnReleaseInv == ASSUME IInv, OnRelease PROVE IInv'
<1>0. /\ bus # <<>> /\ Head(bus).topic = "sys" /\ bus' = Tail(bus) /\ owned' = FALSE
      /\ UNCHANGED <<stopped, listening, posted, phase, at, ranIn, stream, on, left>>
      /\ open' = open \ {MappedState.session}
      /\ IF channel = None THEN UNCHANGED <<channel, state>>
         ELSE MaybeEvict(channel, IF MappedState.session = None THEN MappedState
                                  ELSE [MappedState EXCEPT !.session = None, !.buffer = 0])
  BY DEF OnRelease, Receives, streams, map
<1>1. bus' \in Seq(Message) /\ BusOK'
  BY <1>0, BusDelivered
<1>2. /\ StatesOK(channel, state) /\ channel \in Object \cup {None}
      /\ state \in [Object -> ChannelState]
  BY Types DEF IInv
<1>3. CommandsOK' /\ StreamsOK'
  BY <1>0 DEF IInv, CommandsOK, StreamsOK, Attached
<1>4. CASE channel = None
  <2>1. StatesOK(channel, state)'
    BY <1>0, <1>2, <1>4, Frame, SimilarToItself
  <2>2. TypeOK'
    BY <1>0, <1>1, <1>4 DEF IInv, TypeOK
  <2> QED
    BY <1>1, <1>3, <2>1, <2>2 DEF IInv
<1>5. CASE channel # None
  <2>1. PICK o \in Object : o = channel
    BY <1>2, <1>5
  <2>2. PICK X : X = IF state[o].session = None THEN state[o]
                     ELSE [state[o] EXCEPT !.session = None, !.buffer = 0]
    OBVIOUS
  <2>3. /\ X \in ChannelState /\ X.pending = state[o].pending /\ X.session = None
        /\ X.execQueue = state[o].execQueue /\ X.subscriberCount = state[o].subscriberCount
        /\ X.ttlTimer = state[o].ttlTimer
    BY <1>2, <2>2 DEF ChannelState
  <2>4. /\ state' = [state EXCEPT ![o] = X]
        /\ channel' = IF Evictable(X) THEN None ELSE channel
        /\ open' = open \ {state[o].session}
    BY <1>0, <1>5, <2>1, <2>2 DEF MaybeEvict, MappedState
  <2>5. /\ state' \in [Object -> ChannelState] /\ state'[o] = X
        /\ \A p \in Object : p # o => state'[p] = state[p]
    BY <1>2, <2>3, <2>4
  <2>6. /\ QueuesOK(state)' /\ CountsOK(state)' /\ MadeOK(state)'
        /\ \A c \in Command : InFlight(c)' <=> InFlight(c)
    BY <1>0, <1>2, <2>3, <2>5, CommandsKept
  <2>7. MapOK(channel, state)'
    <3>1. Attachments' = Attachments /\ \A s \in Stream : Attached(s)' <=> Attached(s)
      BY <1>0 DEF Attachments, Attached
    <3>2. ~stopped => open' = {} /\ X.subscriberCount = Cardinality(Attachments)
      BY <1>2, <1>5, <2>1, <2>3, <2>4 DEF StatesOK, MapOK
    <3>3. CASE Evictable(X)
      <4>1. X.pending = 0 /\ X.subscriberCount = 0 /\ channel' = None
        BY <2>4, <3>3 DEF Evictable
      <4>2. ~stopped => \A c \in Command : ~InFlight(c)
        BY <1>5, <2>1, <2>3, <4>1, NobodyIsIn
      <4>3. ~stopped => \A s \in Stream : ~Attached(s)
        <5>1. ~stopped => Attachments = {}
          BY <3>2, <4>1, AttachmentsFinite, FS_EmptySet
        <5> QED
          BY <5>1 DEF Attachments
      <4> QED
        BY <1>0, <2>6, <3>1, <3>2, <4>1, <4>2, <4>3 DEF MapOK
    <3>4. CASE ~Evictable(X)
      BY <1>0, <1>2, <2>1, <2>4, <2>5, <2>6, <3>1, <3>2, <3>4 DEF StatesOK, MapOK
    <3> QED
      BY <3>3, <3>4
  <2>8. TypeOK'
    BY <1>0, <1>1, <2>1, <2>4, <2>5 DEF IInv, TypeOK
  <2> QED
    BY <1>1, <1>3, <2>5, <2>6, <2>7, <2>8 DEF IInv, StatesOK
<1> QED
  BY <1>4, <1>5

LEMMA OpenStreamInv == ASSUME IInv, NEW s \in Stream, OpenStream(s) PROVE IInv'
<1>0. /\ stream[s] = "unopened" /\ stream' = [stream EXCEPT ![s] = "open"]
      /\ on' = [on EXCEPT ![s] = Mapped] /\ channel' = Mapped
      /\ state' = [state EXCEPT ![Mapped] = [MappedState EXCEPT !.subscriberCount = @ + 1]]
      /\ UNCHANGED <<stopped, listening, owned, posted, phase, at, ranIn, open, bus, left>>
  BY DEF OpenStream, commands
<1>1. /\ Mapped \in Object /\ MappedState \in ChannelState /\ Looked[Mapped] = MappedState
      /\ StatesOK(Mapped, Looked) /\ Mapped # None
  BY GetChannel, StopAssumption
<1>2. PICK X \in ChannelState :
          /\ state' = [state EXCEPT ![Mapped] = X]
          /\ X.subscriberCount = MappedState.subscriberCount + 1
          /\ X.pending = MappedState.pending /\ X.session = MappedState.session
          /\ X.execQueue = MappedState.execQueue /\ X.ttlTimer = MappedState.ttlTimer
  <2>1. PICK n \in Nat : n = MappedState.subscriberCount + 1
    BY <1>1 DEF ChannelState
  <2>2. PICK Y : Y = [MappedState EXCEPT !.subscriberCount = n]
    OBVIOUS
  <2>3. /\ Y \in ChannelState /\ Y.subscriberCount = n
        /\ Y.pending = MappedState.pending /\ Y.session = MappedState.session
        /\ Y.execQueue = MappedState.execQueue /\ Y.ttlTimer = MappedState.ttlTimer
    BY <1>1, <2>2 DEF ChannelState
  <2>4. state' = [state EXCEPT ![Mapped] = Y]
    BY <1>0, <2>1, <2>2
  <2> QED
    BY <2>1, <2>3, <2>4
<1>3. /\ state' \in [Object -> ChannelState] /\ state'[Mapped] = X
      /\ \A o \in Object : o # Mapped => state'[o] = Looked[o]
  BY <1>2, MappedChange
<1>4. /\ QueuesOK(state)' /\ CountsOK(state)' /\ MadeOK(state)'
      /\ \A c \in Command : InFlight(c)' <=> InFlight(c)
  <2>1. \A o \in Object : /\ state'[o].execQueue = Looked[o].execQueue
                          /\ state'[o].pending = Looked[o].pending
                          /\ state'[o].session = Looked[o].session
                          /\ state'[o].ttlTimer = Looked[o].ttlTimer
    BY <1>1, <1>2, <1>3
  <2> QED
    BY <1>0, <1>1, <2>1, CommandsKept
<1>5. /\ stream' \in [Stream -> {"unopened", "open", "completed", "closed"}]
      /\ on' \in [Stream -> Object \cup {None}] /\ on'[s] = Mapped
      /\ ~Attached(s) /\ Attached(s)'
      /\ \A r \in Stream : r # s => (Attached(r)' <=> Attached(r)) /\ on'[r] = on[r]
  <2>1. /\ stream \in [Stream -> {"unopened", "open", "completed", "closed"}]
        /\ on \in [Stream -> Object \cup {None}]
    BY DEF IInv, TypeOK
  <2> QED
    BY <1>0, <1>1, <2>1 DEF Attached
<1>6. MapOK(channel, state)'
  <2>1. Attachments' = Attachments \cup {s} /\ s \notin Attachments
    BY <1>5 DEF Attachments
  <2>2. Cardinality(Attachments \cup {s}) = Cardinality(Attachments) + 1
    BY <2>1, AttachmentsFinite, FS_AddElement
  <2>3. MapOK(Mapped, Looked)
    BY <1>1 DEF StatesOK
  <2>4. ~stopped => X.subscriberCount = Cardinality(Attachments')
    BY <1>1, <1>2, <2>1, <2>2, <2>3 DEF MapOK
  <2>5. ~stopped => open \subseteq {X.session}
    BY <1>1, <1>2, <2>3 DEF MapOK
  <2> QED
    BY <1>0, <1>1, <1>3, <1>4, <1>5, <2>3, <2>4, <2>5 DEF MapOK
<1>7. CommandsOK' /\ BusOK'
  BY <1>0 DEF IInv, CommandsOK, BusOK
<1>8. StreamsOK'
  BY <1>1, <1>5 DEF IInv, StreamsOK
<1>9. TypeOK'
  BY <1>0, <1>1, <1>3, <1>5 DEF IInv, TypeOK
<1> QED
  BY <1>3, <1>4, <1>6, <1>7, <1>8, <1>9 DEF IInv, StatesOK

LEMMA CloseStreamInv == ASSUME IInv, NEW s \in Stream, CloseStream(s) PROVE IInv'
<1>0. /\ Attached(s) /\ stream' = [stream EXCEPT ![s] = "closed"]
      /\ on' = [on EXCEPT ![s] = None]
      /\ UNCHANGED <<stopped, listening, owned, posted, phase, at, ranIn, open, bus, left>>
      /\ channel = None => UNCHANGED <<channel, state>>
  BY DEF CloseStream, commands, map
<1>1. /\ StatesOK(channel, state) /\ channel \in Object \cup {None}
      /\ state \in [Object -> ChannelState]
  BY Types DEF IInv
<1>2. /\ stream' \in [Stream -> {"unopened", "open", "completed", "closed"}]
      /\ on' \in [Stream -> Object \cup {None}]
      /\ ~Attached(s)'
      /\ \A r \in Stream : r # s => (Attached(r)' <=> Attached(r)) /\ on'[r] = on[r]
  <2>1. /\ stream \in [Stream -> {"unopened", "open", "completed", "closed"}]
        /\ on \in [Stream -> Object \cup {None}]
    BY DEF IInv, TypeOK
  <2> QED
    BY <1>0, <2>1 DEF Attached
<1>3. CommandsOK' /\ BusOK' /\ StreamsOK'
  BY <1>0, <1>2 DEF IInv, CommandsOK, BusOK, StreamsOK
\* Nobody counts the stream any more, which only happens once stop() was called.
<1>4. CASE channel = None
  <2>1. stopped
    BY <1>0, <1>1, <1>4 DEF StatesOK, MapOK, IInv, StreamsOK
  <2>2. QueuesOK(state)' /\ CountsOK(state)' /\ MadeOK(state)'
    BY <1>0, <1>1, <1>4, CommandsKept
  <2>3. MapOK(channel, state)'
    BY <1>0, <2>1 DEF MapOK
  <2>4. TypeOK'
    BY <1>0, <1>2, <1>4 DEF IInv, TypeOK
  <2> QED
    BY <1>0, <1>1, <1>3, <1>4, <2>2, <2>3, <2>4 DEF IInv, StatesOK
<1>5. CASE channel # None
  <2>1. PICK o \in Object : o = channel
    BY <1>1, <1>5
  <2>2. PICK n \in Nat :
            n = IF state[o].subscriberCount = 0 THEN 0 ELSE state[o].subscriberCount - 1
    BY <1>1 DEF ChannelState
  <2>3. PICK X : X = [state[o] EXCEPT !.subscriberCount = n]
    OBVIOUS
  <2>4. /\ X \in ChannelState /\ X.pending = state[o].pending /\ X.session = state[o].session
        /\ X.execQueue = state[o].execQueue /\ X.subscriberCount = n
        /\ X.ttlTimer = state[o].ttlTimer
    BY <1>1, <2>2, <2>3 DEF ChannelState
  <2>5. /\ state' = [state EXCEPT ![o] = X]
        /\ channel' = IF Evictable(X) THEN None ELSE channel
    BY <1>5, <2>1, <2>2, <2>3 DEF CloseStream, MaybeEvict
  <2>6. /\ state' \in [Object -> ChannelState] /\ state'[o] = X
        /\ \A p \in Object : p # o => state'[p] = state[p]
    BY <1>1, <2>4, <2>5
  <2>7. /\ QueuesOK(state)' /\ CountsOK(state)' /\ MadeOK(state)'
        /\ \A c \in Command : InFlight(c)' <=> InFlight(c)
    BY <1>0, <1>1, <2>4, <2>6, CommandsKept
  <2>8. MapOK(channel, state)'
    <3>1. Attachments' = Attachments \ {s} /\ s \in Attachments
      BY <1>0, <1>2 DEF Attachments
    <3>2. /\ IsFiniteSet(Attachments \ {s})
          /\ Cardinality(Attachments \ {s}) = Cardinality(Attachments) - 1
          /\ Cardinality(Attachments \ {s}) \in Nat
      BY <3>1, AttachmentsFinite, FS_RemoveElement, FS_CardinalityType
    <3>3. ~stopped => X.subscriberCount = Cardinality(Attachments \ {s})
      <4>1. ~stopped => state[o].subscriberCount = Cardinality(Attachments)
        BY <1>1, <1>5, <2>1 DEF StatesOK, MapOK
      <4> QED
        BY <2>2, <2>4, <3>2, <4>1, AttachmentsFinite
    <3>4. ~stopped => open \subseteq {X.session}
      BY <1>1, <1>5, <2>1, <2>4 DEF StatesOK, MapOK
    <3>5. CASE Evictable(X)
      <4>1. X.pending = 0 /\ X.subscriberCount = 0 /\ X.session = None /\ channel' = None
        BY <2>5, <3>5 DEF Evictable
      <4>2. ~stopped => \A c \in Command : ~InFlight(c)
        BY <1>5, <2>1, <2>4, <4>1, NobodyIsIn
      <4>3. ~stopped => \A r \in Stream : ~Attached(r)'
        <5>1. ~stopped => Attachments \ {s} = {}
          BY <3>2, <3>3, <4>1, FS_EmptySet
        <5> QED
          BY <1>2, <5>1 DEF Attachments
      <4>4. ~stopped => open = {}
        <5>1. open \subseteq Command
          BY DEF IInv, TypeOK
        <5> QED
          BY <3>4, <4>1, <5>1, StopAssumption
      <4> QED
        BY <1>0, <2>7, <4>1, <4>2, <4>3, <4>4 DEF MapOK
    <3>6. CASE ~Evictable(X)
      BY <1>0, <1>1, <1>2, <1>5, <2>1, <2>5, <2>6, <2>7, <3>1, <3>3, <3>4, <3>6
      DEF StatesOK, MapOK
    <3> QED
      BY <3>5, <3>6
  <2>9. TypeOK'
    BY <1>0, <1>2, <2>1, <2>5, <2>6 DEF IInv, TypeOK
  <2> QED
    BY <1>3, <2>6, <2>7, <2>8, <2>9 DEF IInv, StatesOK
<1> QED
  BY <1>4, <1>5

LEMMA StopInv == ASSUME IInv, Stop PROVE IInv'
<1>0. /\ stopped' = TRUE /\ channel' = None
      /\ UNCHANGED <<listening, owned, posted, phase, at, ranIn, on, bus, left>>
  BY DEF Stop
<1>1. /\ StatesOK(channel, state) /\ channel \in Object \cup {None}
      /\ state \in [Object -> ChannelState]
      /\ open \subseteq Command
      /\ stream \in [Stream -> {"unopened", "open", "completed", "closed"}]
  BY Types DEF IInv, TypeOK
<1>2. /\ open' \subseteq Command
      /\ stream' \in [Stream -> {"unopened", "open", "completed", "closed"}]
      /\ \A s \in Stream : Attached(s)' <=> Attached(s)
  BY <1>1 DEF Stop, SessionsAfterStop, Attached
<1>3. /\ state' \in [Object -> ChannelState]
      /\ \A o \in Object : /\ state'[o].execQueue = state[o].execQueue
                           /\ state'[o].pending = state[o].pending
                           /\ state'[o].session = state[o].session
                           /\ state'[o].ttlTimer => state[o].ttlTimer
  <2>1. CASE channel = None
    BY <1>1, <2>1 DEF Stop
  <2>2. CASE channel # None
    <3>1. state' = [state EXCEPT ![channel].ttlTimer = FALSE]
      BY <2>2 DEF Stop
    <3> QED
      BY <1>1, <2>2, <3>1 DEF ChannelState
  <2> QED
    BY <2>1, <2>2
<1>4. QueuesOK(state)' /\ CountsOK(state)' /\ MadeOK(state)'
  BY <1>0, <1>1, <1>3, CommandsKept
<1>5. MapOK(channel, state)'
  BY <1>0 DEF MapOK
<1>6. CommandsOK' /\ BusOK' /\ StreamsOK'
  BY <1>0, <1>2 DEF IInv, CommandsOK, BusOK, StreamsOK
<1>7. TypeOK'
  BY <1>0, <1>2, <1>3 DEF IInv, TypeOK
<1> QED
  BY <1>3, <1>4, <1>5, <1>6, <1>7 DEF IInv, StatesOK

LEMMA InitIInv == Init => IInv
<1> SUFFICES ASSUME Init PROVE IInv
  OBVIOUS
<1>0. /\ stopped = FALSE /\ channel = None /\ open = {} /\ bus = <<>>
      /\ state = [o \in Object |-> NewChannelState]
      /\ \A c \in Command : phase[c] = "idle" /\ at[c] = None
      /\ \A s \in Stream : stream[s] = "unopened"
  BY DEF Init
<1>1. TypeOK
  <2>1. state \in [Object -> ChannelState]
    BY <1>0, NewIsState
  <2>2. left \in [ttls: Nat, chunks: Nat, faults: Nat]
    BY StopAssumption DEF Init
  <2>3. bus \in Seq(Message)
    BY <1>0
  <2>4. phase \in [Command -> Phase]
    BY DEF Init, Phase
  <2> QED
    BY <2>1, <2>2, <2>3, <2>4 DEF Init, TypeOK
<1>2. /\ \A c \in Command : ~InFlight(c)
      /\ \A s \in Stream : ~Attached(s)
  BY <1>0 DEF InFlight, Attached
<1>3. CommandsOK /\ BusOK /\ StreamsOK
  BY <1>0, <1>2 DEF CommandsOK, BusOK, StreamsOK
<1>4. QueuesOK(state) /\ MadeOK(state) /\ MapOK(channel, state)
  BY <1>0, <1>2 DEF QueuesOK, MadeOK, MapOK, NewChannelState
<1>5. CountsOK(state)
  <2>1. \A o \in Object : Holders(o) = {}
    BY <1>2 DEF Holders
  <2> QED
    BY <1>0, <2>1, FS_EmptySet DEF CountsOK, NewChannelState
<1> QED
  BY <1>1, <1>3, <1>4, <1>5 DEF IInv, StatesOK, TypeOK

LEMMA NextIInv == IInv /\ [Next]_vars => IInv'
<1> SUFFICES ASSUME IInv, [Next]_vars PROVE IInv'
  OBVIOUS
<1>1. ASSUME NEW c \in Command, Dispatch(c) \/ Proceed(c) \/ EvalSettles(c) PROVE IInv'
  BY <1>1, DispatchInv, EmittingInv, StartEvalInv, ClaimedInv, BeginExecuteInv, SettleInv
  DEF Proceed
<1>2. ASSUME NEW o \in Object, WriteOutput(o) \/ TtlFires(o) PROVE IInv'
  BY <1>2, WriteOutputInv, TtlFiresInv
<1>3. ASSUME NEW s \in Stream, OpenStream(s) \/ CloseStream(s) PROVE IInv'
  BY <1>3, OpenStreamInv, CloseStreamInv
<1>4. CASE Handle
  BY <1>4, OnCmdInv, OnOutInv, QuietInv, OnReleaseInv DEF Handle
<1>5. CASE Stop \/ TransportCloses \/ UNCHANGED vars
  BY <1>5, StopInv, QuietInv
<1> QED
  BY <1>1, <1>2, <1>3, <1>4, <1>5 DEF Next

-----------------------------------------------------------------------------
(* The theorems                                                            *)

\* Every state of the engine, before and after stop(), satisfies the inductive invariant.
THEOREM Invariance == Spec => []IInv
<1> QED
  BY InitIInv, NextIInv, PTL DEF Spec

\* Every variable keeps its type: in particular `pending` is never decremented below
\* zero, and no empty execQueue is shortened, on whichever state a link ends (416-422).
THEOREM TypeCorrect == Spec => []TypeOK
<1>1. IInv => TypeOK
  BY DEF IInv
<1> QED
  BY <1>1, Invariance, PTL

\* However many commands, streams and timers there are, no eviction comes between a
\* capture and its use until stop() is called (346-360, 500-508).
THEOREM NobodyIsOrphaned == Spec => []NothingOrphaned
<1>1. IInv => NothingOrphaned
  BY DEF IInv, StatesOK, MapOK, NothingOrphaned
<1> QED
  BY <1>1, Invariance, PTL

\* `pending` of each state, mapped or not, is the number of commands that hold it (416-422).
THEOREM PendingIsPerState == Spec => []PendingPerState
<1>1. IInv => PendingPerState
  BY DEF IInv, StatesOK, CountsOK, Holders, PendingPerState
<1> QED
  BY <1>1, Invariance, PTL

\* stop() closes whatever is open, whenever it is called (178-188).
THEOREM StopLeavesNoSession == Spec => StopClosesSessions
<1>1. IInv /\ [Next]_vars => [~stopped /\ stopped' => open' = {}]_vars
  <2> SUFFICES ASSUME IInv, Next, ~stopped, stopped' PROVE open' = {}
    BY DEF vars
  <2>1. Stop
    <3>1. ASSUME NEW c \in Command, Dispatch(c) \/ Proceed(c) \/ EvalSettles(c)
          PROVE  UNCHANGED stopped
      BY <3>1 DEF Dispatch, Proceed, EvalSettles, Claimed, BeginExecute, FailExecute, StartEval,
                  Settle
    <3>2. ASSUME NEW o \in Object, WriteOutput(o) \/ TtlFires(o) PROVE UNCHANGED stopped
      BY <3>2 DEF WriteOutput, TtlFires
    <3>3. ASSUME NEW s \in Stream, OpenStream(s) \/ CloseStream(s) PROVE UNCHANGED stopped
      BY <3>3 DEF OpenStream, CloseStream
    <3>4. Handle => UNCHANGED stopped
      BY DEF Handle, OnCmd, OnOut, OnClaim, OnRelease
    <3>5. TransportCloses => UNCHANGED stopped
      BY DEF TransportCloses
    <3> QED
      BY <3>1, <3>2, <3>3, <3>4, <3>5 DEF Next
  <2>2. MapOK(channel, state)
    BY DEF IInv, StatesOK
  <2>3. CASE channel = None
    BY <2>1, <2>2, <2>3 DEF Stop, MapOK
  <2>4. CASE channel # None
    BY <2>1, <2>2, <2>4 DEF Stop, MapOK, SessionsAfterStop
  <2> QED
    BY <2>3, <2>4
<1> QED
  BY <1>1, Invariance, PTL DEF Spec, StopClosesSessions

-----------------------------------------------------------------------------
(* The chain of each state as a SerialQueue                                *)

Linked(c) == phase[c] \notin {"idle", "claiming", "settled"}

\* A chain holds commands that were queued on its state and have not settled, each once.
ChainsOK ==
    \A o \in Object : \A n \in 1..Len(Chain(o)) :
        /\ at[Chain(o)[n]] = o /\ Linked(Chain(o)[n])
        /\ \A m \in 1..Len(Chain(o)) : Chain(o)[m] = Chain(o)[n] => m = n

Moves == ChainsOK' /\ [Queues!Next]_(Queues!vars)

LEMMA ChainTypes ==
    ASSUME IInv, NEW o \in Object
    PROVE  /\ Chain(o) \in Seq(Command)
           /\ Chain(o) # <<>> => /\ Head(Chain(o)) = Chain(o)[1] /\ 1 \in 1..Len(Chain(o))
                                 /\ Head(Chain(o)) \in Command
<1>1. Chain(o) \in Seq(Command)
  BY Types DEF ChannelState, Chain
<1> QED
  BY <1>1

\* What getChannel() makes anew has the chain of the object it takes: none.
LEMMA LookedChains ==
    ASSUME IInv, ChainsOK
    PROVE  \A o \in Object : Looked[o].execQueue = Chain(o)
<1>1. CASE channel # None
  <2>1. Looked = state
    BY <1>1, Types DEF Mapped, MappedState, Looked
  <2> QED
    BY <2>1 DEF Chain
<1>2. CASE channel = None
  <2>1. PICK f \in Object : f = Mapped /\ Unreferenced(f)
    BY <1>2, FreshExists DEF Mapped
  <2>2. Looked = [state EXCEPT ![f] = NewChannelState]
    BY <1>2, <2>1 DEF Looked, MappedState
  <2>3. Chain(f) = <<>>
    <3> SUFFICES ASSUME Chain(f) # <<>> PROVE FALSE
      OBVIOUS
    <3>1. Chain(f)[1] \in Command /\ 1 \in 1..Len(Chain(f))
      BY ChainTypes
    <3>2. at[Chain(f)[1]] = f /\ InFlight(Chain(f)[1])
      BY <3>1 DEF ChainsOK, Linked, InFlight
    <3> QED
      BY <2>1, <3>1, <3>2 DEF Unreferenced
  <2> QED
    BY <2>2, <2>3, Types DEF Chain, NewChannelState
<1> QED
  BY <1>1, <1>2

\* A worker's view changes only with its chain, its head and what settled on it.
LEMMA SameView ==
    ASSUME NEW o \in Object, Chain(o)' = Chain(o),
           Chain(o) # <<>> =>
               (phase'[Head(Chain(o))] = "queued" <=> phase[Head(Chain(o))] = "queued")
    PROVE  Waiting(o)' = Waiting(o) /\ Running(o)' = Running(o)
<1>1. HeadRuns(o)' <=> HeadRuns(o)
  BY DEF HeadRuns
<1> QED
  BY <1>1 DEF Waiting, Running

\* A step that leaves the chains alone, and begins and ends no link.
LEMMA KeptMoves ==
    ASSUME IInv, ChainsOK, \A o \in Object : Chain(o)' = Chain(o),
           \A d \in Command : Linked(d) => /\ at'[d] = at[d] /\ Linked(d)'
                                           /\ phase'[d] = "queued" <=> phase[d] = "queued",
           \A d \in Command : ~Linked(d) => /\ phase'[d] = "settled" <=> phase[d] = "settled"
                                            /\ phase[d] = "settled" => at'[d] = at[d]
    PROVE  Moves
<1>1. ChainsOK'
  <2> SUFFICES ASSUME NEW o \in Object, NEW n \in 1..Len(Chain(o))
               PROVE  /\ at'[Chain(o)[n]] = o /\ Linked(Chain(o)[n])'
                      /\ \A m \in 1..Len(Chain(o)) : Chain(o)[m] = Chain(o)[n] => m = n
    BY DEF ChainsOK
  <2>1. Chain(o)[n] \in Command
    BY ChainTypes
  <2> QED
    BY <2>1 DEF ChainsOK
<1>2. \A o \in Object : Waiting(o)' = Waiting(o) /\ Running(o)' = Running(o)
  <2> SUFFICES ASSUME NEW o \in Object
               PROVE  Waiting(o)' = Waiting(o) /\ Running(o)' = Running(o)
    OBVIOUS
  <2>1. Chain(o) # <<>> => Head(Chain(o)) \in Command /\ Linked(Head(Chain(o)))
    BY ChainTypes DEF ChainsOK
  <2> QED
    BY <2>1, SameView
<1>3. \A o \in Object : Over(o)' = Over(o)
  BY DEF Over, Linked
<1> QED
  BY <1>1, <1>2, <1>3 DEF Moves, Queues!vars

\* A link is chained to the end of one chain.
LEMMA SubmitMoves ==
    ASSUME IInv, ChainsOK, NEW c \in Command, NEW o \in Object,
           phase[c] \in {"idle", "claiming"}, phase'[c] = "queued", at'[c] = o,
           \A d \in Command : d # c => phase'[d] = phase[d] /\ at'[d] = at[d],
           Chain(o)' = Append(Chain(o), c),
           \A p \in Object : p # o => Chain(p)' = Chain(p)
    PROVE  Moves
<1>1. \A p \in Object : \A n \in 1..Len(Chain(p)) :
          Chain(p)[n] \in Command /\ Chain(p)[n] # c
  BY ChainTypes DEF ChainsOK, Linked
<1>2. PICK q \in Seq(Command) : q = Chain(o)
  BY ChainTypes
<1>3. /\ Chain(o)' = Append(q, c) /\ Len(Append(q, c)) = Len(q) + 1
      /\ \A n \in 1..Len(q) : Append(q, c)[n] = q[n]
      /\ Append(q, c)[Len(q) + 1] = c /\ Len(q) \in Nat
  BY <1>2
<1>4. ChainsOK'
  <2> SUFFICES ASSUME NEW p \in Object, NEW n \in 1..Len(Chain(p)')
               PROVE  /\ at'[Chain(p)'[n]] = p /\ Linked(Chain(p)[n])'
                      /\ \A m \in 1..Len(Chain(p)') : Chain(p)'[m] = Chain(p)'[n] => m = n
    BY DEF ChainsOK
  <2>1. CASE p # o
    BY <1>1, <2>1 DEF ChainsOK, Linked
  <2>2. CASE p = o
    <3>1. \A m \in 1..Len(q) : /\ at'[q[m]] = o /\ q[m] # c
                               /\ phase'[q[m]] = phase[q[m]] /\ Linked(q[m])
                               /\ \A k \in 1..Len(q) : q[k] = q[m] => k = m
      BY <1>1, <1>2 DEF ChainsOK
    <3>2. \A m \in 1..(Len(q) + 1) : m \in 1..Len(q) \/ m = Len(q) + 1
      BY <1>3
    <3>3. n \in 1..(Len(q) + 1) /\ Chain(p)' = Append(q, c)
      BY <1>3, <2>2
    <3>4. at'[Chain(p)'[n]] = p /\ Linked(Chain(p)[n])'
      BY <1>3, <2>2, <3>1, <3>2, <3>3 DEF Linked
    <3>5. \A m \in 1..(Len(q) + 1) : Append(q, c)[m] = Append(q, c)[n] => m = n
      BY <1>3, <3>1, <3>2, <3>3
    <3> QED
      BY <1>3, <3>3, <3>4, <3>5
  <2> QED
    BY <2>1, <2>2
<1>5. \A p \in Object : Over(p)' = Over(p)
  BY DEF Over
<1>6. \A p \in Object : p # o => Waiting(p)' = Waiting(p) /\ Running(p)' = Running(p)
  <2> SUFFICES ASSUME NEW p \in Object, p # o
               PROVE  Waiting(p)' = Waiting(p) /\ Running(p)' = Running(p)
    OBVIOUS
  <2>1. Chain(p) # <<>> => Head(Chain(p)) \in Command /\ Head(Chain(p)) # c
    BY <1>1, ChainTypes
  <2> QED
    BY <2>1, SameView
<1>7. /\ Waiting(o)' = Append(Waiting(o), c) /\ Running(o)' = Running(o)
      /\ Running(o) # c /\ \A n \in DOMAIN Waiting(o) : Waiting(o)[n] # c
  <2>1. CASE q = <<>>
    <3>1. /\ Append(q, c) # <<>> /\ Head(Append(q, c)) = c
      BY <2>1
    <3>2. ~HeadRuns(o) /\ ~HeadRuns(o)'
      BY <1>2, <1>3, <2>1, <3>1 DEF HeadRuns
    <3>3. Waiting(o) = q /\ Waiting(o)' = Append(q, c) /\ Running(o) = None /\ Running(o)' = None
      BY <1>2, <1>3, <3>2 DEF Waiting, Running
    <3>4. \A n \in DOMAIN q : FALSE
      BY <2>1
    <3> QED
      BY <3>3, <3>4, StopAssumption
  <2>2. CASE q # <<>>
    <3>1. /\ Append(q, c) # <<>> /\ Head(Append(q, c)) = Head(q)
          /\ Tail(Append(q, c)) = Append(Tail(q), c) /\ Head(q) = q[1] /\ 1 \in 1..Len(q)
      BY <2>2
    <3>2. Tail(q) \in Seq(Command) /\ \A n \in 1..Len(Tail(q)) :
              n + 1 \in 1..Len(q) /\ Tail(q)[n] = q[n + 1]
      BY <2>2
    <3>3. Head(q) \in Command /\ Head(q) # c
      BY <1>1, <1>2, <3>1
    <3>4. HeadRuns(o)' <=> HeadRuns(o)
      BY <1>2, <1>3, <2>2, <3>1, <3>3 DEF HeadRuns
    <3>5. Waiting(o)' = Append(Waiting(o), c) /\ Running(o)' = Running(o)
      BY <1>2, <1>3, <3>1, <3>4 DEF Waiting, Running
    <3>6. Running(o) # c
      BY <1>2, <3>3, StopAssumption DEF Running
    <3>7. \A n \in DOMAIN Waiting(o) : Waiting(o)[n] # c
      <4>1. DOMAIN q = 1..Len(q) /\ DOMAIN Tail(q) = 1..Len(Tail(q))
        BY <3>2
      <4> QED
        BY <1>1, <1>2, <3>2, <4>1 DEF Waiting
    <3> QED
      BY <3>5, <3>6, <3>7
  <2> QED
    BY <2>1, <2>2
<1>8. Queues!Submit(o, c)
  <2> DEFINE w == [p \in Object |-> Waiting(p)]
             r == [p \in Object |-> Running(p)]
             f == [p \in Object |-> Over(p)]
  <2>1. w' = [w EXCEPT ![o] = Append(Waiting(o), c)] /\ w[o] = Waiting(o)
    BY <1>6, <1>7
  <2>2. r' = r /\ r[o] = Running(o)
    BY <1>6, <1>7
  <2>3. f' = f /\ f[o] = Over(o) /\ c \notin Over(o)
    BY <1>5 DEF Over
  <2> QED
    BY <1>7, <2>1, <2>2, <2>3 DEF Queues!Submit
<1> QED
  BY <1>4, <1>8 DEF Moves, Queues!Next

\* The head of a chain begins.
LEMMA StartMoves ==
    ASSUME IInv, ChainsOK, NEW c \in Command, MayBegin(c),
           phase'[c] \in {"echoing", "failing"}, UNCHANGED at,
           \A d \in Command : d # c => phase'[d] = phase[d],
           \A p \in Object : Chain(p)' = Chain(p)
    PROVE  Moves
<1>0. phase[c] = "queued" /\ InFlight(c)
  BY DEF MayBegin, InFlight
<1>1. PICK o \in Object : o = at[c]
  BY <1>0, Types
<1>2. Chain(o) # <<>> /\ Head(Chain(o)) = c
  BY <1>0, <1>1, AtTheHead DEF Chain
<1>3. ChainsOK'
  <2> SUFFICES ASSUME NEW p \in Object, NEW n \in 1..Len(Chain(p))
               PROVE  /\ at[Chain(p)[n]] = p /\ Linked(Chain(p)[n])'
                      /\ \A m \in 1..Len(Chain(p)) : Chain(p)[m] = Chain(p)[n] => m = n
    BY DEF ChainsOK
  <2>1. Chain(p)[n] \in Command
    BY ChainTypes
  <2> QED
    BY <2>1 DEF ChainsOK, Linked
<1>4. \A p \in Object : p # o => Waiting(p)' = Waiting(p) /\ Running(p)' = Running(p)
  <2> SUFFICES ASSUME NEW p \in Object, p # o
               PROVE  Waiting(p)' = Waiting(p) /\ Running(p)' = Running(p)
    OBVIOUS
  <2>1. Chain(p) # <<>> => Head(Chain(p)) \in Command /\ at[Head(Chain(p))] = p
    BY ChainTypes DEF ChainsOK
  <2>2. Chain(p) # <<>> => Head(Chain(p)) \in Command /\ Head(Chain(p)) # c
    BY <1>1, <2>1
  <2> QED
    BY <2>2, SameView
<1>5. \A p \in Object : Over(p)' = Over(p)
  BY <1>0 DEF Over
<1>6. /\ Waiting(o) = Chain(o) /\ Running(o) = None
      /\ Waiting(o)' = Tail(Chain(o)) /\ Running(o)' = Head(Chain(o))
  <2>1. ~HeadRuns(o) /\ HeadRuns(o)'
    BY <1>0, <1>2 DEF HeadRuns
  <2> QED
    BY <2>1 DEF Waiting, Running
<1>7. Queues!Start(o)
  <2> DEFINE w == [p \in Object |-> Waiting(p)]
             r == [p \in Object |-> Running(p)]
             f == [p \in Object |-> Over(p)]
  <2>1. w' = [w EXCEPT ![o] = Tail(Chain(o))] /\ w[o] = Waiting(o)
    BY <1>4, <1>6
  <2>2. r' = [r EXCEPT ![o] = Head(Chain(o))] /\ r[o] = Running(o)
    BY <1>4, <1>6
  <2>3. f' = f
    BY <1>5
  <2> QED
    BY <1>2, <1>6, <2>1, <2>2, <2>3 DEF Queues!Start
<1> QED
  BY <1>3, <1>7 DEF Moves, Queues!Next

\* The head of a chain ends, and leaves it.
LEMMA FinishMoves ==
    ASSUME IInv, ChainsOK, NEW c \in Command, NEW o \in Object, o = at[c],
           phase[c] \in {"finishing", "failing"}, phase'[c] = "settled", UNCHANGED at,
           \A d \in Command : d # c => phase'[d] = phase[d],
           Chain(o)' = Tail(Chain(o)),
           \A p \in Object : p # o => Chain(p)' = Chain(p)
    PROVE  Moves
<1>1. PICK q \in Seq(Command) : q = Chain(o)
  BY ChainTypes
<1>2. q # <<>> /\ Head(q) = c /\ q[1] = c
  <2>1. InFlight(c) /\ phase[c] \notin {"claiming", "queued"}
    BY DEF InFlight
  <2>2. Len(q) > 0 /\ q[1] = c
    BY <1>1, <2>1, AtTheHead DEF Chain
  <2> QED
    BY <1>1, <2>2
<1>3. /\ Chain(o)' = Tail(q) /\ Tail(q) \in Seq(Command) /\ 1 \in 1..Len(q)
      /\ \A n \in 1..Len(Tail(q)) : n + 1 \in 1..Len(q) /\ n + 1 # 1 /\ Tail(q)[n] = q[n + 1]
      /\ Tail(q) # <<>> => Head(Tail(q)) = Tail(q)[1] /\ 1 \in 1..Len(Tail(q))
  BY <1>1, <1>2
<1>4. \A n \in 1..Len(q) : /\ q[n] \in Command /\ at[q[n]] = o /\ Linked(q[n])
                           /\ \A m \in 1..Len(q) : q[m] = q[n] => m = n
  BY <1>1 DEF ChainsOK
\* Who is left waits: a begun command is at the head.
<1>5. \A n \in 1..Len(Tail(q)) : /\ Tail(q)[n] \in Command \ {c} /\ at[Tail(q)[n]] = o
                                 /\ phase[Tail(q)[n]] = "queued"
  <2> SUFFICES ASSUME NEW n \in 1..Len(Tail(q))
               PROVE  /\ q[n + 1] \in Command \ {c} /\ at[q[n + 1]] = o
                      /\ phase[q[n + 1]] = "queued"
    BY <1>3
  <2>1. n + 1 \in 1..Len(q) /\ n + 1 # 1
    BY <1>3
  <2>2. PICK d \in Command : d = q[n + 1]
    BY <1>4, <2>1
  <2>3. d # c /\ at[d] = o /\ Linked(d)
    BY <1>2, <1>3, <1>4, <2>1, <2>2
  <2>4. PICK k \in 1..Len(q) : q[k] = d /\ (phase[d] # "queued" => k = 1)
    <3>1. InFlight(d) /\ phase[d] # "claiming"
      BY <2>3 DEF Linked, InFlight
    <3> QED
      BY <1>1, <2>3, <3>1 DEF IInv, StatesOK, QueuesOK, Chain
  <2>5. k = n + 1
    BY <1>4, <2>1, <2>2, <2>4
  <2> QED
    BY <2>1, <2>2, <2>3, <2>4, <2>5
<1>6. ChainsOK'
  <2> SUFFICES ASSUME NEW p \in Object, NEW n \in 1..Len(Chain(p)')
               PROVE  /\ at[Chain(p)'[n]] = p /\ Linked(Chain(p)[n])'
                      /\ \A m \in 1..Len(Chain(p)') : Chain(p)'[m] = Chain(p)'[n] => m = n
    BY DEF ChainsOK
  <2>1. CASE p # o
    <3>1. Chain(p)' = Chain(p) /\ Chain(p)[n] \in Command /\ at[Chain(p)[n]] = p
      BY <2>1, ChainTypes DEF ChainsOK
    <3>2. Chain(p)[n] # c
      BY <2>1, <3>1
    <3> QED
      BY <2>1, <3>1, <3>2 DEF ChainsOK, Linked
  <2>2. CASE p = o
    <3>1. n \in 1..Len(Tail(q)) /\ Chain(p)' = Tail(q)
      BY <1>3, <2>2
    <3>2. at[Tail(q)[n]] = p /\ phase'[Tail(q)[n]] = "queued"
      BY <1>5, <2>2, <3>1
    <3>3. ASSUME NEW m \in 1..Len(Tail(q)), Tail(q)[m] = Tail(q)[n] PROVE m = n
      <4>1. q[m + 1] = q[n + 1] /\ m + 1 \in 1..Len(q) /\ n + 1 \in 1..Len(q)
        BY <1>3, <3>1, <3>3
      <4>2. m + 1 = n + 1
        BY <1>4, <4>1
      <4> QED
        BY <4>2
    <3> QED
      BY <3>1, <3>2, <3>3 DEF Linked
  <2> QED
    BY <2>1, <2>2
<1>7. \A p \in Object : p # o => Waiting(p)' = Waiting(p) /\ Running(p)' = Running(p)
  <2> SUFFICES ASSUME NEW p \in Object, p # o
               PROVE  Waiting(p)' = Waiting(p) /\ Running(p)' = Running(p)
    OBVIOUS
  <2>1. Chain(p) # <<>> => Head(Chain(p)) \in Command /\ at[Head(Chain(p))] = p
    BY ChainTypes DEF ChainsOK
  <2>2. Chain(p) # <<>> => Head(Chain(p)) \in Command /\ Head(Chain(p)) # c
    BY <2>1
  <2> QED
    BY <2>2, SameView
<1>8. Over(o)' = Over(o) \cup {c} /\ \A p \in Object : p # o => Over(p)' = Over(p)
  BY DEF Over
<1>9. /\ Waiting(o) = Tail(q) /\ Running(o) = c
      /\ Waiting(o)' = Tail(q) /\ Running(o)' = None
  <2>1. HeadRuns(o)
    BY <1>1, <1>2 DEF HeadRuns
  <2>2. ~HeadRuns(o)'
    <3>1. Tail(q) # <<>> => phase'[Head(Tail(q))] = "queued"
      BY <1>3, <1>5
    <3> QED
      BY <1>3, <3>1 DEF HeadRuns
  <2> QED
    BY <1>1, <1>2, <1>3, <2>1, <2>2 DEF Waiting, Running
<1>10. Queues!Finish(o)
  <2> DEFINE w == [p \in Object |-> Waiting(p)]
             r == [p \in Object |-> Running(p)]
             f == [p \in Object |-> Over(p)]
  <2>1. w' = w
    BY <1>7, <1>9
  <2>2. r' = [r EXCEPT ![o] = None] /\ r[o] = c /\ c # None
    BY <1>7, <1>9, StopAssumption
  <2>3. f' = [f EXCEPT ![o] = Over(o) \cup {c}] /\ f[o] = Over(o)
    BY <1>8
  <2> QED
    BY <2>1, <2>2, <2>3 DEF Queues!Finish
<1> QED
  BY <1>6, <1>10 DEF Moves, Queues!Next

-----------------------------------------------------------------------------
(* Each step in the view of the workers                                    *)

\* emit() makes the state it needs, and leaves the chains alone.
LEMMA EmittedChains ==
    ASSUME IInv, ChainsOK, Emit(state)
    PROVE  \A o \in Object : Chain(o)' = Chain(o)
BY EmitEffect, LookedChains DEF Chain

\* The steps that touch no command.
LEMMA OthersMove ==
    ASSUME IInv, ChainsOK, UNCHANGED <<phase, at>>, \A o \in Object : Chain(o)' = Chain(o)
    PROVE  Moves
<1>1. \A d \in Command : phase'[d] = phase[d] /\ at'[d] = at[d] /\ (Linked(d)' <=> Linked(d))
  BY DEF Linked
<1> QED
  BY <1>1, KeptMoves

LEMMA EnvironmentMoves ==
    ASSUME IInv, ChainsOK,
           \/ \E c \in Command : Dispatch(c)
           \/ \E o \in Object : WriteOutput(o) \/ TtlFires(o)
           \/ \E s \in Stream : OpenStream(s) \/ CloseStream(s)
           \/ OnOut \/ OnClaim \/ OnRelease \/ Stop \/ TransportCloses \/ UNCHANGED vars
    PROVE  Moves
<1>0. /\ state \in [Object -> ChannelState] /\ channel \in Object \cup {None}
      /\ Mapped \in Object /\ MappedState \in ChannelState /\ Looked[Mapped] = MappedState
  BY Types, GetChannel
<1>1. UNCHANGED <<phase, at>>
  BY DEF Dispatch, WriteOutput, TtlFires, OpenStream, CloseStream, OnOut, OnClaim, OnRelease,
         Stop, TransportCloses, vars, commands
<1>2. ASSUME UNCHANGED state PROVE \A o \in Object : Chain(o)' = Chain(o)
  BY <1>2 DEF Chain
<1>3. ASSUME NEW X, X.execQueue = MappedState.execQueue,
             state' = [state EXCEPT ![Mapped] = X]
      PROVE  \A o \in Object : Chain(o)' = Chain(o)
  <2>1. Chain(Mapped) = MappedState.execQueue
    BY <1>0, LookedChains
  <2> QED
    BY <1>0, <1>3, <2>1 DEF Chain
<1>4. ASSUME NEW X, channel # None, X.execQueue = state[channel].execQueue,
             state' = [state EXCEPT ![channel] = X]
      PROVE  \A o \in Object : Chain(o)' = Chain(o)
  BY <1>0, <1>4 DEF Chain
<1>5. ASSUME NEW c \in Command, Dispatch(c) PROVE Moves
  BY <1>1, <1>2, <1>5, OthersMove DEF Dispatch, map
<1>6. ASSUME NEW o \in Object, WriteOutput(o) PROVE Moves
  BY <1>1, <1>6, EmittedChains, OthersMove DEF WriteOutput
<1>7. ASSUME NEW o \in Object, TtlFires(o) PROVE Moves
  <2>1. \A p \in Object : Chain(p)' = Chain(p)
    BY <1>0, <1>7 DEF TtlFires, Chain, ChannelState
  <2> QED
    BY <1>1, <2>1, OthersMove
<1>8. ASSUME NEW s \in Stream, OpenStream(s) PROVE Moves
  <2>1. PICK X : /\ X = [MappedState EXCEPT !.subscriberCount = @ + 1]
                 /\ state' = [state EXCEPT ![Mapped] = X]
    BY <1>8 DEF OpenStream
  <2>2. X.execQueue = MappedState.execQueue
    BY <1>0, <2>1 DEF ChannelState
  <2> QED
    BY <1>1, <1>3, <2>1, <2>2, OthersMove
<1>9. ASSUME NEW s \in Stream, CloseStream(s) PROVE Moves
  <2>1. CASE channel = None
    BY <1>1, <1>2, <1>9, <2>1, OthersMove DEF CloseStream, map
  <2>2. CASE channel # None
    <3>1. PICK n : state' = [state EXCEPT ![channel] =
                                [state[channel] EXCEPT !.subscriberCount = n]]
      BY <1>9, <2>2 DEF CloseStream, MaybeEvict
    <3>2. PICK X : X = [state[channel] EXCEPT !.subscriberCount = n]
      OBVIOUS
    <3>3. X.execQueue = state[channel].execQueue
      BY <1>0, <2>2, <3>2 DEF ChannelState
    <3> QED
      BY <1>1, <1>4, <2>2, <3>1, <3>2, <3>3, OthersMove
  <2> QED
    BY <2>1, <2>2
<1>10. CASE OnOut
  <2>1. PICK X : /\ X = [MappedState EXCEPT !.buffer = Pushed(@)]
                 /\ state' = [state EXCEPT ![Mapped] = X]
    BY <1>10 DEF OnOut
  <2>2. X.execQueue = MappedState.execQueue
    BY <1>0, <2>1 DEF ChannelState
  <2> QED
    BY <1>1, <1>3, <2>1, <2>2, OthersMove
<1>11. CASE OnRelease
  <2>1. CASE channel = None
    BY <1>1, <1>2, <1>11, <2>1, OthersMove DEF OnRelease, map
  <2>2. CASE channel # None
    <3>1. PICK X : /\ X = IF state[channel].session = None THEN state[channel]
                          ELSE [state[channel] EXCEPT !.session = None, !.buffer = 0]
                   /\ state' = [state EXCEPT ![channel] = X]
      BY <1>11, <2>2 DEF OnRelease, MaybeEvict, MappedState
    <3>2. X.execQueue = state[channel].execQueue
      BY <1>0, <2>2, <3>1 DEF ChannelState
    <3> QED
      BY <1>1, <1>4, <2>2, <3>1, <3>2, OthersMove
  <2> QED
    BY <2>1, <2>2
<1>12. CASE Stop
  <2>1. \A p \in Object : Chain(p)' = Chain(p)
    <3>1. CASE channel = None
      BY <1>2, <1>12, <3>1 DEF Stop
    <3>2. CASE channel # None
      <4>1. state' = [state EXCEPT ![channel].ttlTimer = FALSE]
        BY <1>12, <3>2 DEF Stop
      <4> QED
        BY <1>0, <3>2, <4>1 DEF Chain, ChannelState
    <3> QED
      BY <3>1, <3>2
  <2> QED
    BY <1>1, <2>1, OthersMove
<1>13. CASE OnClaim \/ TransportCloses \/ UNCHANGED vars
  BY <1>1, <1>2, <1>13, OthersMove DEF OnClaim, TransportCloses, vars, map
<1> QED
  BY <1>5, <1>6, <1>7, <1>8, <1>9, <1>10, <1>11, <1>12, <1>13

\* onCmd() queues the command at once, or has only counted it when it claims.
LEMMA OnCmdMoves == ASSUME IInv, ChainsOK, OnCmd PROVE Moves
<1>1. PICK c, st : c = Head(bus).commandId /\ st = [MappedState EXCEPT !.pending = @ + 1]
  OBVIOUS
<1>2. PICK o \in Object : o = Mapped
  BY GetChannel
<1>3. /\ bus # <<>> /\ Head(bus).topic = "cmd" /\ at' = [at EXCEPT ![c] = o]
      /\ \/ /\ state' = [state EXCEPT ![o] = Enqueued(st, c)]
            /\ phase' = [phase EXCEPT ![c] = "queued"]
         \/ /\ state' = [state EXCEPT ![o] = st]
            /\ phase' = [phase EXCEPT ![c] = "claiming"]
  BY <1>1, <1>2 DEF OnCmd, Receives
<1>4. c \in Command /\ phase[c] = "idle"
  BY <1>1, <1>3, DeliveredIsNew
<1>5. /\ state \in [Object -> ChannelState] /\ phase \in [Command -> Phase]
      /\ at \in [Command -> Object \cup {None}]
  BY Types
<1>6. st \in ChannelState /\ st.execQueue = Chain(o)
  <2>1. MappedState \in ChannelState /\ MappedState.execQueue = Chain(o)
    BY <1>2, GetChannel, LookedChains
  <2>2. PICK n \in Nat : n = MappedState.pending + 1
    BY <2>1 DEF ChannelState
  <2>3. st = [MappedState EXCEPT !.pending = n]
    BY <1>1, <2>2
  <2> QED
    BY <2>1, <2>3 DEF ChannelState
<1>7. /\ at'[c] = o
      /\ \A d \in Command : d # c => phase'[d] = phase[d] /\ at'[d] = at[d]
  BY <1>3, <1>4, <1>5
<1>8. CASE /\ state' = [state EXCEPT ![o] = Enqueued(st, c)]
           /\ phase' = [phase EXCEPT ![c] = "queued"]
  <2>1. Enqueued(st, c).execQueue = Append(Chain(o), c)
    <3>1. Enqueued(st, c).execQueue = Append(st.execQueue, c)
      BY <1>4, <1>6, EnqueuedIs
    <3> QED
      BY <1>6, <3>1
  <2>2. Chain(o)' = Append(Chain(o), c) /\ \A p \in Object : p # o => Chain(p)' = Chain(p)
    BY <1>5, <1>8, <2>1 DEF Chain
  <2>3. phase'[c] = "queued"
    BY <1>4, <1>5, <1>8
  <2> QED
    BY <1>4, <1>7, <2>2, <2>3, SubmitMoves
<1>9. CASE /\ state' = [state EXCEPT ![o] = st]
           /\ phase' = [phase EXCEPT ![c] = "claiming"]
  <2>1. \A p \in Object : Chain(p)' = Chain(p)
    BY <1>5, <1>6, <1>9 DEF Chain
  <2>2. phase'[c] = "claiming"
    BY <1>4, <1>5, <1>9
  <2> QED
    BY <1>4, <1>7, <2>1, <2>2, KeptMoves DEF Linked
<1> QED
  BY <1>3, <1>8, <1>9

LEMMA CommandMoves ==
    ASSUME IInv, ChainsOK, NEW c \in Command, Proceed(c) \/ EvalSettles(c) PROVE Moves
<1>0. /\ state \in [Object -> ChannelState] /\ phase \in [Command -> Phase]
      /\ phase[c] # "idle" => at[c] \in Object
  BY Types
<1>1. CASE Claimed(c)
  <2>1. PICK o \in Object : o = at[c]
    BY <1>0, <1>1 DEF Claimed
  <2>2. /\ phase'[c] = "queued" /\ at' = at
        /\ \A d \in Command : d # c => phase'[d] = phase[d]
    BY <1>0, <1>1 DEF Claimed
  <2>3. state' = [state EXCEPT ![o] = Enqueued(state[o], c)]
    BY <1>0, <1>1, <2>1 DEF Claimed
  <2>4. Enqueued(state[o], c).execQueue = Append(Chain(o), c)
    BY <1>0, EnqueuedIs DEF Chain
  <2>5. Chain(o)' = Append(Chain(o), c) /\ \A p \in Object : p # o => Chain(p)' = Chain(p)
    BY <1>0, <2>3, <2>4 DEF Chain
  <2> QED
    BY <1>1, <2>1, <2>2, <2>5, SubmitMoves DEF Claimed
<1>2. CASE BeginExecute(c)
  <2>1. PICK session : /\ MayBegin(c) /\ phase' = [phase EXCEPT ![c] = "echoing"] /\ at' = at
                       /\ Emit([state EXCEPT ![at[c]].session = session])
    BY <1>2 DEF BeginExecute
  <2>2. PICK o \in Object : o = at[c] /\ Looked[o] = state[o]
    <3>1. InFlight(c) /\ phase[c] # "claiming"
      BY <2>1 DEF MayBegin, InFlight
    <3> QED
      BY <2>1, <3>1, AtTheHead
  <2>3. \A p \in Object : [state EXCEPT ![o].session = session][p].execQueue = Chain(p)
    BY <1>0 DEF Chain, ChannelState
  <2>4. \A p \in Object : Chain(p)' = Chain(p)
    <3>1. CASE channel # None
      BY <2>1, <2>2, <2>3, <3>1 DEF Emit, Chain
    <3>2. CASE channel = None
      <4>1. PICK f \in Object : f = Mapped /\ Looked[f].execQueue = Chain(f)
        BY GetChannel, LookedChains
      <4>2. NewChannelState.execQueue = Chain(f)
        BY <3>2, <4>1, GetChannel DEF MappedState
      <4>3. state' = [[state EXCEPT ![o].session = session] EXCEPT ![f] = NewChannelState]
        BY <2>1, <2>2, <3>2, <4>1 DEF Emit
      <4> QED
        BY <1>0, <2>3, <4>2, <4>3 DEF Chain
    <3> QED
      BY <3>1, <3>2
  <2> QED
    BY <1>0, <2>1, <2>4, StartMoves
<1>3. CASE FailExecute(c)
  <2>1. \A o \in Object : Chain(o)' = Chain(o)
    BY <1>3, EmittedChains DEF FailExecute
  <2> QED
    BY <1>0, <1>3, <2>1, StartMoves DEF FailExecute
<1>4. CASE StartEval(c) \/ EvalSettles(c)
  <2>1. \A o \in Object : Chain(o)' = Chain(o)
    <3>1. CASE StartEval(c)
      BY <3>1 DEF StartEval, map, Chain
    <3>2. CASE EvalSettles(c)
      BY <3>2, EmittedChains DEF EvalSettles
    <3> QED
      BY <1>4, <3>1, <3>2
  <2>2. /\ phase[c] \in {"echoing", "evaluating"} /\ phase'[c] \in {"evaluating", "finishing"}
        /\ \A d \in Command : d # c => phase'[d] = phase[d]
        /\ at' = at
    BY <1>0, <1>4 DEF StartEval, EvalSettles
  <2> QED
    BY <2>1, <2>2, KeptMoves DEF Linked
<1>5. CASE Settle(c)
  <2>1. PICK o \in Object : o = at[c]
    BY <1>0, <1>5 DEF Settle
  <2>2. /\ phase[c] \in {"finishing", "failing"} /\ phase'[c] = "settled" /\ at' = at
        /\ \A d \in Command : d # c => phase'[d] = phase[d]
    BY <1>0, <1>5 DEF Settle
  <2>3. state' = [state EXCEPT ![o] = Finished(state[o])]
    BY <1>5, <2>1 DEF Settle, MaybeEvict
  <2>4. Finished(state[o]).execQueue = Tail(Chain(o))
    BY <1>0 DEF Finished, Chain, ChannelState
  <2>5. Chain(o)' = Tail(Chain(o)) /\ \A p \in Object : p # o => Chain(p)' = Chain(p)
    BY <1>0, <2>3, <2>4 DEF Chain
  <2> QED
    BY <2>1, <2>2, <2>5, FinishMoves
<1> QED
  BY <1>1, <1>2, <1>3, <1>4, <1>5 DEF Proceed

LEMMA NextMoves == IInv /\ ChainsOK /\ [Next]_vars => Moves
<1> SUFFICES ASSUME IInv, ChainsOK, [Next]_vars PROVE Moves
  OBVIOUS
<1>1. ASSUME NEW c \in Command, Proceed(c) \/ EvalSettles(c) PROVE Moves
  BY <1>1, CommandMoves
<1>2. CASE OnCmd
  BY <1>2, OnCmdMoves
<1> QED
  BY <1>1, <1>2, EnvironmentMoves DEF Next, Handle

LEMMA InitQueues == Init => ChainsOK /\ Queues!Init
<1> SUFFICES ASSUME Init PROVE ChainsOK /\ Queues!Init
  OBVIOUS
<1>1. ASSUME NEW o \in Object
      PROVE  /\ Chain(o) = <<>> /\ Waiting(o) = <<>> /\ Running(o) = None /\ Over(o) = {}
  <2>1. Chain(o) = <<>> /\ \A c \in Command : phase[c] = "idle"
    BY DEF Init, NewChannelState, Chain
  <2> QED
    BY <2>1 DEF Waiting, Running, Over, HeadRuns
<1> QED
  BY <1>1 DEF ChainsOK, Queues!Init

\* Every ChannelState that ever holds commands, mapped or left behind by stop(), runs
\* them one at a time, in the order in which they were chained onto it, each to its end
\* and none twice (380-425).
THEOREM EveryStateIsSerial == Spec => SerialPerState
<1>1. Init => ChainsOK /\ Queues!Init
  BY InitQueues
<1>2. IInv /\ ChainsOK /\ [Next]_vars => ChainsOK' /\ [Queues!Next]_(Queues!vars)
  BY NextMoves DEF Moves
<1> QED
  BY <1>1, <1>2, Invariance, PTL DEF Spec, SerialPerState, Queues!Spec

=============================================================================
