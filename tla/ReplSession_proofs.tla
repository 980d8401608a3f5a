-------------------------- MODULE ReplSession_proofs --------------------------
(***************************************************************************)
(* The safety of one session, proved for any number of calls and any texts *)
(* of statements, whatever node:repl makes of them; and that its output is *)
(* not cut, which OutputFilter_proofs shows of every output.               *)
(***************************************************************************)
EXTENDS MCReplSession, OutputFilter_proofs

-----------------------------------------------------------------------------
(* The inductive invariant                                                 *)

Submitted == {d \in Call : text[d] # <<>>}

\* Calls are numbered as they come.
Numbered == \E k \in 0..MaxCalls : Submitted = 1..k

\* A call waits once, or is in flight, or has settled.
Placed ==
    /\ \A m \in 1..Len(queue) : /\ text[queue[m]] # <<>> /\ outcome[queue[m]] = None
                                /\ queue[m] # resolveCurrent
    /\ \A m, n \in 1..Len(queue) : queue[m] = queue[n] => m = n
    /\ resolveCurrent # None => text[resolveCurrent] # <<>> /\ outcome[resolveCurrent] = None
    /\ \A c \in Call : outcome[c] # None => text[c] # <<>>

\* The watchdog is that of the call in flight, which a closed session has none of.
Guarded ==
    /\ watchdog = resolveCurrent
    /\ timers = {resolveCurrent} \ {None}
    /\ closed => resolveCurrent = None

\* While texts are orderly, whatever is unfinished or buffered is of the call in flight:
\* the one statement of its text, which is not both.
Isolated ==
    Orderly /\ ~closed =>
        /\ \A c \in Call : unfinished[c] > 0 => c = resolveCurrent /\ unfinished[c] = 1
                                                /\ bufferedCommand = {}
        /\ bufferedCommand \subseteq {resolveCurrent}

IInv == TypeOK /\ Numbered /\ Placed /\ Guarded /\ Isolated

-----------------------------------------------------------------------------
(* What node:repl reads                                                    *)

LEMMA LengthOne ==
    ASSUME NEW S, NEW s \in Seq(S), s # <<>>
    PROVE  Len(s) \in Nat /\ Len(s) > 0 /\ s[1] \in S
OBVIOUS

LEMMA ReadType ==
    ASSUME NEW c \in Call, NEW t \in Seq(Statement)
    PROVE  /\ Read(c, t).prompts \in BOOLEAN /\ Read(c, t).started \in Nat
           /\ Read(c, t).left \subseteq Call
           /\ Read(c, t) = [prompts |-> Read(c, t).prompts, started |-> Read(c, t).started,
                            left |-> Read(c, t).left]
<1>1. Cardinality({n \in 1..Len(t) : t[n] = "await"}) \in Nat
  <2>1. Len(t) \in Nat
    OBVIOUS
  <2>2. IsFiniteSet(1..Len(t))
    BY <2>1, FS_Interval
  <2>3. IsFiniteSet({n \in 1..Len(t) : t[n] = "await"})
    BY <2>2, FS_Subset
  <2> QED
    BY <2>3, FS_CardinalityType
<1> QED
  BY <1>1 DEF Read

LEMMA ReadingType ==
    ASSUME TypeOK, NEW c \in Call, text[c] # <<>>, NEW r \in Reading(c)
    PROVE  r.prompts \in BOOLEAN /\ r.started \in Nat /\ r.left \subseteq Call
<1>0. text[c] \in Seq(Statement) /\ bufferedCommand \subseteq Call
  BY TextAssumption DEF TypeOK
<1>1. CASE bufferedCommand = {}
  BY <1>0, <1>1, ReadType DEF Reading
<1>2. CASE bufferedCommand # {}
  <2>1. r \in ReadOnto(c, text[c])
    BY <1>2 DEF Reading
  <2>2. CASE r = [prompts |-> FALSE, started |-> 0, left |-> bufferedCommand \cup {c}]
    BY <1>0, <2>2
  <2>3. ASSUME NEW n \in 1..Len(text[c]),
               r = [Read(c, SubSeq(text[c], n + 1, Len(text[c]))) EXCEPT !.prompts = TRUE]
        PROVE  r.prompts \in BOOLEAN /\ r.started \in Nat /\ r.left \subseteq Call
    <3>1. SubSeq(text[c], n + 1, Len(text[c])) \in Seq(Statement)
      BY <1>0
    <3> DEFINE x == Read(c, SubSeq(text[c], n + 1, Len(text[c])))
    <3>2. /\ x.prompts \in BOOLEAN /\ x.started \in Nat /\ x.left \subseteq Call
          /\ x = [prompts |-> x.prompts, started |-> x.started, left |-> x.left]
      BY <3>1, ReadType
    <3>3. r = [x EXCEPT !.prompts = TRUE]
      BY <2>3
    <3> HIDE DEF x
    <3>4. r = [prompts |-> TRUE, started |-> x.started, left |-> x.left]
      BY <3>2, <3>3
    <3> QED
      BY <3>2, <3>4
  <2> QED
    BY <2>1, <2>2, <2>3 DEF ReadOnto
<1> QED
  BY <1>1, <1>2

\* A text of one statement settles its call, keeps it waiting, or stays in the buffer.
LEMMA ReadOne ==
    ASSUME NEW c \in Call, NEW t \in Seq(Statement), Len(t) = 1
    PROVE  \/ Read(c, t).prompts /\ Read(c, t).started = 0 /\ Read(c, t).left = {}
           \/ ~Read(c, t).prompts /\ Read(c, t).started = 1 /\ Read(c, t).left = {}
           \/ ~Read(c, t).prompts /\ Read(c, t).started = 0 /\ Read(c, t).left = {c}
<1>0. t[1] \in Statement /\ t # <<>> /\ 1..Len(t) = {1}
  <2>1. t # <<>> /\ 1..Len(t) = {1}
    OBVIOUS
  <2> QED
    BY <2>1, LengthOne
<1>1. {n \in 1..Len(t) : t[n] = "await"} = IF t[1] = "await" THEN {1} ELSE {}
  BY <1>0
<1>2. Cardinality({n \in 1..Len(t) : t[n] = "await"}) = IF t[1] = "await" THEN 1 ELSE 0
  BY <1>1, FS_EmptySet, FS_Singleton
<1>3. (\E n \in 1..Len(t) : t[n] = "sync") <=> t[1] = "sync"
  BY <1>0
<1> QED
  BY <1>0, <1>2, <1>3 DEF Read, Statement

-----------------------------------------------------------------------------
(* Every step keeps it                                                     *)

LEMMA InitIInv == Init => IInv
<1> SUFFICES ASSUME Init PROVE IInv
  OBVIOUS
<1>1. TypeOK
  <2>1. queue \in Seq(Call) /\ text \in [Call -> Text \cup {<<>>}]
    BY DEF Init
  <2> QED
    BY <2>1 DEF Init, TypeOK
<1>2. Numbered
  <2>1. Submitted = {} /\ 1..0 = {} /\ 0 \in 0..MaxCalls
    BY CallAssumption DEF Init, Submitted
  <2> QED
    BY <2>1 DEF Numbered
<1>3. Placed /\ Guarded /\ Isolated
  BY DEF Init, Placed, Guarded, Isolated
<1> QED
  BY <1>1, <1>2, <1>3 DEF IInv

\* The next call is new.
LEMMA NextCall ==
    ASSUME TypeOK, Numbered, NEW c \in Call, c = Cardinality(Submitted) + 1
    PROVE  text[c] = <<>> /\ Submitted = 1..(c - 1)
<1>1. PICK k \in 0..MaxCalls : Submitted = 1..k
  BY DEF Numbered
<1>2. k \in Nat
  BY CallAssumption
<1>3. Cardinality(1..k) = k
  BY <1>2, FS_Interval
<1>4. c = k + 1
  BY <1>1, <1>3
<1>5. c \notin Submitted /\ Submitted = 1..(c - 1)
  BY <1>1, <1>2, <1>4
<1> QED
  BY <1>5 DEF Submitted

\* A call that settles: the others keep their outcome.
LEMMA SettleEffect ==
    ASSUME IInv, NEW why \in Outcome, NEW fired, Settle(why, fired)
    PROVE  /\ resolveCurrent' = None /\ watchdog' = None /\ timers' = {}
           /\ outcome' \in [Call -> Outcome \cup {None}]
           /\ \A c \in Call : outcome'[c] = IF c = resolveCurrent THEN why ELSE outcome[c]
BY DEF Settle, TimersLeft, IInv, TypeOK, Guarded

LEMMA SettleKeeps ==
    ASSUME IInv, NEW why \in Outcome, NEW fired, Settle(why, fired), UNCHANGED <<queue, text>>
    PROVE  /\ Numbered' /\ Placed'
           /\ watchdog' = resolveCurrent' /\ timers' = {resolveCurrent'} \ {None}
           /\ resolveCurrent' = None
           /\ Orderly' => Orderly
           /\ Orderly' /\ resolveCurrent # None => why # "timeout"
<1>0. /\ resolveCurrent' = None /\ watchdog' = None /\ timers' = {}
      /\ \A c \in Call : outcome'[c] = IF c = resolveCurrent THEN why ELSE outcome[c]
  BY SettleEffect
<1>t. /\ queue \in Seq(Call) /\ resolveCurrent \in Call \cup {None}
      /\ \A n \in 1..Len(queue) : queue[n] \in Call
  BY DEF IInv, TypeOK
<1>1. Numbered'
  BY DEF Numbered, Submitted, IInv
<1>2. Placed'
  BY <1>0, <1>t, CallAssumption DEF Placed, IInv
<1>3. Orderly' => Orderly
  BY <1>0, <1>t, CallAssumption DEF Orderly, Placed, IInv, Outcome
<1>4. Orderly' /\ resolveCurrent # None => why # "timeout"
  BY <1>0, <1>t DEF Orderly
<1> QED
  BY <1>0, <1>1, <1>2, <1>3, <1>4

LEMMA EvalKeeps == ASSUME IInv, NEW c \in Call, Eval(c) PROVE IInv'
<1>0. PICK t \in Text : text' = [text EXCEPT ![c] = t]
  BY DEF Eval
<1>1. t # <<>> /\ text[c] = <<>> /\ Submitted = 1..(c - 1) /\ c \in 1..MaxCalls
  BY TextAssumption, NextCall DEF Eval, IInv, Submitted, Call
<1>t. /\ text \in [Call -> Text \cup {<<>>}] /\ queue \in Seq(Call)
      /\ resolveCurrent \in Call \cup {None}
      /\ Len(queue) \in Nat /\ \A n \in 1..Len(queue) : queue[n] \in Call
      /\ \A d \in Call : text'[d] = IF d = c THEN t ELSE text[d]
  BY <1>0 DEF IInv, TypeOK
<1>2. TypeOK'
  BY <1>0 DEF IInv, TypeOK, Eval, watch, repl
<1>3. Numbered'
  <2>1. Submitted' = Submitted \cup {c}
    BY <1>1, <1>t DEF Submitted
  <2>2. Submitted' = 1..c /\ c \in 0..MaxCalls
    BY <1>1, <2>1, CallAssumption
  <2> QED
    BY <2>2 DEF Numbered
<1>4. Placed'
  <2>1. /\ Len(queue') = Len(queue) + 1 /\ queue'[Len(queue) + 1] = c
        /\ \A n \in 1..Len(queue) : queue'[n] = queue[n] /\ queue[n] # c
    <3>1. queue' = Append(queue, c)
      BY DEF Eval
    <3>2. /\ Len(queue') = Len(queue) + 1 /\ queue'[Len(queue) + 1] = c
          /\ \A n \in 1..Len(queue) : queue'[n] = queue[n]
      BY <1>t, <3>1
    <3>3. \A n \in 1..Len(queue) : queue[n] # c
      BY <1>1 DEF IInv, Placed
    <3> QED
      BY <3>2, <3>3
  <2>2. c # resolveCurrent /\ outcome[c] = None
    BY <1>1, CallAssumption DEF IInv, Placed
  <2>3. \A m \in 1..Len(queue') : m \in 1..Len(queue) \/ m = Len(queue) + 1
    BY <1>t, <2>1
  <2>4. resolveCurrent' = resolveCurrent /\ outcome' = outcome
    BY DEF Eval
  <2>5. \A m \in 1..Len(queue') : /\ text'[queue'[m]] # <<>> /\ outcome'[queue'[m]] = None
                                  /\ queue'[m] # resolveCurrent'
    <3> SUFFICES ASSUME NEW m \in 1..Len(queue')
                 PROVE  /\ text'[queue'[m]] # <<>> /\ outcome'[queue'[m]] = None
                        /\ queue'[m] # resolveCurrent'
      OBVIOUS
    <3>1. CASE m \in 1..Len(queue)
      <4>1. queue'[m] = queue[m] /\ queue[m] \in Call /\ queue[m] # c
        BY <1>t, <2>1, <3>1
      <4>2. /\ text[queue[m]] # <<>> /\ outcome[queue[m]] = None
            /\ queue[m] # resolveCurrent
        BY <3>1 DEF IInv, Placed
      <4> QED
        BY <1>t, <2>4, <4>1, <4>2
    <3>2. CASE m = Len(queue) + 1
      BY <1>1, <1>t, <2>1, <2>2, <2>4, <3>2
    <3> QED
      BY <2>3, <3>1, <3>2
  <2>6. \A m, n \in 1..Len(queue') : queue'[m] = queue'[n] => m = n
    BY <2>1, <2>3 DEF IInv, Placed
  <2>7. /\ resolveCurrent' # None => /\ text'[resolveCurrent'] # <<>>
                                     /\ outcome'[resolveCurrent'] = None
        /\ \A d \in Call : outcome'[d] # None => text'[d] # <<>>
    BY <1>1, <1>t, <2>4 DEF IInv, Placed
  <2> QED
    BY <2>5, <2>6, <2>7 DEF Placed
<1>5. Guarded'
  BY DEF IInv, Guarded, Eval, watch
<1>6. Isolated'
  <2>1. Orderly' => Orderly
    BY <1>1, <1>t DEF Orderly, Eval
  <2> QED
    BY <2>1 DEF IInv, Isolated, Eval, repl
<1> QED
  BY <1>2, <1>3, <1>4, <1>5, <1>6 DEF IInv

\* The head of the queue leaves it.
LEMMA TailEffect ==
    ASSUME IInv, queue # <<>>
    PROVE  /\ Head(queue) \in Call /\ text[Head(queue)] # <<>> /\ outcome[Head(queue)] = None
           /\ Tail(queue) \in Seq(Call)
           /\ \A m \in 1..Len(Tail(queue)) :
                  /\ Tail(queue)[m] \in Call /\ text[Tail(queue)[m]] # <<>>
                  /\ outcome[Tail(queue)[m]] = None
                  /\ Tail(queue)[m] # Head(queue) /\ Tail(queue)[m] # resolveCurrent
           /\ \A m, n \in 1..Len(Tail(queue)) : Tail(queue)[m] = Tail(queue)[n] => m = n
<1>0. queue \in Seq(Call) /\ Len(queue) \in Nat
  BY DEF IInv, TypeOK
<1>1. /\ 1 \in 1..Len(queue) /\ Head(queue) = queue[1] /\ Tail(queue) \in Seq(Call)
      /\ \A n \in 1..Len(queue) : queue[n] \in Call
  BY <1>0
<1>2. \A m \in 1..Len(Tail(queue)) :
          m \in Nat /\ m + 1 \in 1..Len(queue) /\ m + 1 # 1 /\ Tail(queue)[m] = queue[m + 1]
  BY <1>0
<1>3. \A m, n \in 1..Len(Tail(queue)) : Tail(queue)[m] = Tail(queue)[n] => m = n
  <2> SUFFICES ASSUME NEW m \in 1..Len(Tail(queue)), NEW n \in 1..Len(Tail(queue)),
                      Tail(queue)[m] = Tail(queue)[n]
               PROVE  m = n
    OBVIOUS
  <2>1. m + 1 = n + 1
    BY <1>2 DEF IInv, Placed
  <2> QED
    BY <1>2, <2>1
<1> QED
  BY <1>1, <1>2, <1>3 DEF IInv, Placed

LEMMA RunLineKeeps == ASSUME IInv, RunLine PROVE IInv'
<1> DEFINE c == Head(queue)
<1>q. queue # <<>> /\ resolveCurrent = None /\ ~closed /\ queue' = Tail(queue)
  BY DEF RunLine, ChainAdvances, Writes
<1>h. c \in Call /\ text[c] # <<>> /\ outcome[c] = None
  BY <1>q, TailEffect
<1>0. PICK r \in Reading(c) :
        /\ unfinished' = [unfinished EXCEPT ![c] = r.started]
        /\ bufferedCommand' = r.left
        /\ IF r.prompts
           THEN /\ outcome' = [outcome EXCEPT ![c] = "prompt"]
                /\ resolveCurrent' = None /\ watchdog' = None
                /\ UNCHANGED timers
           ELSE /\ resolveCurrent' = c /\ watchdog' = c
                /\ timers' = timers \cup {c}
                /\ UNCHANGED outcome
  BY DEF RunLine
<1>r. r.prompts \in BOOLEAN /\ r.started \in Nat /\ r.left \subseteq Call
  BY <1>h, ReadingType DEF IInv
<1>u. checks' = checks \cup {c} /\ UNCHANGED <<text, bufferFound, closed>>
  BY DEF RunLine
<1>t. /\ queue \in Seq(Call) /\ outcome \in [Call -> Outcome \cup {None}]
      /\ unfinished \in [Call -> Nat] /\ bufferedCommand \subseteq Call
      /\ timers = {} /\ watchdog = None
  BY <1>q DEF IInv, TypeOK, Guarded
<1> HIDE DEF c
<1>o. \A d \in Call : outcome'[d] = IF d = c /\ r.prompts THEN "prompt" ELSE outcome[d]
  BY <1>0, <1>h, <1>t
<1>1. TypeOK'
  <2>1. queue' \in Seq(Call)
    BY <1>q, TailEffect
  <2>2. outcome' \in [Call -> Outcome \cup {None}]
    BY <1>0, <1>t DEF Outcome
  <2>3. /\ resolveCurrent' \in Call \cup {None} /\ watchdog' \in Call \cup {None}
        /\ timers' \subseteq Call
    BY <1>0, <1>h, <1>t
  <2>4. unfinished' \in [Call -> Nat] /\ bufferedCommand' \subseteq Call
    BY <1>0, <1>r, <1>t
  <2> QED
    BY <1>h, <1>u, <2>1, <2>2, <2>3, <2>4 DEF IInv, TypeOK
<1>2. Numbered'
  BY <1>u DEF IInv, Numbered, Submitted
<1>3. Placed'
  <2>1. \A m \in 1..Len(queue') : /\ queue'[m] \in Call /\ queue'[m] # c
                                  /\ text[queue'[m]] # <<>> /\ outcome[queue'[m]] = None
    BY <1>q, TailEffect DEF c
  <2>2. \A m, n \in 1..Len(queue') : queue'[m] = queue'[n] => m = n
    BY <1>q, TailEffect
  <2>3. \A m \in 1..Len(queue') : queue'[m] # resolveCurrent'
    BY <1>0, <2>1, CallAssumption
  <2>4. resolveCurrent' # None => resolveCurrent' = c /\ ~r.prompts
    BY <1>0
  <2>5. \A d \in Call : outcome'[d] # None => text'[d] # <<>>
    BY <1>h, <1>o, <1>u DEF IInv, Placed
  <2>6. \A m \in 1..Len(queue') : text'[queue'[m]] # <<>> /\ outcome'[queue'[m]] = None
    BY <1>o, <1>u, <2>1
  <2>7. resolveCurrent' # None => text'[resolveCurrent'] # <<>> /\ outcome'[resolveCurrent'] = None
    BY <1>h, <1>o, <1>u, <2>4
  <2> QED
    BY <2>2, <2>3, <2>5, <2>6, <2>7 DEF Placed
<1>4. Guarded'
  BY <1>0, <1>h, <1>q, <1>t, <1>u, CallAssumption DEF Guarded
<1>5. Isolated'
  <2> SUFFICES ASSUME Orderly'
               PROVE  /\ \A d \in Call : unfinished'[d] > 0 =>
                            /\ d = resolveCurrent' /\ unfinished'[d] = 1
                            /\ bufferedCommand' = {}
                      /\ bufferedCommand' \subseteq {resolveCurrent'}
    BY DEF Isolated
  <2>1. Orderly
    BY <1>h, <1>o, <1>u, CallAssumption DEF Orderly, Outcome
  <2>2. bufferedCommand = {} /\ \A d \in Call : ~(unfinished[d] > 0)
    BY <1>q, <1>t, <2>1, CallAssumption DEF IInv, Isolated
  <2>3. text[c] \in Seq(Statement) /\ Len(text[c]) = 1
    <3>1. text[c] \in Text /\ Len(text[c]) <= 1
      BY <1>h, <2>1 DEF IInv, TypeOK, Orderly
    <3>2. text[c] \in Seq(Statement) /\ text[c] # <<>>
      BY <3>1, TextAssumption
    <3>3. Len(text[c]) \in Nat /\ Len(text[c]) > 0
      BY <3>2, LengthOne
    <3> QED
      BY <3>1, <3>2, <3>3
  <2>4. r = Read(c, text[c])
    BY <2>2 DEF Reading
  <2>5. \A d \in Call : unfinished'[d] = IF d = c THEN r.started ELSE unfinished[d]
    BY <1>0, <1>t
  <2>6. CASE r.prompts /\ r.started = 0 /\ r.left = {}
    BY <1>0, <2>2, <2>5, <2>6
  <2>7. CASE ~r.prompts /\ r.started = 1 /\ r.left = {}
    BY <1>0, <2>2, <2>5, <2>7
  <2>8. CASE ~r.prompts /\ r.started = 0 /\ r.left = {c}
    BY <1>0, <2>2, <2>5, <2>8
  <2> QED
    BY <1>h, <2>3, <2>4, <2>6, <2>7, <2>8, ReadOne
<1> QED
  BY <1>1, <1>2, <1>3, <1>4, <1>5 DEF IInv

LEMMA SkipLineKeeps == ASSUME IInv, SkipLine PROVE IInv'
<1> DEFINE c == Head(queue)
<1>q. /\ queue # <<>> /\ resolveCurrent = None /\ closed /\ queue' = Tail(queue)
      /\ outcome' = [outcome EXCEPT ![c] = "closed"]
      /\ UNCHANGED <<text, resolveCurrent, watch, repl, closed>>
  BY DEF SkipLine, ChainAdvances, Writes
<1>h. c \in Call /\ text[c] # <<>>
  BY <1>q, TailEffect
<1>t. outcome \in [Call -> Outcome \cup {None}]
  BY DEF IInv, TypeOK
<1>g. \A m \in 1..Len(queue') : /\ queue'[m] \in Call /\ queue'[m] # c
                                /\ text[queue'[m]] # <<>> /\ outcome[queue'[m]] = None
  BY <1>q, TailEffect
<1> HIDE DEF c
<1>o. \A d \in Call : outcome'[d] = IF d = c THEN "closed" ELSE outcome[d]
  BY <1>q, <1>h, <1>t
<1>1. TypeOK'
  <2>1. queue' \in Seq(Call) /\ outcome' \in [Call -> Outcome \cup {None}]
    BY <1>q, <1>t, TailEffect DEF Outcome
  <2> QED
    BY <1>q, <2>1 DEF IInv, TypeOK, watch, repl
<1>2. Numbered'
  BY <1>q DEF IInv, Numbered, Submitted
<1>3. Placed'
  <2>1. \A m, n \in 1..Len(queue') : queue'[m] = queue'[n] => m = n
    BY <1>q, TailEffect
  <2>2. \A m \in 1..Len(queue') : /\ text'[queue'[m]] # <<>> /\ outcome'[queue'[m]] = None
                                  /\ queue'[m] # resolveCurrent'
    BY <1>q, <1>g, <1>o, CallAssumption
  <2>3. \A d \in Call : outcome'[d] # None => text'[d] # <<>>
    BY <1>q, <1>h, <1>o DEF IInv, Placed
  <2> QED
    BY <1>q, <2>1, <2>2, <2>3 DEF Placed
<1>4. Guarded' /\ Isolated'
  BY <1>q DEF IInv, Guarded, Isolated, watch
<1> QED
  BY <1>1, <1>2, <1>3, <1>4 DEF IInv

LEMMA PromptKeeps == ASSUME IInv, NEW c \in Call, PromptWritten(c) PROVE IInv'
<1>0. /\ unfinished[c] > 0 /\ unfinished' = [unfinished EXCEPT ![c] = @ - 1]
      /\ Settle("prompt", {})
      /\ UNCHANGED <<queue, text, checks, bufferedCommand, bufferFound, closed>>
  BY DEF PromptWritten
<1>p. "prompt" \in Outcome
  BY DEF Outcome
<1>t. unfinished \in [Call -> Nat]
  BY DEF IInv, TypeOK
<1>1. TypeOK'
  <2>1. unfinished' \in [Call -> Nat]
    BY <1>0, <1>t
  <2> QED
    BY <1>0, <1>p, <2>1, SettleEffect DEF IInv, TypeOK
<1>2. Numbered' /\ Placed' /\ Guarded'
  BY <1>0, <1>p, SettleKeeps DEF Guarded
<1>3. Isolated'
  <2> SUFFICES ASSUME Orderly', ~closed'
               PROVE  /\ \A d \in Call : ~(unfinished'[d] > 0)
                      /\ bufferedCommand' = {}
    BY DEF Isolated
  <2>1. Orderly /\ ~closed
    BY <1>0, <1>p, SettleKeeps
  <2>2. /\ \A d \in Call : unfinished[d] > 0 => d = c
        /\ unfinished[c] = 1 /\ bufferedCommand = {}
    BY <1>0, <2>1 DEF IInv, Isolated
  <2> QED
    BY <1>0, <1>t, <2>2
<1> QED
  BY <1>1, <1>2, <1>3 DEF IInv

LEMMA CheckPassesKeeps == ASSUME IInv, NEW c \in Call, CheckPasses(c) PROVE IInv'
<1>0. /\ checks' = checks \ {c}
      /\ UNCHANGED <<queue, text, outcome, resolveCurrent, watchdog, timers, bufferedCommand,
                     bufferFound, unfinished, closed>>
  BY DEF CheckPasses, evals, repl
<1> QED
  BY <1>0 DEF IInv, TypeOK, Numbered, Submitted, Placed, Guarded, Isolated, Orderly

LEMMA CheckRecoversKeeps == ASSUME IInv, NEW c \in Call, CheckRecovers(c) PROVE IInv'
<1>0. /\ checks' = checks \ {c} /\ bufferedCommand # {} /\ bufferedCommand' = {}
      /\ Settle("incomplete", {})
      /\ UNCHANGED <<queue, text, bufferFound, unfinished, closed>>
  BY DEF CheckRecovers, BufferAfterRecovery
<1>p. "incomplete" \in Outcome
  BY DEF Outcome
<1>1. TypeOK'
  BY <1>0, <1>p, SettleEffect DEF IInv, TypeOK
<1>2. Numbered' /\ Placed' /\ Guarded'
  BY <1>0, <1>p, SettleKeeps DEF Guarded
<1>3. Isolated'
  <2>1. Orderly' => Orderly
    BY <1>0, <1>p, SettleKeeps
  <2> QED
    BY <1>0, <2>1 DEF IInv, Isolated
<1> QED
  BY <1>1, <1>2, <1>3 DEF IInv

LEMMA WatchdogKeeps == ASSUME IInv, NEW c \in Call, WatchdogFires(c) PROVE IInv'
<1>0. /\ c \in timers /\ bufferedCommand' = {}
      /\ Settle("timeout", {c})
      /\ UNCHANGED <<queue, text, checks, bufferFound, unfinished, closed>>
  BY DEF WatchdogFires
<1>p. "timeout" \in Outcome
  BY DEF Outcome
<1>1. TypeOK'
  BY <1>0, <1>p, SettleEffect DEF IInv, TypeOK
<1>2. Numbered' /\ Placed' /\ Guarded'
  BY <1>0, <1>p, SettleKeeps DEF Guarded
<1>3. resolveCurrent # None
  BY <1>0 DEF IInv, Guarded
<1>4. ~Orderly'
  BY <1>0, <1>p, <1>3, SettleKeeps
<1>5. Isolated'
  BY <1>4 DEF Isolated
<1> QED
  BY <1>1, <1>2, <1>5 DEF IInv

LEMMA CloseKeeps == ASSUME IInv, Close PROVE IInv'
<1>0. /\ closed' = TRUE /\ Settle("closed", {})
      /\ UNCHANGED <<queue, text, checks, bufferedCommand, bufferFound, unfinished>>
  BY DEF Close, repl
<1>p. "closed" \in Outcome
  BY DEF Outcome
<1>1. TypeOK'
  BY <1>0, <1>p, SettleEffect DEF IInv, TypeOK
<1>2. Numbered' /\ Placed' /\ Guarded' /\ Isolated'
  BY <1>0, <1>p, SettleKeeps DEF Guarded, Isolated
<1> QED
  BY <1>1, <1>2 DEF IInv

LEMMA NextIInv == IInv /\ [Next]_vars => IInv'
<1> SUFFICES ASSUME IInv, [Next]_vars PROVE IInv'
  OBVIOUS
<1>1. CASE UNCHANGED vars
  BY <1>1 DEF vars, evals, watch, repl, IInv, TypeOK, Numbered, Submitted, Placed, Guarded,
              Isolated, Orderly
<1>2. CASE RunLine \/ SkipLine \/ Close
  BY <1>2, RunLineKeeps, SkipLineKeeps, CloseKeeps
<1>3. ASSUME NEW c \in Call, \/ Eval(c) \/ PromptWritten(c) \/ WatchdogFires(c)
                             \/ CheckPasses(c) \/ CheckRecovers(c)
      PROVE  IInv'
  BY <1>3, EvalKeeps, PromptKeeps, WatchdogKeeps, CheckPassesKeeps, CheckRecoversKeeps
<1> QED
  BY <1>1, <1>2, <1>3 DEF Next

-----------------------------------------------------------------------------
(* The queue of eval() calls implements SerialQueue                        *)

Over == {c \in Call : outcome[c] # None}

\* What a step does to the one worker.
Stays   == queue' = queue /\ resolveCurrent' = resolveCurrent /\ Over' = Over
Submits(c) ==
    /\ c # resolveCurrent /\ c \notin Over /\ \A n \in DOMAIN queue : queue[n] # c
    /\ queue' = Append(queue, c) /\ resolveCurrent' = resolveCurrent /\ Over' = Over
Starts  == /\ resolveCurrent = None /\ queue # <<>>
           /\ queue' = Tail(queue) /\ resolveCurrent' = Head(queue) /\ Over' = Over
Passes  == /\ resolveCurrent = None /\ queue # <<>>
           /\ queue' = Tail(queue) /\ resolveCurrent' = None /\ Over' = Over \cup {Head(queue)}
Finishes == /\ resolveCurrent # None /\ queue' = queue
            /\ resolveCurrent' = None /\ Over' = Over \cup {resolveCurrent}

Works == Stays \/ Starts \/ Passes \/ Finishes \/ \E c \in Call : Submits(c)

LEMMA WorkIsChainStep == Works => [Chain!Next]_(Chain!vars)
<1> SUFFICES ASSUME Works PROVE [Chain!Next]_(Chain!vars)
  OBVIOUS
<1> DEFINE w == [v \in {"session"} |-> queue]
           r == [v \in {"session"} |-> resolveCurrent]
           f == [v \in {"session"} |-> {c \in Call : outcome[c] # None}]
<1>0. /\ w["session"] = queue /\ r["session"] = resolveCurrent /\ f["session"] = Over
      /\ w' = [w EXCEPT !["session"] = queue'] /\ r' = [r EXCEPT !["session"] = resolveCurrent']
      /\ f' = [f EXCEPT !["session"] = Over']
  BY DEF Over
<1>1. /\ queue' = queue => w' = w
      /\ resolveCurrent' = resolveCurrent => r' = r
      /\ Over' = Over => f' = f
  BY DEF Over
<1>2. CASE Stays
  BY <1>1, <1>2 DEF Stays, Chain!vars
<1>3. CASE Starts
  <2>1. Chain!Start("session")
    BY <1>0, <1>1, <1>3 DEF Starts, Chain!Start
  <2> QED
    BY <2>1 DEF Chain!Next
<1>4. CASE Passes
  <2>1. Chain!Pass("session")
    BY <1>0, <1>1, <1>4 DEF Passes, Chain!Pass
  <2> QED
    BY <2>1 DEF Chain!Next
<1>5. CASE Finishes
  <2>1. Chain!Finish("session")
    BY <1>0, <1>1, <1>5 DEF Finishes, Chain!Finish
  <2> QED
    BY <2>1 DEF Chain!Next
<1>6. ASSUME NEW c \in Call, Submits(c) PROVE [Chain!Next]_(Chain!vars)
  <2>1. Chain!Submit("session", c)
    BY <1>0, <1>1, <1>6 DEF Submits, Chain!Submit
  <2> QED
    BY <2>1 DEF Chain!Next
<1> QED
  BY <1>2, <1>3, <1>4, <1>5, <1>6 DEF Works

\* settle() finishes the call in flight, whichever it is, or does nothing.
LEMMA SettleWorks ==
    ASSUME IInv, NEW why \in Outcome, NEW fired, Settle(why, fired), queue' = queue
    PROVE  Works
<1>0. /\ resolveCurrent' = None
      /\ \A c \in Call : outcome'[c] = IF c = resolveCurrent THEN why ELSE outcome[c]
  BY SettleEffect
<1>1. why # None /\ resolveCurrent \in Call \cup {None}
  BY CallAssumption DEF IInv, TypeOK
<1>2. CASE resolveCurrent = None
  <2>1. Over' = Over
    BY <1>0, <1>2, CallAssumption DEF Over
  <2> QED
    BY <1>0, <1>2, <2>1 DEF Stays, Works
<1>3. CASE resolveCurrent # None
  <2>1. Over' = Over \cup {resolveCurrent}
    BY <1>0, <1>1, <1>3 DEF Over
  <2> QED
    BY <1>0, <1>3, <2>1 DEF Finishes, Works
<1> QED
  BY <1>2, <1>3

LEMMA NextWorks == IInv /\ [Next]_vars => Works
<1> SUFFICES ASSUME IInv, [Next]_vars PROVE Works
  OBVIOUS
<1>t. queue \in Seq(Call) /\ outcome \in [Call -> Outcome \cup {None}]
  BY DEF IInv, TypeOK
<1>1. CASE UNCHANGED vars
  BY <1>1 DEF vars, evals, Stays, Over, Works
<1>2. CASE RunLine
  <2> DEFINE c == Head(queue)
  <2>1. queue # <<>> /\ resolveCurrent = None /\ queue' = Tail(queue) /\ c \in Call
    BY <1>2, TailEffect DEF RunLine, ChainAdvances
  <2>2. \/ outcome' = [outcome EXCEPT ![c] = "prompt"] /\ resolveCurrent' = None
        \/ outcome' = outcome /\ resolveCurrent' = c
    BY <1>2 DEF RunLine
  <2>3. ASSUME outcome' = [outcome EXCEPT ![c] = "prompt"], resolveCurrent' = None
        PROVE  Works
    <3>1. "prompt" # None
      BY CallAssumption DEF Outcome
    <3>2. Over' = Over \cup {c}
      BY <1>t, <2>1, <2>3, <3>1 DEF Over
    <3> QED
      BY <2>1, <2>3, <3>2 DEF Passes, Works
  <2>4. ASSUME outcome' = outcome, resolveCurrent' = c PROVE Works
    BY <2>1, <2>4 DEF Starts, Over, Works
  <2> QED
    BY <2>2, <2>3, <2>4
<1>3. CASE SkipLine
  <2> DEFINE c == Head(queue)
  <2>1. /\ queue # <<>> /\ resolveCurrent = None /\ queue' = Tail(queue) /\ c \in Call
        /\ outcome' = [outcome EXCEPT ![c] = "closed"] /\ resolveCurrent' = None
    BY <1>3, TailEffect DEF SkipLine, ChainAdvances
  <2>2. "closed" # None
    BY CallAssumption DEF Outcome
  <2>3. Over' = Over \cup {c}
    BY <1>t, <2>1, <2>2 DEF Over
  <2> QED
    BY <2>1, <2>3 DEF Passes, Works
<1>4. CASE Close
  <2>1. Settle("closed", {}) /\ queue' = queue /\ "closed" \in Outcome
    BY <1>4 DEF Close, Outcome
  <2> QED
    BY <2>1, SettleWorks
<1>5. ASSUME NEW c \in Call, Eval(c) PROVE Works
  <2>1. /\ queue' = Append(queue, c) /\ resolveCurrent' = resolveCurrent /\ outcome' = outcome
        /\ text[c] = <<>>
    BY <1>5, NextCall DEF Eval, Submitted, IInv
  <2>2. c # resolveCurrent /\ c \notin Over /\ \A n \in DOMAIN queue : queue[n] # c
    BY <1>t, <2>1, CallAssumption DEF IInv, Placed, Over
  <2>3. Submits(c)
    BY <2>1, <2>2 DEF Submits, Over
  <2> QED
    BY <2>3 DEF Works
<1>6. ASSUME NEW c \in Call, PromptWritten(c) PROVE Works
  <2>1. Settle("prompt", {}) /\ queue' = queue /\ "prompt" \in Outcome
    BY <1>6 DEF PromptWritten, Outcome
  <2> QED
    BY <2>1, SettleWorks
<1>7. ASSUME NEW c \in Call, WatchdogFires(c) PROVE Works
  <2>1. Settle("timeout", {c}) /\ queue' = queue /\ "timeout" \in Outcome
    BY <1>7 DEF WatchdogFires, Outcome
  <2> QED
    BY <2>1, SettleWorks
<1>8. ASSUME NEW c \in Call, CheckPasses(c) PROVE Works
  BY <1>8 DEF CheckPasses, evals, Stays, Over, Works
<1>9. ASSUME NEW c \in Call, CheckRecovers(c) PROVE Works
  <2>1. Settle("incomplete", {}) /\ queue' = queue /\ "incomplete" \in Outcome
    BY <1>9 DEF CheckRecovers, Outcome
  <2> QED
    BY <2>1, SettleWorks
<1> QED
  BY <1>1, <1>2, <1>3, <1>4, <1>5, <1>6, <1>7, <1>8, <1>9 DEF Next

-----------------------------------------------------------------------------
(* The theorems                                                            *)

\* Every state of the session satisfies the inductive invariant.
THEOREM Invariance == Spec => []IInv
<1> QED
  BY InitIInv, NextIInv, PTL DEF Spec

\* Whichever way an evaluation ends, the watchdog that stays armed is that of the call
\* in flight: it never reports a call that is over (205-214, 246-250).
THEOREM WatchdogIsCurrent == Spec => []WatchdogGuardsCurrent
<1>1. IInv => WatchdogGuardsCurrent
  BY DEF IInv, Guarded, WatchdogGuardsCurrent
<1> QED
  BY <1>1, Invariance, PTL

\* close() resolves the call in flight, and no later one comes to be in flight
\* (228-233, 265-269).
THEOREM ClosedSessionIsIdle == Spec => []ClosedKeepsNobodyWaiting
<1>1. IInv => ClosedKeepsNobodyWaiting
  BY DEF IInv, Guarded, ClosedKeepsNobodyWaiting
<1> QED
  BY <1>1, Invariance, PTL

\* Calls of single statements do not reach into each other unless one is cut off, for
\* any number of calls (45-54, 194-203).
THEOREM SingleStatementsAreIsolated == Spec => []EvalsAreIsolated
<1>1. IInv => EvalsAreIsolated
  <2> SUFFICES ASSUME IInv, Orderly, ~closed
               PROVE  /\ \A c \in Call : outcome[c] = "prompt" => unfinished[c] = 0
                      /\ bufferedCommand \subseteq {resolveCurrent}
    BY DEF EvalsAreIsolated
  <2>1. ASSUME NEW c \in Call, outcome[c] = "prompt" PROVE unfinished[c] = 0
    <3>1. c # resolveCurrent
      BY <2>1, CallAssumption DEF IInv, Placed, Outcome
    <3>2. ~(unfinished[c] > 0) /\ unfinished[c] \in Nat
      BY <3>1 DEF IInv, Isolated, TypeOK
    <3> QED
      BY <3>2
  <2> QED
    BY <2>1 DEF IInv, Isolated
<1> QED
  BY <1>1, Invariance, PTL

\* For any calls and texts, calls are taken up in the order of eval(), one at a time, and
\* resolved once, although a prompt settles whichever call is in flight (205-263).
THEOREM CallsAreSerial == Spec => EvaluatesSerially
<1>1. Init => Chain!Init
  BY DEF Init, Chain!Init
<1>2. IInv /\ [Next]_vars => [Chain!Next]_(Chain!vars)
  BY NextWorks, WorkIsChainStep
<1> QED
  BY <1>1, <1>2, Invariance, PTL DEF Spec, EvaluatesSerially, Chain!Spec

\* However node:repl's output is cut into chunks, every prompt settles, no part of one
\* is forwarded, and nothing else is held back or lost, whatever the sentinel and however
\* long the output (122-168).
THEOREM OutputIsNeverCut == Spec => []OutputIsNotCut
<1>1. OutputIsNotCut
  BY OutputsAreNotCut DEF OutputIsNotCut
<1> QED
  BY <1>1, PTL

=============================================================================
