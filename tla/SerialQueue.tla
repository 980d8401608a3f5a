------------------------------ MODULE SerialQueue ------------------------------
(***************************************************************************)
(* Workers that each run jobs one at a time, in the order of submission,   *)
(* and no job twice: what the promise chains of the code are for.  A       *)
(* mortal worker may die, which loses what it has not finished.            *)
(***************************************************************************)
EXTENDS Sequences

CONSTANTS
    Worker,
    Mortal,     \* the workers that may die
    Job,
    None

VARIABLES
    waiting,    \* the jobs each worker has yet to begin, in order
    running,    \* the job it is at
    finished    \* the jobs it is through with

vars == <<waiting, running, finished>>

TypeOK ==
    /\ waiting \in [Worker -> Seq(Job)]
    /\ running \in [Worker -> Job \cup {None}]
    /\ finished \in [Worker -> SUBSET Job]

Init ==
    /\ waiting = [w \in Worker |-> <<>>]
    /\ running = [w \in Worker |-> None]
    /\ finished = [w \in Worker |-> {}]

\* A job is submitted to a worker that does not have it.
Submit(w, j) ==
    /\ j # running[w] /\ j \notin finished[w]
    /\ \A n \in DOMAIN waiting[w] : waiting[w][n] # j
    /\ waiting' = [waiting EXCEPT ![w] = Append(@, j)]
    /\ UNCHANGED <<running, finished>>

Start(w) ==
    /\ running[w] = None /\ waiting[w] # <<>>
    /\ running' = [running EXCEPT ![w] = Head(waiting[w])]
    /\ waiting' = [waiting EXCEPT ![w] = Tail(@)]
    /\ UNCHANGED finished

\* A job that is over as soon as it is begun.
Pass(w) ==
    /\ running[w] = None /\ waiting[w] # <<>>
    /\ finished' = [finished EXCEPT ![w] = @ \cup {Head(waiting[w])}]
    /\ waiting' = [waiting EXCEPT ![w] = Tail(@)]
    /\ UNCHANGED running

Finish(w) ==
    /\ running[w] # None
    /\ finished' = [finished EXCEPT ![w] = @ \cup {running[w]}]
    /\ running' = [running EXCEPT ![w] = None]
    /\ UNCHANGED waiting

Die(w) ==
    /\ w \in Mortal
    /\ waiting' = [waiting EXCEPT ![w] = <<>>]
    /\ running' = [running EXCEPT ![w] = None]
    /\ UNCHANGED finished

Next ==
    \E w \in Worker :
        \/ \E j \in Job : Submit(w, j)
        \/ Start(w) \/ Pass(w) \/ Finish(w) \/ Die(w)

Spec == Init /\ [][Next]_vars

=============================================================================
