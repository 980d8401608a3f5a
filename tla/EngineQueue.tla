------------------------------ MODULE EngineQueue ------------------------------
(***************************************************************************)
(* The execQueue of each instance, seen as a SerialQueue of commands: the  *)
(* head of the promise chain runs once it has begun, the rest waits.       *)
(***************************************************************************)
EXTENDS RemoteReplEngine

Chain(i) == state[i].execQueue

HeadRuns(i) == Chain(i) # <<>> /\ Begun(i, Head(Chain(i)))

Waiting(i) == IF HeadRuns(i) THEN Tail(Chain(i)) ELSE Chain(i)
Running(i) == IF HeadRuns(i) THEN Head(Chain(i)) ELSE None
Over(i)    == {c \in Command : phase[i][c] = "settled"}

Queue == INSTANCE SerialQueue WITH
    Worker   <- Instance,
    Mortal   <- Instance,
    Job      <- Command,
    waiting  <- [i \in Instance |-> Waiting(i)],
    running  <- [i \in Instance |-> Running(i)],
    finished <- [i \in Instance |-> Over(i)]

\* Whatever fails, is evicted, released or taken over meanwhile, an instance runs the
\* commands it accepted one at a time, in the order in which it chained them, each to
\* its end and none twice (380-425).
ExecutesSerially == Queue!Spec

=============================================================================
