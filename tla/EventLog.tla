------------------------------- MODULE EventLog -------------------------------
(***************************************************************************)
(* A log that keeps its last entries, and a reader that comes and goes: it *)
(* reads the entries in order, each once, and leaves out only those that   *)
(* were not kept any more when it came.  Entries are numbered from 1.      *)
(***************************************************************************)
EXTENDS Naturals, Sequences

CONSTANT Size       \* the entries the log can keep

VARIABLES
    length,         \* the last entry
    kept,           \* how many of the last entries are kept
    releases,       \* how often the log was allowed to forget
    stopped,        \* it is over
    open,           \* the reader is there
    missed,         \* the last entry that was not kept when it came
    position,       \* the last entry it read, if any
    received        \* the entries it read, in order

vars == <<length, kept, releases, stopped, open, missed, position, received>>

Init ==
    /\ length = 0 /\ kept = 0 /\ releases = 0 /\ stopped = FALSE
    /\ open = FALSE /\ missed = 0 /\ position = 0 /\ received = <<>>

Add ==
    /\ ~stopped
    /\ length' = length + 1
    /\ kept' = IF kept < Size THEN kept + 1 ELSE kept
    /\ UNCHANGED <<releases, stopped, open, missed, position, received>>

\* Entries are forgotten all at once or not at all, here and at the end.
Release ==
    /\ ~stopped
    /\ releases' = releases + 1
    /\ kept' \in {0, kept}
    /\ UNCHANGED <<length, stopped, open, missed, position, received>>

Stop ==
    /\ ~stopped
    /\ stopped' = TRUE
    /\ kept' = 0
    /\ UNCHANGED <<length, releases, open, missed, position, received>>

Open ==
    /\ ~open /\ ~stopped
    /\ open' = TRUE
    /\ missed' = length - kept
    /\ UNCHANGED <<length, kept, releases, stopped, position, received>>

\* The first entry after the last one it read, or after those that were gone.
Read ==
    LET n == 1 + (IF position < missed THEN missed ELSE position)
    IN /\ open /\ n <= length
       /\ position' = n
       /\ received' = Append(received, n)
       /\ UNCHANGED <<length, kept, releases, stopped, open, missed>>

Leave ==
    /\ open
    /\ open' = FALSE
    /\ missed' = 0
    /\ UNCHANGED <<length, kept, releases, stopped, position, received>>

Next == Add \/ Release \/ Stop \/ Open \/ Read \/ Leave

Spec == Init /\ [][Next]_vars

=============================================================================
