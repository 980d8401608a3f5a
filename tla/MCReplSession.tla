---------------------------- MODULE MCReplSession ----------------------------
(* Instances of ReplSession and OutputFilter for TLC. *)
EXTENDS ReplSession, OutputFilter

CONSTANT MaxStatements

\* Every text of at most MaxStatements statements, incomplete only at its end.
MCText ==
    {t \in UNION {[1..n -> Statement] : n \in 1..MaxStatements} :
        \A n \in 1..(Len(t) - 1) : t[n] # "open"}

\* A sentinel whose beginning repeats, as that of the code does.
MCSentinel == <<"<", "<", "d">>
MCContinuationPrompt == <<"|">>

Unused == \A c \in Call : text[c] = <<>>

\* However node:repl's output is cut into chunks, every prompt settles, no part of
\* one is forwarded, and nothing else is held back or lost (122-168).  What may come
\* out of a session does not depend on its calls: a session without any stands for all.
OutputIsNotCut == Unused => CutsDoNotShow

=============================================================================
