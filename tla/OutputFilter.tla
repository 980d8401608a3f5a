----------------------------- MODULE OutputFilter -----------------------------
(***************************************************************************)
(* handleOutput() of packages/core/src/session/repl-session.ts: what       *)
(* node:repl writes, in chunks cut anywhere, becomes output for the client *)
(* and a settlement for each sentinel.  Texts are sequences of characters. *)
(***************************************************************************)
EXTENDS Naturals, Sequences, SequencesExt, FiniteSetsExt

CONSTANTS
    Character,
    Sentinel,             \* the prompt of the session
    ContinuationPrompt,
    Settled,              \* marks, in what was forwarded, a call of settle()
    MaxOutput             \* bound on the characters of an output

First(text, n) == SubSeq(text, 1, n)
Rest(text, n)  == SubSeq(text, n + 1, Len(text))

\* A sentinel begins with "<<" and ends with ">>", and has neither inside (55): no
\* beginning of it is also its end.
ASSUME SentinelAssumption ==
    /\ Sentinel \in Seq(Character) /\ Sentinel # <<>>
    /\ \A n \in 1..(Len(Sentinel) - 1) : First(Sentinel, n) # Rest(Sentinel, Len(Sentinel) - n)
ASSUME OutputAssumption == MaxOutput \in Nat

OccursAt(text, k) == SubSeq(text, k, k + Len(Sentinel) - 1) = Sentinel

Occurrences(text) == {k \in 1..(Len(text) - Len(Sentinel) + 1) : OccursAt(text, k)}

\* The loop: forwards what precedes the sentinel, drops it and settles.
Drained(start) ==
    LET Drain[st \in [buffer : Seq(Character), forwarded : Seq(Character \cup {Settled})]] ==
            LET found == Occurrences(st.buffer)
                idx   == Min(found) - 1
            IN IF found = {} THEN st
               ELSE Drain[[buffer    |-> Rest(st.buffer, idx + Len(Sentinel)),
                           forwarded |-> st.forwarded \o First(st.buffer, idx) \o <<Settled>>]]
    IN Drain[start]

NothingHeldBack(text) == 0

\* The longest suffix that the sentinel may begin with.
PartialSentinelSuffixLength(text) ==
    Max({n \in 0..(Len(Sentinel) - 1) :
            n <= Len(text) /\ Rest(text, Len(text) - n) = First(Sentinel, n)})

HeldBack(text) == PartialSentinelSuffixLength(text)

HandleOutput(st, text) ==
    IF text = ContinuationPrompt THEN st
    ELSE LET drained == Drained([st EXCEPT !.buffer = @ \o text])
             flush == Len(drained.buffer) - HeldBack(drained.buffer)
         IN [buffer    |-> Rest(drained.buffer, flush),
             forwarded |-> drained.forwarded \o First(drained.buffer, flush)]

Handled(chunks) == FoldLeft(HandleOutput, [buffer |-> <<>>, forwarded |-> <<>>], chunks)

-----------------------------------------------------------------------------
(* The reference, which sees the output as a whole: every sentinel is      *)
(* taken for a settlement, and all else is forwarded.                      *)

Uncut(text) ==
    LET ends == {k + Len(Sentinel) - 1 : k \in Occurrences(text)}
        inside(n) == \E e \in ends : e - Len(Sentinel) < n /\ n <= e
    IN FlattenSeq([n \in 1..Len(text) |->
           IF n \in ends THEN <<Settled>> ELSE IF inside(n) THEN <<>> ELSE <<text[n]>>])

\* The chunks as one text, without those that are exactly the continuation prompt.
Seen(chunks) ==
    FlattenSeq([n \in 1..Len(chunks) |->
        IF chunks[n] = ContinuationPrompt THEN <<>> ELSE chunks[n]])

\* What is forwarded and settled is what the whole of the output says, in its order;
\* only what may yet become a sentinel is kept waiting.
SaysTheWhole(chunks) ==
    LET st == Handled(chunks)
    IN /\ st.forwarded \o st.buffer = Uncut(Seen(chunks))
       /\ Len(st.buffer) < Len(Sentinel) /\ st.buffer = First(Sentinel, Len(st.buffer))

\* With one chunk more, of so many characters.
OneMore(cuts, k) == {Append(before, chunk) : before \in cuts, chunk \in [1..k -> Character]}

\* Every output of at most so many characters, cut into chunks in every way.
Outputs(max) ==
    LET Cut[n \in 0..max] ==
            IF n = 0 THEN {<<>>} ELSE UNION {OneMore(Cut[n - k], k) : k \in 1..n}
    IN UNION {Cut[n] : n \in 0..max}

\* However node:repl's output is cut into chunks, every prompt settles, no part of
\* one is forwarded, and nothing else is held back or lost, but a chunk that is
\* exactly the continuation prompt (122-168).
CutsDoNotShow == \A chunks \in Outputs(MaxOutput) : SaysTheWhole(chunks)

=============================================================================
