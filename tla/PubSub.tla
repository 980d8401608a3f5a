-------------------------------- MODULE PubSub --------------------------------
(***************************************************************************)
(* What PROTOCOL.md 1.1 promises of a transport, as one instance sees it:  *)
(* "Delivery is at-most-once, in publish order per publisher."  A handler  *)
(* hears messages of its own topic, each at most once, never an older one  *)
(* after a newer one; it may miss any.  A message is its position in the   *)
(* order of publication.                                                   *)
(***************************************************************************)
EXTENDS Naturals, Sequences

CONSTANTS
    Handler,     \* the handlers that may be subscribed
    Topic,
    TopicOf      \* the topic each handler is subscribed to

VARIABLES
    published,   \* the topics of the messages, in order of publication
    heard        \* the messages each handler was called with, in order

vars == <<published, heard>>

TypeOK ==
    /\ published \in Seq(Topic)
    /\ heard \in [Handler -> Seq(Nat)]

Init ==
    /\ published = <<>>
    /\ heard = [h \in Handler |-> <<>>]

Publish(t) ==
    /\ published' = Append(published, t)
    /\ UNCHANGED heard

\* One message, for any of the handlers of its topic that heard nothing newer.
Deliver(n, audience) ==
    /\ \A h \in audience :
          /\ TopicOf[h] = published[n]
          /\ \A k \in 1..Len(heard[h]) : heard[h][k] < n
    /\ heard' = [h \in Handler |-> IF h \in audience THEN Append(heard[h], n) ELSE heard[h]]
    /\ UNCHANGED published

Next ==
    \/ \E t \in Topic : Publish(t)
    \/ \E n \in 1..Len(published), audience \in SUBSET Handler : Deliver(n, audience)

Spec == Init /\ [][Next]_vars

=============================================================================
