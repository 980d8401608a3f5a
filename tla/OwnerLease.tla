------------------------------ MODULE OwnerLease ------------------------------
(***************************************************************************)
(* The timing of the ownership lease: one tenure of an owner, seen by one  *)
(* peer.  RemoteReplEngine lets a lease lapse at any time; this module     *)
(* says when the clocks allow it.  Time is discrete and kept as ages, so   *)
(* nothing grows without bound and no clock is shared.                     *)
(*                                                                         *)
(* Assumed of the environment, and named in the constants: a claim reaches *)
(* the peer within MaxDelay, a timer fires at most MaxLag late, and a      *)
(* session that is not refused by the context factory exists MaxSetup      *)
(* after the claim.  No claim is lost.  A tenure runs up to the takeover;  *)
(* a release ends it as well and is not modelled.                          *)
(***************************************************************************)
EXTENDS Integers

CONSTANTS HeartbeatInterval,  \* RemoteReplOptions.ownerHeartbeatInterval
          RequestedLeaseTtl,  \* RemoteReplOptions.ownerLeaseTtl
          MaxDelay, MaxLag, MaxSetup

ASSUME OptionsAssumption == HeartbeatInterval \in Nat \ {0} /\ RequestedLeaseTtl \in Nat
ASSUME DelaysAssumption  == MaxDelay \in Nat /\ MaxLag \in Nat /\ MaxSetup \in Nat
\* The constructor's margin: all that may be late fits in one heartbeat interval.
ASSUME SlackAssumption   == MaxSetup + MaxLag + MaxDelay <= HeartbeatInterval

VARIABLES
    tenure,     \* how the owner fares, see TypeOK
    setup,      \* age of the claim until the session exists
    tick,       \* time since the heartbeat timer last fired
    flying,     \* ages of the claims on their way to the peer
    known,      \* the peer's ownership record names the owner
    seen,       \* age of the peer's ownerSeenAt record, -1 without one
    abandoned,  \* time since the session failed or the process died
    excused     \* time since something the lease does not provide for

vars == <<tenure, setup, tick, flying, known, seen, abandoned, excused>>

LeaseAsRequested == RequestedLeaseTtl

\* The constructor clamps the lease to two heartbeat intervals.
OwnerLeaseTtl ==
    IF RequestedLeaseTtl < 2 * HeartbeatInterval
    THEN 2 * HeartbeatInterval ELSE RequestedLeaseTtl

\* From a claim to the heartbeat that renews it.
Longest == MaxSetup + HeartbeatInterval + MaxLag

\* Ages beyond these tell nothing new.
SeenCap      == OwnerLeaseTtl + 1
AbandonedCap == OwnerLeaseTtl + MaxDelay + 1
ExcusedCap   == Longest + MaxDelay + 1
Older(age, cap) == IF age < cap THEN age + 1 ELSE age

Ownerless == tenure \in {"failed", "dead"}

TypeOK ==
    /\ tenure \in {"none",     \* nobody claimed the channel yet
                   "claimed",  \* claimed, the session is not there yet
                   "live",     \* running with a session
                   "failed",   \* the context factory threw: owner without a session
                   "dead",     \* the process died
                   "taken"}    \* the peer took the channel over
    /\ setup \in 0..MaxSetup
    /\ tick \in 0..(HeartbeatInterval + MaxLag)
    /\ flying \subseteq 0..MaxDelay
    /\ known \in BOOLEAN
    /\ seen \in -1..SeenCap
    /\ abandoned \in 0..AbandonedCap
    /\ excused \in 0..ExcusedCap

Init ==
    /\ tenure = "none" /\ setup = 0
    /\ tick \in 0..HeartbeatInterval
    /\ flying = {} /\ known = FALSE /\ seen = -1
    /\ abandoned = 0 /\ excused = ExcusedCap

\* onCmd() claims on behalf of the first command.
Claim ==
    /\ tenure = "none"
    /\ tenure' = "claimed"
    /\ setup' = 0
    /\ flying' = flying \cup {0}
    /\ UNCHANGED <<tick, known, seen, abandoned, excused>>

\* ensureSession()
SessionReady ==
    /\ tenure = "claimed"
    /\ tenure' = "live"
    /\ UNCHANGED <<setup, tick, flying, known, seen, abandoned, excused>>

SessionFails ==
    /\ tenure = "claimed"
    /\ tenure' = "failed"
    /\ abandoned' = 0
    /\ UNCHANGED <<setup, tick, flying, known, seen, excused>>

\* The owner's next command runs as that of the owner, claims nothing, and this time
\* the factory returns: the peers hear of it with the next heartbeat only.  A further
\* failure would change nothing.
SessionComesLate ==
    /\ tenure = "failed"
    /\ tenure' = "live"
    /\ excused' = 0
    /\ UNCHANGED <<setup, tick, flying, known, seen, abandoned>>

RenewsWithoutSession == tenure \in {"claimed", "live", "failed"}

\* heartbeatOwnedChannels() skips a channel without a session.
Renews == tenure = "live"

\* The setInterval callback; it runs as long as the process does.
Heartbeat ==
    /\ tenure # "dead"
    /\ tick >= HeartbeatInterval
    /\ tick' = 0
    /\ flying' = IF Renews THEN flying \cup {0} ELSE flying
    /\ UNCHANGED <<tenure, setup, known, seen, abandoned, excused>>

\* onSys() at the peer: the transport is first in first out.
Deliver ==
    /\ \E age \in flying :
         /\ \A other \in flying : other <= age
         /\ flying' = flying \ {age}
    /\ known' = TRUE
    /\ seen' = 0
    /\ UNCHANGED <<tenure, setup, tick, abandoned, excused>>

\* maybeEvict() at the peer forgets when it heard of the owner, not who it is.  Whether
\* the peer's buffer is empty is left open: it may evict at any time.
PeerEvicts ==
    /\ seen >= 0
    /\ seen' = -1
    /\ excused' = 0
    /\ UNCHANGED <<tenure, setup, tick, flying, known, abandoned>>

Crash ==
    /\ tenure \in {"claimed", "live", "failed"}
    /\ tenure' = "dead"
    /\ abandoned' = IF tenure = "failed" THEN abandoned ELSE 0
    /\ UNCHANGED <<setup, tick, flying, known, seen, excused>>

\* leaseExpired in the peer's onCmd(): a missing record reads as one of time 0.
Expired == known /\ (seen = -1 \/ seen > OwnerLeaseTtl)

\* The peer dispatches a command and finds the lease expired.
TakeOver ==
    /\ tenure \notin {"none", "taken"}
    /\ Expired
    /\ tenure' = "taken"
    /\ UNCHANGED <<setup, tick, flying, known, seen, abandoned, excused>>

\* Time passes unless something is due now.
Pass ==
    /\ MaxDelay \notin flying
    /\ tenure = "claimed" => setup < MaxSetup
    /\ tenure # "dead" => tick < HeartbeatInterval + MaxLag
    /\ setup' = IF tenure = "claimed" THEN setup + 1 ELSE setup
    /\ tick' = IF tenure = "dead" THEN tick ELSE tick + 1
    /\ flying' = {age + 1 : age \in flying}
    /\ seen' = IF seen = -1 THEN seen ELSE Older(seen, SeenCap)
    /\ abandoned' = IF Ownerless THEN Older(abandoned, AbandonedCap) ELSE abandoned
    /\ excused' = Older(excused, ExcusedCap)
    /\ UNCHANGED <<tenure, known>>

Next == \/ Claim \/ SessionReady \/ SessionFails \/ SessionComesLate \/ Heartbeat
        \/ Deliver \/ PeerEvicts \/ Crash \/ TakeOver \/ Pass

Spec == Init /\ [][Next]_vars

-----------------------------------------------------------------------------

\* "a live owner always has at least one full heartbeat interval of slack"
\* (remote-repl-engine.ts:128-137): whatever lease was requested, a live owner looks
\* stale to a peer only for a while after its session came late or the peer evicted the
\* channel, namely until its next heartbeat arrives, within two heartbeat intervals.
LiveOwnerStaleOnlyBriefly ==
    tenure \in {"claimed", "live"} /\ Expired => excused <= Longest + MaxDelay

\* An owner that died, or never got its session, holds the channel for no longer
\* than a lease and a delivery: the channel is not wedged (362-368).
AbandonedBecomesClaimable ==
    Ownerless /\ abandoned > OwnerLeaseTtl + MaxDelay => Expired

(* The inductive invariant behind the two.                                  *)

\* Not older than the next claim can explain: one on its way, or the one to come.
Recent(age) ==
    \/ \E sent \in flying : age <= Longest + sent
    \/ flying = {} /\ tenure = "claimed" /\ age <= setup
    \/ flying = {} /\ tenure = "live" /\ age <= MaxSetup + tick

\* The peer's record of a live owner is recent, or the excuse for having none is.
RecordYoung ==
    tenure \in {"claimed", "live"} =>
        Recent(excused) \/ (Recent(seen) /\ (known => seen >= 0))

\* What the peer still hears of an abandoned channel was sent before.
NothingSentSince ==
    Ownerless => \/ flying # {} /\ \A age \in flying : abandoned <= age
                 \/ flying = {} /\ (seen = -1 \/ abandoned <= seen + MaxDelay)

\* The tenure starts with a claim, and the peer hears of it.
Announced ==
    /\ tenure = "none" => flying = {} /\ ~known
    /\ tenure # "none" => flying # {} \/ known
    /\ ~known => seen = -1

Inv == TypeOK /\ Announced /\ RecordYoung /\ NothingSentSince

=============================================================================
