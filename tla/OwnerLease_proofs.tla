--------------------------- MODULE OwnerLease_proofs ---------------------------
(***************************************************************************)
(* For every heartbeat interval, requested lease and delays within the     *)
(* slack, the properties of OwnerLease hold.                               *)
(***************************************************************************)
EXTENDS OwnerLease, TLAPS

USE OptionsAssumption, DelaysAssumption DEF OptionsAssumption, DelaysAssumption

\* The clamp: the effective lease is at least two heartbeat intervals.
LEMMA LeaseClamped == OwnerLeaseTtl \in Nat /\ OwnerLeaseTtl >= 2 * HeartbeatInterval
BY DEF OwnerLeaseTtl

LEMMA Caps ==
    /\ SeenCap \in Nat /\ SeenCap = OwnerLeaseTtl + 1
    /\ AbandonedCap \in Nat /\ AbandonedCap = OwnerLeaseTtl + MaxDelay + 1
    /\ Longest \in Nat /\ Longest = MaxSetup + HeartbeatInterval + MaxLag
    /\ ExcusedCap \in Nat /\ ExcusedCap = Longest + MaxDelay + 1
BY LeaseClamped DEF SeenCap, AbandonedCap, Longest, ExcusedCap

LEMMA InitInv == Init => Inv
<1> SUFFICES ASSUME Init PROVE Inv
  OBVIOUS
<1>1. /\ tenure = "none" /\ flying = {} /\ ~known /\ known \in BOOLEAN /\ seen = -1
      /\ abandoned = 0 /\ excused = ExcusedCap /\ setup = 0 /\ tick \in 0..HeartbeatInterval
  BY DEF Init
<1>2. TypeOK
  BY <1>1, Caps DEF TypeOK
<1> QED
  BY <1>1, <1>2 DEF Inv, Announced, RecordYoung, NothingSentSince, Ownerless

\* What the type invariant says in inequalities.
Bounded ==
    /\ setup \in Nat /\ setup <= MaxSetup
    /\ tick \in Nat /\ tick <= HeartbeatInterval + MaxLag
    /\ \A age \in flying : age \in Nat /\ age <= MaxDelay
    /\ seen \in Int /\ -1 <= seen /\ seen <= SeenCap
    /\ abandoned \in Nat /\ abandoned <= AbandonedCap
    /\ excused \in Nat /\ excused <= ExcusedCap

LEMMA AgesBounded == TypeOK => Bounded
BY Caps DEF TypeOK, Bounded

LEMMA NextTypeOK == TypeOK /\ [Next]_vars => TypeOK'
<1> SUFFICES ASSUME TypeOK, [Next]_vars PROVE TypeOK'
  OBVIOUS
<1> USE Caps DEF TypeOK
<1>1. CASE Claim
  BY <1>1 DEF Claim
<1>2. CASE SessionReady
  BY <1>2 DEF SessionReady
<1>3. CASE TakeOver
  BY <1>3 DEF TakeOver
<1>4. CASE SessionFails \/ Crash
  <2>1. abandoned' \in 0..AbandonedCap
    BY <1>4 DEF SessionFails, Crash
  <2> QED
    BY <1>4, <2>1 DEF SessionFails, Crash
<1>5. CASE Heartbeat
  BY <1>5 DEF Heartbeat
<1>6. CASE Deliver
  BY <1>6 DEF Deliver
<1>7. CASE Pass
  <2>1. flying' \subseteq 0..MaxDelay
    BY <1>7 DEF Pass
  <2>2. setup' \in 0..MaxSetup /\ tick' \in 0..(HeartbeatInterval + MaxLag)
    BY <1>7 DEF Pass
  <2>3. seen' \in -1..SeenCap /\ abandoned' \in 0..AbandonedCap /\ excused' \in 0..ExcusedCap
    BY <1>7 DEF Pass, Older
  <2> QED
    BY <1>7, <2>1, <2>2, <2>3 DEF Pass
<1>8. CASE UNCHANGED vars
  BY <1>8 DEF vars
<1>9. CASE SessionComesLate \/ PeerEvicts
  <2>1. excused' \in 0..ExcusedCap /\ seen' \in -1..SeenCap
    BY <1>9 DEF SessionComesLate, PeerEvicts
  <2> QED
    BY <1>9, <2>1 DEF SessionComesLate, PeerEvicts
<1> QED
  BY <1>1, <1>2, <1>3, <1>4, <1>5, <1>6, <1>7, <1>8, <1>9 DEF Next

LEMMA NextAnnounced == TypeOK /\ Announced /\ [Next]_vars => Announced'
<1> SUFFICES ASSUME TypeOK, Announced, [Next]_vars PROVE Announced'
  OBVIOUS
<1>0. Bounded
  BY AgesBounded
<1> USE <1>0, Caps DEF Announced, Bounded
<1>1. CASE Claim
  BY <1>1 DEF Claim
<1>2. CASE SessionReady \/ SessionFails \/ SessionComesLate \/ PeerEvicts \/ Crash \/ TakeOver
  BY <1>2 DEF SessionReady, SessionFails, SessionComesLate, PeerEvicts, Crash, TakeOver
<1>3. CASE Heartbeat
  BY <1>3 DEF Heartbeat, Renews
<1>4. CASE Deliver
  BY <1>4 DEF Deliver
<1>5. CASE Pass
  BY <1>5 DEF Pass, Older
<1>6. CASE UNCHANGED vars
  BY <1>6 DEF vars
<1> QED
  BY <1>1, <1>2, <1>3, <1>4, <1>5, <1>6 DEF Next

\* Time passes for the age and for the claim that explains it alike.
LEMMA RecentPasses ==
    ASSUME TypeOK, Pass, NEW age \in Int, Recent(age), NEW later \in Int, later <= age + 1
    PROVE  \/ \E sent \in flying' : later <= Longest + sent
           \/ flying' = {} /\ tenure' = "claimed" /\ later <= setup'
           \/ flying' = {} /\ tenure' = "live" /\ later <= MaxSetup + tick'
<1> USE AgesBounded, Caps DEF Bounded
<1>1. CASE \E sent \in flying : age <= Longest + sent
  <2>1. PICK sent \in flying : age <= Longest + sent
    BY <1>1
  <2>2. sent + 1 \in flying' /\ later <= Longest + (sent + 1)
    BY <2>1 DEF Pass
  <2> QED
    BY <2>2
<1>2. CASE flying = {}
  BY <1>2 DEF Pass, Recent
<1> QED
  BY <1>1, <1>2 DEF Recent

LEMMA NextRecordYoung == TypeOK /\ Announced /\ RecordYoung /\ [Next]_vars => RecordYoung'
<1> SUFFICES ASSUME TypeOK, Announced, RecordYoung, [Next]_vars, (tenure \in {"claimed", "live"})'
             PROVE  RecordYoung'
  BY DEF RecordYoung
<1>0. Bounded
  BY AgesBounded
<1> USE <1>0, Caps DEF RecordYoung, Recent, Bounded
<1>1. CASE Claim
  <2>1. 0 \in flying' /\ seen' <= Longest + 0 /\ ~known'
    BY <1>1 DEF Claim, Announced
  <2> QED
    BY <2>1
<1>2. CASE SessionReady
  BY <1>2 DEF SessionReady
<1>3. CASE Heartbeat
  BY <1>3 DEF Heartbeat, Renews
<1>4. CASE Deliver
  <2>1. seen' = 0 /\ known' /\ UNCHANGED <<tenure, setup, tick>> /\ flying' \subseteq flying
    BY <1>4 DEF Deliver
  <2>2. CASE flying' = {}
    BY <2>1, <2>2
  <2>3. CASE flying' # {}
    <3>1. PICK sent \in flying' : sent \in Nat
      BY <2>1, <2>3
    <3> QED
      BY <2>1, <3>1
  <2> QED
    BY <2>2, <2>3
<1>5. CASE Pass
  <2>0. tenure \in {"claimed", "live"} /\ known' = known
    BY <1>5 DEF Pass
  <2>1. CASE Recent(excused)
    <3>1. excused' \in Int /\ excused' <= excused + 1
      BY <1>5 DEF Pass, Older
    <3> QED
      BY <1>5, <2>1, <3>1, RecentPasses
  <2>2. CASE Recent(seen) /\ (known => seen >= 0)
    <3>1. seen' \in Int /\ seen' <= seen + 1 /\ (seen >= 0 => seen' >= 0)
      BY <1>5 DEF Pass, Older
    <3> QED
      BY <1>5, <2>0, <2>2, <3>1, RecentPasses
  <2> QED
    BY <2>0, <2>1, <2>2
<1>6. CASE UNCHANGED vars
  BY <1>6 DEF vars
<1>7. CASE SessionFails \/ Crash \/ TakeOver
  BY <1>7 DEF SessionFails, Crash, TakeOver
<1>8. CASE SessionComesLate \/ PeerEvicts
  <2>1. excused' = 0 /\ UNCHANGED <<setup, tick, flying>>
    BY <1>8 DEF SessionComesLate, PeerEvicts
  <2>2. CASE flying' = {}
    BY <2>1, <2>2
  <2>3. CASE flying' # {}
    <3>1. PICK sent \in flying' : sent \in Nat
      BY <2>1, <2>3
    <3> QED
      BY <2>1, <3>1
  <2> QED
    BY <2>2, <2>3
<1> QED
  BY <1>1, <1>2, <1>3, <1>4, <1>5, <1>6, <1>7, <1>8 DEF Next

LEMMA NextNothingSentSince ==
    TypeOK /\ Announced /\ NothingSentSince /\ [Next]_vars => NothingSentSince'
<1> SUFFICES ASSUME TypeOK, Announced, NothingSentSince, [Next]_vars, Ownerless'
             PROVE  NothingSentSince'
  BY DEF NothingSentSince
<1>0. Bounded
  BY AgesBounded
<1> USE <1>0, Caps DEF Announced, NothingSentSince, Ownerless, Bounded
<1>1. CASE Claim \/ SessionReady \/ SessionComesLate \/ PeerEvicts \/ TakeOver
  BY <1>1 DEF Claim, SessionReady, SessionComesLate, PeerEvicts, TakeOver
<1>2. CASE SessionFails \/ Crash
  BY <1>2 DEF SessionFails, Crash
<1>3. CASE Heartbeat
  BY <1>3 DEF Heartbeat, Renews
<1>4. CASE Deliver
  BY <1>4 DEF Deliver
<1>5. CASE Pass
  <2>1. CASE flying = {}
    <3>1. flying' = {} /\ tenure # "none" /\ Ownerless
      BY <1>5, <2>1 DEF Pass
    <3>2. seen = -1 \/ (0 <= seen /\ abandoned <= seen + MaxDelay)
      BY <2>1, <3>1
    <3>3. seen' = IF 0 <= seen /\ seen < SeenCap THEN seen + 1 ELSE seen
      BY <1>5, <3>2 DEF Pass, Older
    <3>4. abandoned' = IF abandoned < AbandonedCap THEN abandoned + 1 ELSE abandoned
      BY <1>5, <3>1 DEF Pass, Older
    <3>5. seen' = -1 \/ abandoned' <= seen' + MaxDelay
      BY <3>2, <3>3, <3>4, LeaseClamped
    <3> QED
      BY <3>1, <3>5
  <2>2. CASE flying # {}
    BY <1>5, <2>2 DEF Pass, Older
  <2> QED
    BY <2>1, <2>2
<1>6. CASE UNCHANGED vars
  BY <1>6 DEF vars
<1> QED
  BY <1>1, <1>2, <1>3, <1>4, <1>5, <1>6 DEF Next

LEMMA NextInv == Inv /\ [Next]_vars => Inv'
BY NextTypeOK, NextAnnounced, NextRecordYoung, NextNothingSentSince DEF Inv

\* What is recent is younger than a lease and a delivery, by the slack assumption.
LEMMA RecentIsShort ==
    ASSUME TypeOK, NEW age \in Int, Recent(age)
    PROVE  age <= Longest + MaxDelay /\ age <= OwnerLeaseTtl
<1>1. Longest + MaxDelay <= OwnerLeaseTtl
  BY LeaseClamped, SlackAssumption, Caps DEF SlackAssumption
<1>2. age <= Longest + MaxDelay
  BY AgesBounded, Caps DEF Recent, Bounded
<1> QED
  BY <1>1, <1>2, LeaseClamped, Caps

LEMMA InvImpliesOnlyBriefly == Inv => LiveOwnerStaleOnlyBriefly
<1> SUFFICES ASSUME Inv, tenure \in {"claimed", "live"}, Expired
             PROVE  excused <= Longest + MaxDelay
  BY DEF LiveOwnerStaleOnlyBriefly
<1>0. TypeOK /\ seen \in Int /\ excused \in Int /\ OwnerLeaseTtl \in Nat
  BY AgesBounded, LeaseClamped DEF Inv, Bounded
<1>1. CASE Recent(excused)
  BY <1>0, <1>1, RecentIsShort
<1>2. CASE Recent(seen) /\ (known => seen >= 0)
  <2>1. seen <= OwnerLeaseTtl
    BY <1>0, <1>2, RecentIsShort
  <2> QED
    BY <1>0, <1>2, <2>1 DEF Expired
<1> QED
  BY <1>1, <1>2 DEF Inv, RecordYoung

\* Once all claims have arrived, the record is at least as old as the abandonment.
LEMMA InvImpliesClaimable == Inv => AbandonedBecomesClaimable
BY LeaseClamped, AgesBounded, Caps
   DEF Inv, Bounded, Announced, NothingSentSince, AbandonedBecomesClaimable, Expired, Ownerless

\* The ages stay within their bounds, and the two halves of the invariant hold.
THEOREM Invariance == Spec => []Inv
BY InitInv, NextInv, PTL DEF Spec

\* However small a lease was requested (the constructor's clamp,
\* remote-repl-engine.ts:128-151), a live owner looks stale to a peer only until the
\* heartbeat arrives that follows a late session, or the peer's eviction.
THEOREM LiveOwnerKeepsLease == Spec => []LiveOwnerStaleOnlyBriefly
BY Invariance, InvImpliesOnlyBriefly, PTL

\* The channel of an owner that died or has no session becomes claimable within a
\* lease and a delivery (remote-repl-engine.ts:332-338, 362-368).
THEOREM AbandonedChannelIsFreed == Spec => []AbandonedBecomesClaimable
BY Invariance, InvImpliesClaimable, PTL

=============================================================================
