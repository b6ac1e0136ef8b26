-------------------------- MODULE LeakyBucket_proofs --------------------------
(***************************************************************************)
(* A leaky bucket bounds the rate, for any buckets, capacities and amounts. *)
(***************************************************************************)
EXTENDS LeakyBucket, TLAPS

\* The types of the abstract variables
LBTypeOK ==
    /\ now \in Nat /\ since \in Nat /\ since <= now
    /\ level \in [Bucket -> Nat]
    /\ net \in [Bucket -> Int]

\* What has been received since the window was opened is in the bucket or has leaked, and
\* the bucket is not overfull.
Accounted ==
    \A b \in Bucket :
        /\ level[b] <= Capacity[b]
        /\ net[b] <= level[b] + (now - since)

LBInv == LBTypeOK /\ Accounted

\* Every step of a leaky bucket keeps the account.
LEMMA LBInvInductive ==
    ASSUME CapacityIsNatural, LBInv, [Next]_vars
    PROVE  LBInv'
  <1> USE DEF CapacityIsNatural
  <1>1. ASSUME NEW b \in Bucket, NEW a \in Amount, Take(b, a)
        PROVE  LBInv'
    <2>1. a \in Nat
      OBVIOUS
    <2>2. LBTypeOK'
      BY <1>1, <2>1 DEF LBInv, LBTypeOK, Take
    <2>3. Accounted'
      BY <1>1, <2>1 DEF LBInv, LBTypeOK, Accounted, Take
    <2> QED
      BY <2>2, <2>3 DEF LBInv
  <1>2. ASSUME NEW b \in Bucket, NEW a \in Amount, GiveBack(b, a)
        PROVE  LBInv'
    <2>1. a \in Nat
      OBVIOUS
    <2>2. LBTypeOK'
      BY <1>2, <2>1 DEF LBInv, LBTypeOK, GiveBack, Positive
    <2>3. Accounted'
      BY <1>2, <2>1 DEF LBInv, LBTypeOK, Accounted, GiveBack, Positive
    <2> QED
      BY <2>2, <2>3 DEF LBInv
  <1>3. CASE Leak
    BY <1>3 DEF LBInv, LBTypeOK, Accounted, Leak, Positive
  <1>4. CASE Observe
    BY <1>4 DEF LBInv, LBTypeOK, Accounted, Observe
  <1>5. CASE UNCHANGED vars
    BY <1>5 DEF LBInv, LBTypeOK, Accounted, vars
  <1> QED
    BY <1>1, <1>2, <1>3, <1>4, <1>5 DEF Next

\* A leaky bucket lets through, in every window, at most its capacity plus what leaks
\* meanwhile: what gcra.go promises for every burst and period.
THEOREM LeakyBucketIsBounded ==
    ASSUME CapacityIsNatural
    PROVE  Spec => []RateIsBounded
  <1>1. Init => LBInv
    BY DEF CapacityIsNatural, Init, LBInv, LBTypeOK, Accounted
  <1>2. LBInv => RateIsBounded
    <2> SUFFICES ASSUME LBInv, NEW b \in Bucket
                 PROVE  net[b] <= Capacity[b] + (now - since)
      BY DEF RateIsBounded
    <2>1. Capacity[b] \in Nat /\ level[b] \in Nat /\ net[b] \in Int
      BY DEF CapacityIsNatural, LBInv, LBTypeOK
    <2>2. level[b] <= Capacity[b] /\ net[b] <= level[b] + (now - since)
      BY DEF LBInv, Accounted
    <2>3. now \in Nat /\ since \in Nat
      BY DEF LBInv, LBTypeOK
    <2> QED
      BY <2>1, <2>2, <2>3
  <1>3. LBInv /\ [Next]_vars => LBInv'
    BY LBInvInductive
  <1> QED
    BY <1>1, <1>2, <1>3, PTL DEF Spec
=============================================================================
