-------------------------- MODULE RateLimiterProofs --------------------------
(***************************************************************************)
(* The limiter keeps its rate, for any limit, window and number of calls.  *)
(***************************************************************************)
EXTENDS RateLimiter, FiniteSetTheorems, TLAPS

\* Times do not go back, and what is remembered are the latest requests, all
\* those of the last Window among them, at most Max.
LimiterInv ==
    /\ LimiterTypeOK
    /\ \A i \in DOMAIN begun : begun[i] <= now
    /\ \A i, j \in DOMAIN begun : i <= j => begun[i] <= begun[j]
    /\ \A i \in DOMAIN begun \ kept : begun[i] + Window <= now
    /\ \A i \in kept, j \in DOMAIN begun : i <= j => j \in kept
    /\ Cardinality(kept) <= Max
    /\ RateKept

LEMMA KeptFinite ==
    ASSUME LimiterTypeOK, NEW S \in SUBSET kept
    PROVE  IsFiniteSet(S) /\ Cardinality(S) \in Nat /\ Cardinality(S) <= Cardinality(kept)
           /\ Cardinality(kept) \in Nat /\ IsFiniteSet(kept)
<1>1. DOMAIN begun = 1..Len(begun) /\ Len(begun) \in Nat
  BY DEF LimiterTypeOK
<1>2. IsFiniteSet(kept)
  <2>1. IsFiniteSet(1..Len(begun))
    BY <1>1, FS_Interval
  <2> QED BY <1>1, <2>1, FS_Subset DEF LimiterTypeOK
<1> QED BY <1>2, FS_Subset, FS_CardinalityType

\* Pruning takes the oldest away.
LEMMA PruneKeeps ==
    ASSUME LimiterInv
    PROVE  /\ \A i \in DOMAIN begun \ Pruned : begun[i] + Window <= now
           /\ \A i \in Pruned, j \in DOMAIN begun : i <= j => j \in Pruned
<1> USE LimiterAssumption
<1>1. \A i \in DOMAIN begun : begun[i] \in Nat /\ now \in Nat /\ Window \in Nat
  BY DEF LimiterInv, LimiterTypeOK
<1>2. ASSUME NEW i \in DOMAIN begun, i \notin Pruned PROVE begun[i] + Window <= now
  <2>1. CASE i \in kept
    BY <1>1, <1>2, <2>1 DEF Pruned
  <2>2. CASE i \notin kept
    BY <2>2 DEF LimiterInv
  <2> QED BY <2>1, <2>2
<1>3. ASSUME NEW i \in Pruned, NEW j \in DOMAIN begun, i <= j PROVE j \in Pruned
  <2>1. i \in kept /\ i \in DOMAIN begun /\ begun[i] + Window > now
    BY DEF Pruned, LimiterInv, LimiterTypeOK
  <2>2. j \in kept /\ begun[i] <= begun[j]
    BY <1>3, <2>1 DEF LimiterInv
  <2> QED BY <1>1, <2>1, <2>2 DEF Pruned
<1> QED BY <1>2, <1>3

\* A request that begins with at most Max - 1 remembered keeps the rate: the
\* one Max before it has been forgotten.
LEMMA BeginKeeps ==
    ASSUME LimiterInv, Cardinality(Pruned) < Max, Begin, holding' \in BOOLEAN
    PROVE  LimiterInv'
<1> USE LimiterAssumption
<1> DEFINE n == Len(begun)
<1>1. /\ n \in Nat /\ DOMAIN begun = 1..n /\ now \in Nat
      /\ begun' \in Seq(Nat) /\ Len(begun') = n + 1 /\ DOMAIN begun' = 1..(n + 1)
      /\ begun'[n + 1] = now /\ \A i \in 1..n : begun'[i] = begun[i] /\ begun[i] \in Nat
  <2>1. begun \in Seq(Nat) /\ now \in Nat /\ begun' = Append(begun, now)
    BY DEF LimiterInv, LimiterTypeOK, Begin
  <2> QED BY <2>1
<1>2. /\ kept' = Pruned \cup {n + 1} /\ now' = now /\ Pruned \subseteq 1..n
      /\ Pruned \subseteq kept
  BY <1>1 DEF Begin, Pruned, LimiterInv, LimiterTypeOK
<1> HIDE DEF n
<1>0. /\ \A i \in 1..n : begun[i] <= now
      /\ \A i, j \in 1..n : i <= j => begun[i] <= begun[j]
      /\ \A i, j \in 1..n : j = i + Max => begun[i] + Window <= begun[j]
  BY <1>1 DEF LimiterInv, RateKept
<1>3. IsFiniteSet(Pruned) /\ Cardinality(Pruned) \in Nat
  BY <1>2, KeptFinite DEF LimiterInv
<1>4. n + 1 \notin Pruned
  BY <1>1, <1>2
<1>5. Cardinality(kept') = Cardinality(Pruned) + 1
  <2>1. Cardinality(Pruned \cup {n + 1}) = Cardinality(Pruned) + 1
    BY <1>3, <1>4, FS_AddElement
  <2> QED BY <1>2, <2>1
<1>6. LimiterTypeOK'
  <2>1. 1..n \subseteq 1..(n + 1) /\ n + 1 \in 1..(n + 1)
    BY <1>1
  <2>2. kept' \subseteq DOMAIN begun'
    BY <1>1, <1>2, <2>1
  <2>3. begun' \in Seq(Nat) /\ now' \in Nat
    BY <1>1, <1>2
  <2> QED BY <2>2, <2>3 DEF LimiterTypeOK
<1>7. \A i \in 1..(n + 1) : begun'[i] <= now
  <2>1. ASSUME NEW i \in 1..(n + 1) PROVE i = n + 1 \/ i \in 1..n
    BY <1>1
  <2> QED BY <1>0, <1>1, <2>1
<1>8. \A i, j \in 1..(n + 1) : i <= j => begun'[i] <= begun'[j]
  <2>1. ASSUME NEW i \in 1..(n + 1), NEW j \in 1..(n + 1), i <= j
        PROVE  begun'[i] <= begun'[j]
    <3>1. CASE j = n + 1
      <4>1. begun'[i] <= now
        BY <1>7, <2>1
      <4>2. begun'[j] = now
        BY <1>1, <3>1
      <4> QED BY <4>1, <4>2
    <3>2. CASE j # n + 1
      <4>1. i \in 1..n /\ j \in 1..n
        BY <1>1, <2>1, <3>2
      <4> QED BY <1>0, <1>1, <2>1, <4>1
    <3> QED BY <3>1, <3>2
  <2> QED BY <2>1
<1>9. \A i \in 1..(n + 1) \ kept' : begun'[i] + Window <= now
  <2>1. ASSUME NEW i \in 1..(n + 1), i \notin kept' PROVE begun'[i] + Window <= now
    <3>1. i \in 1..n /\ i \notin Pruned
      BY <1>1, <1>2, <2>1
    <3> QED BY <1>1, <3>1, PruneKeeps
  <2> QED BY <2>1
<1>10. \A i \in kept', j \in 1..(n + 1) : i <= j => j \in kept'
  <2>1. ASSUME NEW i \in kept', NEW j \in 1..(n + 1), i <= j, j # n + 1 PROVE j \in kept'
    <3>1. i \in Pruned /\ j \in 1..n
      BY <1>1, <1>2, <2>1
    <3> QED BY <1>1, <1>2, <2>1, <3>1, PruneKeeps
  <2> QED BY <1>2, <2>1
<1>11. RateKept'
  <2>1. ASSUME NEW i \in 1..(n + 1), NEW j \in 1..(n + 1), j = i + Max
        PROVE  begun'[i] + Window <= begun'[j]
    <3>0. i \in Nat /\ j \in Nat /\ i < j /\ j <= n + 1 /\ i >= 1
      <4>1. n \in Nat /\ Max \in Nat /\ Max > 0
        BY <1>1
      <4> QED BY <2>1, <4>1
    <3>1. CASE j \in 1..n
      <4>1. i \in 1..n
        BY <1>1, <3>0, <3>1
      <4>2. begun[i] + Window <= begun[j]
        BY <1>0, <2>1, <3>1, <4>1
      <4> QED BY <1>1, <3>1, <4>1, <4>2
    <3>2. CASE j = n + 1
      <4>0. n \in Nat /\ Max \in Nat /\ Max > 0 /\ n + 1 = i + Max
        BY <1>1, <2>1, <3>2
      <4>1. i \in 1..n /\ n - i + 1 = Max
        BY <3>0, <4>0
      <4>2. i \notin Pruned
        <5> SUFFICES ASSUME i \in Pruned PROVE FALSE
          OBVIOUS
        <5>0. \A k \in 1..n : i <= k => k \in Pruned
          BY <1>1, PruneKeeps
        <5>1. i..n \subseteq Pruned
          BY <3>0, <4>0, <5>0
        <5>2. Cardinality(i..n) = n - i + 1
          BY <1>1, <4>1, FS_Interval
        <5>3. Cardinality(i..n) <= Cardinality(Pruned)
          BY <1>3, <5>1, FS_Subset
        <5> QED BY <1>3, <4>1, <5>2, <5>3
      <4> QED BY <1>1, <3>2, <4>1, <4>2, PruneKeeps
    <3>3. j \in 1..n \/ j = n + 1
      <4>1. n \in Nat
        BY <1>1
      <4> QED BY <3>0, <4>1
    <3> QED BY <3>1, <3>2, <3>3
  <2> QED BY <1>1, <2>1 DEF RateKept
<1>12. Cardinality(kept') <= Max
  <2>1. Max \in Nat /\ Cardinality(Pruned) + 1 <= Max
    BY <1>3
  <2> QED BY <1>5, <2>1
<1>13. now' = now /\ DOMAIN begun' = 1..(n + 1)
  BY <1>1, <1>2
<1> QED BY <1>6, <1>7, <1>8, <1>9, <1>10, <1>11, <1>12, <1>13 DEF LimiterInv

LEMMA LimiterKeeps == ASSUME LimiterInv, LimiterNext PROVE LimiterInv'
<1> USE LimiterAssumption
<1>1. CASE Tick
  <2>1. now' = now + 1 /\ UNCHANGED <<begun, kept, holding>> /\ now \in Nat
    BY <1>1 DEF Tick, LimiterInv, LimiterTypeOK
  <2>2. \A i \in DOMAIN begun : begun[i] \in Nat
    BY DEF LimiterInv, LimiterTypeOK
  <2> QED BY <2>1, <2>2 DEF LimiterInv, LimiterTypeOK, RateKept
<1>2. CASE Pass
  BY <1>2, BeginKeeps DEF Pass, LimiterInv, LimiterTypeOK
<1>3. CASE Hold
  <2>1. kept' = Pruned /\ Pruned \subseteq kept /\ UNCHANGED <<now, begun>> /\ holding' \in BOOLEAN
    BY <1>3 DEF Hold, Pruned
  <2>2. Cardinality(Pruned) <= Max
    BY <2>1, KeptFinite DEF LimiterInv
  <2> QED BY <2>1, <2>2, PruneKeeps DEF LimiterInv, LimiterTypeOK, RateKept
<1>4. CASE Resume
  <2>1. PICK oldest \in kept : begun[oldest] + Window <= now
    BY <1>4 DEF Resume
  <2>2. Pruned \subseteq kept \ {oldest} /\ now \in Nat /\ begun[oldest] \in Nat
    BY <2>1 DEF Pruned, LimiterInv, LimiterTypeOK
  <2>3. /\ IsFiniteSet(kept) /\ Cardinality(kept) \in Nat
        /\ IsFiniteSet(Pruned) /\ Cardinality(Pruned) \in Nat
    BY <2>2, KeptFinite DEF LimiterInv
  <2>4. Cardinality(kept \ {oldest}) = Cardinality(kept) - 1
    BY <2>1, <2>3, FS_RemoveElement
  <2>5. IsFiniteSet(kept \ {oldest})
    BY <2>3, FS_Subset
  <2>6. Cardinality(Pruned) <= Cardinality(kept \ {oldest})
    BY <2>2, <2>5, FS_Subset
  <2>7. Cardinality(Pruned) < Max
    BY <2>3, <2>4, <2>6 DEF LimiterInv
  <2> QED BY <1>4, <2>7, BeginKeeps DEF Resume
<1> QED BY <1>1, <1>2, <1>3, <1>4 DEF LimiterNext

LEMMA LimiterStarts == LimiterInit => LimiterInv
<1> SUFFICES ASSUME LimiterInit PROVE LimiterInv
  OBVIOUS
<1>1. DOMAIN begun = {} /\ begun \in Seq(Nat) /\ kept = {}
  BY DEF LimiterInit
<1>2. Cardinality(kept) <= Max
  BY <1>1, FS_EmptySet, LimiterAssumption
<1> QED BY <1>1, <1>2 DEF LimiterInit, LimiterInv, LimiterTypeOK, RateKept

\* No Window of time sees more than Max requests begin.
THEOREM RateCorrect == LimiterSpec => []RateKept
<1>1. LimiterInv /\ [LimiterNext]_limiterVars => LimiterInv'
  <2>1. ASSUME LimiterInv, UNCHANGED limiterVars PROVE LimiterInv'
    BY <2>1 DEF limiterVars, LimiterInv, LimiterTypeOK, RateKept
  <2> QED BY <2>1, LimiterKeeps
<1>2. LimiterInv => RateKept
  BY DEF LimiterInv
<1> QED BY <1>1, <1>2, LimiterStarts, PTL DEF LimiterSpec
=============================================================================
