------------------------ MODULE HighWatermarkProofs -------------------------
(***************************************************************************)
(* What compute_hw returns when every replica is needed, for any set of    *)
(* followers: Replication and Election both rest on it.                    *)
(***************************************************************************)
EXTENDS HighWatermark, TLAPS, FiniteSetTheorems, WellFoundedInduction

\* A set of naturals that is not empty has a least element.
LEMMA LeastNatural ==
    ASSUME NEW T \in SUBSET Nat, T # {}
    PROVE  \E x \in T : \A y \in T : x <= y
<1>1. PICK x \in T : \A y \in T : ~(<<y, x>> \in OpToRel(<, Nat))
  BY NatLessThanWellFounded, WFMin, Zenon
<1>2. \A y \in T : ~(y < x)
  BY <1>1 DEF OpToRel
<1> QED
  BY <1>2

\* compute_hw, asked for every follower, answers None or the least of their
\* log ends, and then that one is past the high watermark it was given: the
\* leader commits what all of them have, and never goes back.
THEOREM LeastOfAll ==
    ASSUME NEW F, IsFiniteSet(F), NEW h \in Offset, NEW leos \in [F -> Offset]
    PROVE  LET c == ComputeHw(h, Cardinality(F) + 1, leos)
           IN  \/ c = None
               \/ /\ c \in Nat /\ c > h
                  /\ \A f \in F : c <= leos[f]
                  /\ \E f \in F : c = leos[f]
<1> DEFINE n == Cardinality(F) + 1
           k == MinLrs(n, leos)
           Q == Qualified(h, leos)
<1>1. /\ IsFiniteSet(F) /\ Cardinality(F) \in Nat
      /\ k = Cardinality(F)
  BY FS_CardinalityType DEF MinLrs
<1>2. Q \subseteq F
  BY DEF Qualified
<1>3. CASE Q = {} \/ Cardinality(Q) < k
  BY <1>3 DEF ComputeHw
<1>4. CASE ~(Q = {} \/ Cardinality(Q) < k)
  <2>1. Cardinality(Q) = Cardinality(F) /\ IsFiniteSet(Q) /\ Q # {}
    <3>1. IsFiniteSet(Q) /\ Cardinality(Q) <= Cardinality(F)
      BY <1>1, <1>2, FS_Subset
    <3>2. Cardinality(Q) \in Nat
      BY <3>1, FS_CardinalityType
    <3> QED
      BY <1>1, <1>4, <3>1, <3>2
  <2>2. Q = F
    BY <1>1, <1>2, <2>1, FS_Subset
  <2>3. \A f \in F : leos[f] \in Nat /\ leos[f] > h
    BY <2>2 DEF Qualified, Offset
  <2> DEFINE T == {leos[f] : f \in Q}
  <2>4. T \in SUBSET Nat /\ T # {}
    BY <2>1, <2>2, <2>3
  <2>5. PICK x \in T : \A y \in T : x <= y
    BY <2>4, LeastNatural
  <2>6. x \in Nat /\ x > h /\ \A f \in F : x <= leos[f]
    BY <2>2, <2>3, <2>4, <2>5
  <2>7. k # 0 /\ k = Cardinality(Q)
    BY <1>1, <2>1, <2>2, FS_EmptySet
  <2>8. IsKthLargest(x, k, leos, Q)
    <3>1. Cardinality({f \in Q : leos[f] >= x}) >= k
      <4> DEFINE S == {f \in Q : leos[f] >= x}
      <4>1. S = Q
        BY <2>2, <2>3, <2>6
      <4> HIDE DEF S
      <4>2. Cardinality(S) = k /\ k \in Nat
        BY <4>1, <2>7, <1>1
      <4>3. Cardinality(S) >= k
        BY <4>2
      <4> QED
        BY <4>3 DEF S
    <3>2. ASSUME NEW f \in Q, Cardinality({g \in Q : leos[g] >= leos[f]}) >= k
          PROVE  leos[f] <= x
      <4>1. PICK g \in Q : x = leos[g]
        BY <2>5
      <4> DEFINE S == {e \in Q : leos[e] >= leos[f]}
      <4>2. IsFiniteSet(S) /\ Cardinality(S) <= Cardinality(Q)
        BY <2>1, FS_Subset
      <4>3. Cardinality(S) \in Nat
        BY <4>2, FS_CardinalityType
      <4>4. Cardinality(Q) = Cardinality(S)
        BY <1>1, <2>7, <3>2, <4>2, <4>3
      <4>5. S \in SUBSET Q
        OBVIOUS
      <4>6. S = Q
        BY <2>1, <4>4, <4>5, FS_Subset
      <4> QED
        BY <4>1, <4>6
    <3> QED
      BY <3>1, <3>2, <2>5 DEF IsKthLargest
  <2>9. \A y \in T : IsKthLargest(y, k, leos, Q) => y = x
    <3> SUFFICES ASSUME NEW y \in T, IsKthLargest(y, k, leos, Q)
                 PROVE  y = x
      OBVIOUS
    <3>1. PICK e \in Q : x = leos[e]
      BY <2>5
    <3>2. Cardinality({g \in Q : leos[g] >= y}) >= k
      BY DEF IsKthLargest
    <3> DEFINE S == {g \in Q : leos[g] >= y}
    <3>3. IsFiniteSet(S) /\ Cardinality(S) <= Cardinality(Q)
      BY <2>1, FS_Subset
    <3>4. Cardinality(S) \in Nat
      BY <3>3, FS_CardinalityType
    <3>5. Cardinality(Q) = Cardinality(S)
      BY <1>1, <2>7, <3>2, <3>3, <3>4
    <3>6. S \in SUBSET Q
      OBVIOUS
    <3>7. S = Q
      BY <2>1, <3>5, <3>6, FS_Subset
    <3>8. x >= y
      BY <3>1, <3>7
    <3>9. x <= y /\ x \in Nat /\ y \in Nat
      <4> HIDE DEF T
      <4> QED  BY <2>4, <2>5
    <3> QED
      BY <3>8, <3>9
  <2>10. ComputeHw(h, n, leos) = CHOOSE y \in T : IsKthLargest(y, k, leos, Q)
    BY <1>4, <2>7 DEF ComputeHw
  <2>11. ComputeHw(h, n, leos) = x
    BY <2>8, <2>9, <2>10
  <2> QED
    BY <2>5, <2>6, <2>2, <2>11
<1> QED
  BY <1>3, <1>4

=============================================================================
