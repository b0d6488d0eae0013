--------------------------- MODULE HighWatermark ---------------------------
(***************************************************************************)
(* Offsets of a replica and the computation of the leader's high watermark *)
(* (crates/fluvio-storage/src/lib.rs, OffsetInfo, and                      *)
(* crates/fluvio-spu/src/replication/leader/replica_state.rs, compute_hw). *)
(*                                                                         *)
(* An OffsetInfo is the pair of the log end offset (leo, the offset the    *)
(* next record will get) and the high watermark (hw, the end of the        *)
(* committed prefix).  The value -1 means "not known yet".                 *)
(***************************************************************************)
EXTENDS Integers, FiniteSets

Offset == Nat \cup {-1}

OffsetInfo == [hw : Offset, leo : Offset]

DefaultInfo == [hw |-> -1, leo |-> -1]

IsValid(o) == o.hw # -1 /\ o.leo # -1 /\ o.leo >= o.hw

IsSame(o, p) == o.hw = p.hw /\ o.leo = p.leo

IsCommitted(o) == o.leo = o.hw

\* The test that makes a leader drop a follower's report.
Newer(o, p) == o.leo > p.leo \/ o.hw > p.hw

Larger(a, b) == IF b > a THEN b ELSE a

\* (slip: the last report wins)
Update_slip(o, p) == p

\* OffsetInfo::update never lowers either field.
Update(o, p) == [hw |-> Larger(o.hw, p.hw), leo |-> Larger(o.leo, p.leo)]

-----------------------------------------------------------------------------
\* compute_hw answers None when the high watermark must stay where it is.
None == -2

\* How many followers, the leader aside, must hold an offset.
MinLrs(minReplica, leos) ==
    IF minReplica - 1 < Cardinality(DOMAIN leos)
    THEN minReplica - 1 ELSE Cardinality(DOMAIN leos)

\* The followers whose log end is past the leader's high watermark.
Qualified(hw, leos) == {f \in DOMAIN leos : leos[f] > hw}

\* x is the k-th largest of leos over the followers in Q.
IsKthLargest(x, k, leos, Q) ==
    /\ \E f \in Q : leos[f] = x
    /\ Cardinality({f \in Q : leos[f] >= x}) >= k
    /\ \A f \in Q : Cardinality({g \in Q : leos[g] >= leos[f]}) >= k => leos[f] <= x

\* What the BinaryHeap of compute_hw returns: with at least k qualified
\* followers, the k-th largest of their log ends (k = 0 asks for the largest).
ComputeHw(hw, minReplica, leos) ==
    LET k == MinLrs(minReplica, leos)
        Q == Qualified(hw, leos)
    IN  IF Q = {} \/ Cardinality(Q) < k THEN None
        ELSE CHOOSE x \in {leos[f] : f \in Q} :
                 IsKthLargest(x, IF k = 0 THEN 1 ELSE k, leos, Q)
=============================================================================
