--------------------------- MODULE MCReplication ---------------------------
(***************************************************************************)
(* Small instances of Replication for TLC.  Batches are interchangeable, a *)
(* symmetry that a safety run may use.                                     *)
(***************************************************************************)
EXTENDS Replication, TLC

RecordSymmetry == Permutations(Record)
=============================================================================
