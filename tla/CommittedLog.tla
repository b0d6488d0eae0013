---------------------------- MODULE CommittedLog ----------------------------
(***************************************************************************)
(* What a replicated partition promises to producers and consumers, with   *)
(* no replica, message or task in sight.                                   *)
(*                                                                         *)
(* The partition is one append-only log.  Some of its offsets are          *)
(* replicated, and an offset that is replicated stays so.  Readers of      *)
(* committed records see the log up to visible, which may move in either   *)
(* direction (a restarted leader starts from a checkpoint) but never       *)
(* reaches past the replicated part.  A producer that waits for its write  *)
(* to be committed is answered only when it is visible.                    *)
(***************************************************************************)
EXTENDS Integers, Sequences

CONSTANT Record

VARIABLES
    records,     \* the log
    replicated,  \* the offsets every replica has stored (a batch's end)
    visible,     \* the end of what readers of committed records see
    acked        \* the largest end acknowledged to a waiting producer

vars == <<records, replicated, visible, acked>>

Init == records = <<>> /\ replicated = {} /\ visible = 0 /\ acked = 0

\* One batch; it is replicated and visible at once if there is one replica.
AppendRecord ==
    /\ \E rec \in Record : records' = Append(records, rec)
    /\ \/ UNCHANGED <<replicated, visible>>
       \/ /\ replicated' = replicated \cup {Len(records) + 1}
          /\ visible' = Len(records) + 1
    /\ UNCHANGED acked

Replicate ==
    /\ replicated' \in SUBSET (1..Len(records))
    /\ replicated \subseteq replicated'
    /\ UNCHANGED <<records, visible, acked>>

MoveVisible ==
    /\ visible' \in 0..Len(records)
    /\ UNCHANGED <<records, replicated, acked>>

Acknowledge ==
    /\ acked' \in 0..visible
    /\ acked' >= acked
    /\ UNCHANGED <<records, replicated, visible>>

\* Whatever is visible or acknowledged is replicated.
Durable == 1..visible \subseteq replicated /\ 1..acked \subseteq replicated

Next == (AppendRecord \/ Replicate \/ MoveVisible \/ Acknowledge) /\ Durable'

Spec == Init /\ [][Next]_vars
=============================================================================
