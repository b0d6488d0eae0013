------------------------------ MODULE MCProducer ------------------------------
(***************************************************************************)
(* Small instances of Producer for TLC, with partition 0 and, in the run   *)
(* acks, partition 1.                                                      *)
(***************************************************************************)
EXTENDS Producer

\* All records have keys of partition 0.
ToZero == [r \in Record |-> {0}]

\* flush comes to partition 1 first, but looks at the error of 0 first.
Crossed == {<< <<1, 0>>, <<0, 1>> >>}

AnyOrder == SetToSeqs(Partition) \X SetToSeqs(Partition)
=============================================================================
