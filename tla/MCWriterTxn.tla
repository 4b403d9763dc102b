---------------------------- MODULE MCWriterTxn ----------------------------
(* Small instances of WriterTxn for TLC. *)
EXTENDS WriterTxn

CONSTANTS i1

AllForOneItem == [j \in Changesets |-> i1]
Symmetry == Permutations(Changesets)
=============================================================================
