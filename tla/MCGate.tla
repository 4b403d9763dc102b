------------------------------- MODULE MCGate -------------------------------
(* Small instances of Gate for TLC. *)
EXTENDS Gate, TLC

Symmetry == Permutations(Readers) \cup Permutations(Requests)
=============================================================================
