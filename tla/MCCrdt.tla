------------------------------- MODULE MCCrdt -------------------------------
(* Instances of CrdtSync for TLC. *)
EXTENDS CrdtSync, TLC

Symmetry == Permutations(Request) \cup Permutations(Value)
=============================================================================
