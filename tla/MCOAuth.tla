------------------------------- MODULE MCOAuth -------------------------------
(* Instances of OAuth for TLC. *)
EXTENDS OAuth, TLC

Symmetry == Permutations(Request) \cup Permutations(State)
=============================================================================
