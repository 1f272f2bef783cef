----------------------------- MODULE MCKeychain -----------------------------
(* Instances of Keychain for TLC. *)
EXTENDS Keychain, TLC

Symmetry == Permutations(Request)
=============================================================================
