--------------------------- MODULE MCComputerUse ---------------------------
(* Instances of ComputerUse for TLC. *)
EXTENDS ComputerUse, TLC

\* A plan with a step of each kind, and one of a single step.
SomePlans == {<<"reversible", "irreversible", "none">>, <<"reversible">>}

\* Only runs of a single step overlap.
LongPlansRunAlone == \A t \in overlapped : Len(plan[t]) = 1

Symmetry == Permutations(Run) \cup Permutations(Task)
=============================================================================
