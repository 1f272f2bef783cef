-------------------------------- MODULE Vault --------------------------------
(***************************************************************************)
(* What the keychain promises: named values, each the last one stored      *)
(* under its name until it is deleted.  A fault may take values away but   *)
(* never changes one; without a fault nothing is lost, and how the values  *)
(* are encrypted, and when their key is replaced, does not show.           *)
(***************************************************************************)
EXTENDS Integers

CONSTANTS Name, Value, None

VARIABLES
  stored,   \* the value under each name, None when there is none
  faults    \* faults still to come

Init ==
  /\ stored = [n \in Name |-> None]
  /\ faults \in Nat

Store(n, v) == stored' = [stored EXCEPT ![n] = v] /\ UNCHANGED faults

Delete(n) == stored' = [stored EXCEPT ![n] = None] /\ UNCHANGED faults

Lose ==
  /\ faults' = faults - 1
  /\ \E kept \in SUBSET Name :
       stored' = [n \in Name |-> IF n \in kept THEN stored[n] ELSE None]

Next ==
  \/ \E n \in Name, v \in Value : Store(n, v)
  \/ \E n \in Name : Delete(n)
  \/ Lose

Spec == Init /\ [][Next]_<<stored, faults>>
=============================================================================
