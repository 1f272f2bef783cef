----------------------------- MODULE GuardedLoop -----------------------------
(***************************************************************************)
(* What the loop guard of server/services/loop_engine.py promises of one   *)
(* run, said of the whole history of its evaluations instead of counters:  *)
(* an iteration is made only while nothing in the history asks to stop,    *)
(* and a run that finishes does so for a reason its history shows.         *)
(***************************************************************************)
EXTENDS Integers, Sequences

CONSTANTS Score, Threshold, StagnationLimit

VARIABLES limit,    \* iterations allowed, fixed when the loop is created
          history,  \* evaluations so far: [score, again]
          outcome   \* "open", "finished" or "aborted"

\* The last StagnationLimit scores each failed to beat the one before them.
Stagnant(h) ==
  /\ Len(h) > StagnationLimit
  /\ \A k \in (Len(h) - StagnationLimit + 1)..Len(h) :
       h[k].score <= h[k - 1].score

Satisfied(h) ==
  /\ Len(h) > 0
  /\ h[Len(h)].score >= Threshold \/ ~ h[Len(h)].again

MustStop(h) == Satisfied(h) \/ Stagnant(h) \/ Len(h) = limit

Init == limit \in Nat \ {0} /\ history = <<>> /\ outcome = "open"

Iterate ==
  /\ outcome = "open" /\ ~ MustStop(history)
  /\ \E s \in Score, again \in BOOLEAN :
       history' = Append(history, [score |-> s, again |-> again])
  /\ UNCHANGED <<limit, outcome>>

Finish ==
  /\ outcome = "open" /\ MustStop(history)
  /\ outcome' = "finished"
  /\ UNCHANGED <<limit, history>>

\* A provider fails, the loop is cancelled, or the client leaves.
Abort ==
  /\ outcome = "open"
  /\ outcome' = "aborted"
  /\ UNCHANGED <<limit, history>>

Next == Iterate \/ Finish \/ Abort

Spec == Init /\ [][Next]_<<limit, history, outcome>>
==============================================================================
