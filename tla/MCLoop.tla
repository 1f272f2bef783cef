------------------------------- MODULE MCLoop -------------------------------
(* Instances of LoopEngine for TLC: constants come from the configurations. *)
EXTENDS LoopEngine

Alone == \E r \in Run : pc[r] = "idle"

\* Bound: a second run joins only where the row allows one iteration or two.
LongRunsAreAlone == maximum > 2 => Alone

\* Bound: with a second run, scores are the lowest or at the threshold.
MiddleScoresAreAlone ==
  (\E r \in Run : \E i \in DOMAIN own[r] : /\ own[r][i].score < Threshold
                                           /\ \E s \in Score : s < own[r][i].score)
    => Alone
=============================================================================
