------------------------------- MODULE MCGraph -------------------------------
(* Instances of GraphExecutor for TLC. *)
EXTENDS GraphExecutor

Pairs == {e \in Node \X Node : e[1] # e[2]}
EdgeList(S, conditional) ==
  [i \in 1..Cardinality(S) |->
     LET p == SetToSeq(S)[i]
     IN [source |-> p[1], target |-> p[2], conditional |-> p \in conditional]]

\* Every graph of at most two edges, each with or without a condition, and
\* every graph of three edges without conditions; cyclic ones included.
SmallEdgeLists ==
  {EdgeList(p[1], p[2]) :
     p \in {q \in (SUBSET Pairs) \X (SUBSET Pairs) :
              /\ q[2] \subseteq q[1]
              /\ \/ Cardinality(q[1]) <= 2
                 \/ Cardinality(q[1]) = 3 /\ q[2] = {}}}
=============================================================================
