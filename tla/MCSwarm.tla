------------------------------ MODULE MCSwarm ------------------------------
(* Instances of SwarmOrchestrator for TLC. *)
EXTENDS SwarmOrchestrator, TLC

\* Distinct texts are unlike: the similarity is an equivalence.
SameText == {<<x, x>> : x \in Answer}

\* Nothing tells one stream from another (used where no liveness is checked).
Streams == Permutations(Run)

\* No step of these streams touches a row or a task any more.
Past == {"aggregate", "announce", "deliver", "except", "closing", "ended"}

\* What the rows and tasks of SwarmShared depend on: of a status, whether the
\* swarm is there, and of a stream, where it is until it has verified.
RowsAndTasks ==
  <<worker, resizing, plan, task, swarm, orphan,
    [s \in Swarm |-> status[s] = "gone"],
    [r \in Run |-> IF pc[r] \in Past THEN "verified" ELSE pc[r]]>>

\* A resize is in progress only while at most one stream is at work.
ResizeBesideOne ==
  resizing # NoReport => \E r \in Run : pc[r] \in Past \cup {"idle"}
=============================================================================
