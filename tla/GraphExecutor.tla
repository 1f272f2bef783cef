---------------------------- MODULE GraphExecutor ----------------------------
(***************************************************************************)
(* One DAG, the runs of it by run_dag (server/services/graph_executor.py)  *)
(* one after the other, and those who act on it from outside: whoever      *)
(* consumes the events and may leave, interrupts, roll-backs, and link 6   *)
(* of server/services/linkage_coordinator.py.  run_dag is an async         *)
(* generator: an action is what it does up to its next yield or to the     *)
(* await of a node; publishing does not suspend.  Those outside may also   *)
(* act where the loop takes its next node without a yield before it, which *)
(* allows more than the code.                                              *)
(***************************************************************************)
EXTENDS Integers, Sequences, FiniteSets, SequencesExt

CONSTANTS
  NodeCount,      \* nodes of the DAG
  EdgeLists,      \* dag.edges: sequences of [source, target, conditional]
  Checkpoints,    \* the nodes whose node_type is "checkpoint"
  MaxRuns,        \* bound on runs of the DAG
  None

\* Node ids, numbered in the order they were added.
Node == 1..NodeCount

DAGEdge == [source : Node, target : Node, conditional : BOOLEAN]
\* What a run makes of a node: which of the conditions on its output hold.
Output == [run : Nat, holds : SUBSET DAGEdge]

ASSUME GraphAssumption ==
  /\ NodeCount \in Nat
  /\ EdgeLists \subseteq Seq(DAGEdge)
  /\ Checkpoints \subseteq Node
  /\ MaxRuns \in Nat
  /\ None \notin Nat /\ None \notin Output

VARIABLES
  edges,               \* dag.edges; they never change
  status,       \* status of each node
  output,       \* output of each node: the run that made it, and which of
                \* the edge conditions on it hold
  checkpoint,   \* dag.last_checkpoint_id
  interrupted,  \* dag.interrupted
  run,          \* runs started so far; also the number of the current one
  pc,           \* where the current run is
  order, pos,   \* its topological order, and the loop's position in it
  failures,     \* dag.node.failed events link 6 has not handled
  undone,       \* whether the current run was rolled back in its course
  kept          \* checkpoints that roll-backs of the current run kept while it
                \* was interrupted

nodes == <<status, output>>
loop == <<order, pos>>
undoing == <<undone, kept>>
vars == <<edges, nodes, checkpoint, interrupted, run, pc, loop, failures, undoing>>

Edge == ToSet(edges)
Into(n) == {e \in Edge : e.target = n}
Active == pc # "idle"   \* registered in _active_dags
-----------------------------------------------------------------------------
(* _topological_sort: Kahn's algorithm on the list of edges. *)

InDegree ==
  [n \in Node |-> Cardinality({i \in DOMAIN edges : edges[i].target = n})]

\* The first n nodes that no edge leads to.
Sources[n \in 0..NodeCount] ==
  IF n = 0 THEN <<>>
  ELSE IF InDegree[n] = 0 THEN Append(Sources[n - 1], n)
  ELSE Sources[n - 1]

KahnStart ==
  [degree |-> InDegree, order |-> <<>>, queue |-> Sources[NodeCount]]

\* Mutant: any edge frees its target.
RelaxAtOnce(state, e) ==
  LET left == state.degree[e.target] - 1
  IN [state EXCEPT !.degree[e.target] = left,
                   !.queue = IF e.target \in ToSet(@ \o state.order) THEN @
                             ELSE Append(@, e.target)]

\* An edge of the node taken frees its target when it was the last one.
Relax(state, e) ==
  LET left == state.degree[e.target] - 1
  IN [state EXCEPT !.degree[e.target] = left,
                   !.queue = IF left = 0 THEN Append(@, e.target) ELSE @]

\* One turn of the loop: a node is taken, its edges are looked at in order.
Pop(state) ==
  IF state.queue = <<>> THEN state
  ELSE LET n == Head(state.queue)
           relaxed[i \in 0..Len(edges)] ==
             IF i = 0
             THEN [state EXCEPT !.queue = Tail(@), !.order = Append(@, n)]
             ELSE LET before == relaxed[i - 1]
                  IN IF edges[i].source = n THEN Relax(before, edges[i])
                     ELSE before
       IN relaxed[Len(edges)]

\* Its length tells whether the code returns it or None.
TopologicalSort ==
  LET popped[i \in 0..NodeCount] ==
        IF i = 0 THEN KahnStart ELSE Pop(popped[i - 1])
  IN popped[NodeCount].order
-----------------------------------------------------------------------------
Init ==
  /\ edges \in EdgeLists
  /\ status = [n \in Node |-> "pending"]
  /\ output = [n \in Node |-> None]
  /\ checkpoint = None /\ interrupted = FALSE
  /\ run = 0 /\ pc = "idle" /\ order = <<>> /\ pos = 1
  /\ failures = 0
  /\ undone = FALSE /\ kept = {}

Goto(from, to) == pc = from /\ pc' = to
Current == order[pos]
Advance == pos' = pos + 1 /\ UNCHANGED order
Only(others) == UNCHANGED <<edges, run, undoing, others>>

\* run_dag registers the DAG and yields dag_started.  No status is reset.
Start ==
  /\ run < MaxRuns
  /\ Goto("idle", "sort")
  /\ run' = run + 1
  /\ undone' = FALSE /\ kept' = {}
  /\ UNCHANGED <<edges, nodes, checkpoint, interrupted, loop, failures>>

Sort ==
  /\ Goto("sort", "visit")
  /\ order' = TopologicalSort /\ Len(order') = NodeCount
  /\ pos' = 1
  /\ Only(<<nodes, checkpoint, interrupted, failures>>)

\* A cycle: dag_failed is yielded ...
RejectCycle ==
  /\ Goto("sort", "cyclic")
  /\ Len(TopologicalSort) # NodeCount
  /\ Only(<<nodes, checkpoint, interrupted, loop, failures>>)

\* ... and dag.node.failed published.
CycleEnds ==
  /\ Goto("cyclic", "idle")
  /\ failures' = failures + 1
  /\ Only(<<nodes, checkpoint, interrupted, loop>>)

AtNode == pc = "visit" /\ pos <= Len(order)

\* Only a pending node is marked.
SkipInterrupted ==
  /\ AtNode /\ interrupted
  /\ status' = [status EXCEPT ![Current] =
                  IF @ = "pending" THEN "interrupted" ELSE @]
  /\ Advance
  /\ Only(<<output, checkpoint, interrupted, pc, failures>>)

\* _check_incoming_conditions: a missing output fails the condition.
ConditionsHold(n) ==
  \A e \in Into(n) :
    e.conditional => output[e.source] # None /\ e \in output[e.source].holds
\* _predecessors_completed: a skipped predecessor counts.
PredecessorsCompleted(n) ==
  \A e \in Into(n) : status[e.source] \in {"completed", "skipped"}
Ready(n) == ConditionsHold(n) /\ PredecessorsCompleted(n)

\* Mutant: only a pending node is marked.
SkipPending ==
  /\ AtNode /\ ~ interrupted
  /\ ~ Ready(Current)
  /\ status' = [status EXCEPT ![Current] =
                  IF @ = "pending" THEN "skipped" ELSE @]
  /\ Advance
  /\ Only(<<output, checkpoint, interrupted, pc, failures>>)

\* The node keeps the output an earlier run gave it.
Skip ==
  /\ AtNode /\ ~ interrupted
  /\ ~ Ready(Current)
  /\ status' = [status EXCEPT ![Current] = "skipped"]
  /\ Advance
  /\ Only(<<output, checkpoint, interrupted, pc, failures>>)

\* Mutant: a node already completed is not executed again.
BeginPending ==
  /\ AtNode /\ ~ interrupted
  /\ Ready(Current)
  /\ IF status[Current] = "completed" THEN UNCHANGED <<status, pc>> /\ Advance
     ELSE /\ Goto("visit", "running")
          /\ status' = [status EXCEPT ![Current] = "running"]
          /\ UNCHANGED loop
  /\ Only(<<output, checkpoint, interrupted, failures>>)

\* node_started is yielded, and the node is executed whatever it was before.
Begin ==
  /\ AtNode /\ ~ interrupted
  /\ Ready(Current)
  /\ Goto("visit", "running")
  /\ status' = [status EXCEPT ![Current] = "running"]
  /\ Only(<<output, checkpoint, interrupted, loop, failures>>)

Complete ==
  /\ Goto("running", "completed")
  /\ \E holds \in SUBSET {e \in Edge : e.source = Current /\ e.conditional} :
       output' = [output EXCEPT ![Current] = [run |-> run, holds |-> holds]]
  /\ status' = [status EXCEPT ![Current] = "completed"]
  /\ Only(<<checkpoint, interrupted, loop, failures>>)

\* Mutant: the loop stays where it is after a checkpoint.
AfterCompletedStay ==
  /\ Goto("completed", "visit")
  /\ checkpoint' = IF Current \in Checkpoints THEN Current ELSE checkpoint
  /\ IF Current \in Checkpoints THEN UNCHANGED loop ELSE Advance
  /\ Only(<<nodes, interrupted, failures>>)

\* After the yield of node_completed: the checkpoint, and the next node.
AfterCompleted ==
  /\ Goto("completed", "visit")
  /\ checkpoint' = IF Current \in Checkpoints THEN Current ELSE checkpoint
  /\ Advance
  /\ Only(<<nodes, interrupted, failures>>)

\* The node raises or its time is over: node_failed is yielded ...
Fail ==
  /\ Goto("running", "failing")
  /\ status' = [status EXCEPT ![Current] = "failed"]
  /\ Only(<<output, checkpoint, interrupted, loop, failures>>)

\* ... dag.node.failed published, and dag_interrupted yielded.  The nodes that
\* follow stay as they are.
AnnounceFailure ==
  /\ Goto("failing", "stopping")
  /\ failures' = failures + 1
  /\ Only(<<nodes, checkpoint, interrupted, loop>>)

\* dag_completed is yielded, also by a run that was interrupted.
Finish ==
  /\ pos > Len(order)
  /\ Goto("visit", "finishing")
  /\ Only(<<nodes, checkpoint, interrupted, loop, failures>>)

\* run_dag's finally block.
Stop ==
  /\ pc \in {"stopping", "finishing"} /\ pc' = "idle"
  /\ Only(<<nodes, checkpoint, interrupted, loop, failures>>)

Step ==
  \/ Sort \/ RejectCycle \/ CycleEnds \/ SkipInterrupted \/ Skip \/ Begin
  \/ Complete \/ AfterCompleted \/ Fail \/ AnnounceFailure \/ Finish \/ Stop
-----------------------------------------------------------------------------
\* The consumer closes the generator or is cancelled: `except Exception` does
\* not see it, and the node in progress stays "running".
Abandon ==
  /\ Active /\ pc' = "idle"
  /\ Only(<<nodes, checkpoint, interrupted, loop, failures>>)

Interrupt ==
  /\ interrupted' = TRUE
  /\ Only(<<nodes, checkpoint, pc, loop, failures>>)

\* Link 6 interrupts the DAG if a run of that id is active by then.
HandleFailure ==
  /\ failures > 0
  /\ failures' = failures - 1
  /\ interrupted' = (interrupted \/ Active)
  /\ Only(<<nodes, checkpoint, pc, loop>>)

\* A roll-back changes the nodes and the flag, not the run that may be active.
RolledBack ==
  /\ interrupted' = FALSE
  /\ undone' = (undone \/ Active)
  /\ kept' = IF Active /\ interrupted THEN kept \cup {checkpoint} ELSE kept
  /\ UNCHANGED <<edges, run, checkpoint, pc, loop, failures>>

\* Mutant: the checkpoint is reset with the others.
RollbackAll ==
  /\ checkpoint # None
  /\ status' = [n \in Node |-> "pending"]
  /\ output' = [n \in Node |-> None]
  /\ RolledBack

\* rollback_to_checkpoint: every other node is reset, before or after it, also
\* while a run is active.
Rollback ==
  /\ checkpoint # None
  /\ status' = [n \in Node |-> IF n = checkpoint THEN status[n] ELSE "pending"]
  /\ output' = [n \in Node |-> IF n = checkpoint THEN output[n] ELSE None]
  /\ RolledBack

Next == Step \/ Start \/ Abandon \/ Interrupt \/ HandleFailure \/ Rollback

Spec == Init /\ [][Next]_vars

\* A node ends or runs into its timeout (asyncio.wait_for), and the consumer
\* asks for the next event until it leaves.
FairSpec == Spec /\ WF_vars(Step)
-----------------------------------------------------------------------------
(* Properties. *)

\* Nodes that are on, or only reached from, a cycle: each has a predecessor in
\* the set.
Cyclic == \E S \in SUBSET Node :
  S # {} /\ \A n \in S : \E e \in Into(n) : e.source \in S

\* _topological_sort answers None exactly for a cyclic DAG, and otherwise lists
\* every node once, behind all of its predecessors.
SortIsTopological ==
  /\ pc = "cyclic" => Cyclic
  /\ pc \in {"visit", "running", "completed"} =>
       /\ ~ Cyclic
       /\ IsInjective(order) /\ ToSet(order) = Node
       /\ \A i, j \in 1..Len(order) :
            (\E e \in Edge : e.source = order[i] /\ e.target = order[j]) => i < j

\* What the current run made of a node: it was completed by this run, or skipped.
SettledByThisRun(n) ==
  \/ status[n] = "skipped"
  \/ status[n] = "completed" /\ output[n].run = run

\* A node begins on what this run made of its predecessors: each was completed
\* by this run, or skipped by it, never left from a run before, whether that
\* one failed, was abandoned, or was rolled back.  The exception is a checkpoint
\* that the run passed while it was interrupted: a roll-back then lets the run
\* go on, and keeps what an earlier one made of the checkpoint.
InputsAreOfThisRun ==
  [][pc = "visit" /\ pc' = "running" =>
       \A e \in Into(Current) : SettledByThisRun(e.source) \/ e.source \in kept]_vars

\* dag_completed leaves nothing pending, unless the run was rolled back in its
\* course, which resets nodes that it passed; and unless the DAG is interrupted,
\* every other node was skipped or completed by this very run, or is a checkpoint
\* kept while it was interrupted.
FinishedMeansSettled ==
  pc = "finishing" =>
    \A n \in Node :
      \/ status[n] = "pending" /\ undone
      \/ status[n] # "pending" /\ (interrupted \/ SettledByThisRun(n) \/ n \in kept)

\* A roll-back has somewhere to go: no step takes the checkpoint's output away,
\* through failures and repeated roll-backs, and a node without an output becomes
\* the checkpoint only where a roll-back fell on the yield of its completion
\* (run_dag, rollback_to_checkpoint).
CheckpointKeepsOutput ==
  [][checkpoint' # None =>
       \/ output'[checkpoint'] # None
       \/ checkpoint' = checkpoint /\ output[checkpoint] = None
       \/ checkpoint' # checkpoint /\ status[checkpoint'] = "pending" /\ undone]_vars

\* Every run ends, whatever is interrupted or rolled back (run_dag's loop).
RunsEnd == Active ~> ~ Active
=============================================================================
