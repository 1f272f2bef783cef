------------------------- MODULE SwarmOrchestrator -------------------------
(***************************************************************************)
(* The swarms, the one table of their worker rows, and the streams that    *)
(* POST /swarm/{id}/run opens (server/services/swarm_orchestrator.py,      *)
(* server/api/swarm.py and the row operations of swarm_service.py).        *)
(*                                                                         *)
(* Every database session of the code is one action: a handler reads and   *)
(* commits there, and everything else may run between two of them.  A      *)
(* provider call is merged with the session that stores its answer.        *)
(***************************************************************************)
EXTENDS Integers, FiniteSets

CONSTANTS
  Run,            \* streams opened by POST /swarm/{id}/run
  Subtask,        \* subtask ids, numbered in the order a plan lists them
  Answer,         \* non-empty texts a worker may produce
  Alike,          \* <<x, y>> : SequenceMatcher(x, y).ratio() > 0.7
  AskedCounts,    \* worker_count values a plan may ask for
  MinGroup, MaxGroup, \* the clamp of dispatch_workers: 2 and 5
  MinWorkers,     \* self.min_workers
  MaxWorkers,     \* self.max_workers
  ResizeCounts,   \* counts resize_workers is called with
  ClientStatuses, \* statuses clients write (PUT /swarm/{id}, /cancel)
  MayDisconnect,  \* whether clients may drop their stream
  MaxSwarm,       \* bound on the ids of swarms
  MaxRow,         \* bound on the ids of worker rows
  MaxIndex,       \* bound on the worker_index resizes count up
  NoText, NoRow, NoReport

ASSUME SwarmAssumption ==
  /\ Subtask \subseteq Nat
  /\ AskedCounts \subseteq Nat
  /\ MinGroup \in Nat \ {0} /\ MaxGroup \in Nat
  /\ MinWorkers \in Nat /\ MaxWorkers \in Nat
  /\ MaxRow \in Nat /\ MaxIndex \in Nat /\ MaxSwarm \in Nat \ {0}
  /\ ResizeCounts \subseteq Nat
  /\ "gone" \notin ClientStatuses
  /\ MayDisconnect \in BOOLEAN
  /\ NoText \notin Answer

Swarm == 1..MaxSwarm
WorkerId == 1..MaxRow
Text == Answer \cup {NoText}
WorkerStatus == {"pending", "running", "completed", "failed"}
SwarmStatus ==
  {"pending", "decomposing", "running", "completed", "failed", "gone"}
     \cup ClientStatuses
Row == [swarm : Swarm, subtask : Subtask, index : Nat,
        status : WorkerStatus, result : Text]

ASSUME NoRowAssumption == NoRow \notin Row

\* A text matches itself entirely: its ratio is 1.
ASSUME AlikeAssumption == \A x \in Answer : <<x, x>> \in Alike

VARIABLES
  status,     \* each swarm.status, "gone" where there is no such row
  worker,     \* the swarm_workers table: WorkerId -> Row or NoRow
  swarm,      \* the swarm_id in the path of each stream's request
  resizing,   \* what a resize_workers call in progress has read
  pc,         \* where each stream is
  plan,       \* each stream's local `subtasks`
  task,       \* each stream's asyncio tasks, by the worker they execute
  ballot,     \* the worker rows each stream re-read before verifying
  report,     \* each stream's local `verification`
  published,  \* terminal events each stream has published
  \* Remembered for the properties; no action reads them.
  orphan,     \* <<r, w>> : row w was deleted under stream r's task for it
  renewed     \* streams whose swarm was deleted and its id given out again

memo == <<swarm, orphan, renewed>>
vars == <<status, worker, resizing, pc, plan, task, ballot, report, published,
          memo>>
-----------------------------------------------------------------------------
Lesser(a, b) == IF a < b THEN a ELSE b
Greater(a, b) == IF a < b THEN b ELSE a

Stored == {w \in WorkerId : worker[w] # NoRow}
RowsOf(s) == {w \in Stored : worker[w].swarm = s}
\* What a select by swarm_id returns.
Select(s) == [w \in WorkerId |-> IF w \in RowsOf(s) THEN worker[w] ELSE NoRow]

\* The tables have no AUTOINCREMENT: SQLite numbers a row after the largest id
\* still stored, so that the id of a deleted last row is given out again.
IsLastId(n) ==
  /\ \A w \in Stored : w <= n
  /\ n = 0 \/ n \in Stored
NewRow(sw, s, i) == [swarm |-> sw, subtask |-> s, index |-> i,
                     status |-> "pending", result |-> NoText]

\* Rows are inserted under consecutive ids; the i-th of them is indexed after
\* the earlier ones of its subtask.
Insert(top, rows) ==
  worker' = [w \in WorkerId |->
               IF w - top \in DOMAIN rows THEN rows[w - top] ELSE worker[w]]
Earlier(owner, i) == Cardinality({j \in 1..(i - 1) : owner[j] = owner[i]})

\* dispatch_workers clamps each subtask's count to MinGroup..MaxGroup.
GroupSizes == {Greater(MinGroup, Lesser(MaxGroup, n)) : n \in AskedCounts}
-----------------------------------------------------------------------------
(* verify_results, on the rows `b` (WorkerId -> Row or NoRow). *)

Group(b, s) == {w \in WorkerId : b[w] # NoRow /\ b[w].subtask = s}
Votes(b, s) ==
  {w \in Group(b, s) : b[w].status = "completed" /\ b[w].result # NoText}
Support(b, s, w) ==
  {v \in Votes(b, s) : v = w \/ <<b[w].result, b[v].result>> \in Alike}

\* best_idx : the first of the workers with the largest support.
Best(b, s) ==
  CHOOSE w \in Votes(b, s) : \A v \in Votes(b, s) :
    LET mine == Cardinality(Support(b, s, w))
        other == Cardinality(Support(b, s, v))
    IN other < mine \/ (other = mine /\ w <= v)

\* Mutant: half the votes are enough.
HalfIsEnough(b, s) ==
  2 * Cardinality(Support(b, s, Best(b, s))) >= Cardinality(Votes(b, s))

Majority(b, s) ==
  2 * Cardinality(Support(b, s, Best(b, s))) > Cardinality(Votes(b, s))

NoVotes(b, s) ==
  [verified |-> FALSE, consensus |-> NoText, dissent |-> Group(b, s)]

OneVote(b, s) ==
  [verified |-> TRUE,
   consensus |-> b[CHOOSE w \in Votes(b, s) : TRUE].result,
   dissent |-> {}]

\* Mutant: only workers that did not complete are dissent.
ManyVotesNoDissent(b, s) ==
  [verified |-> Majority(b, s),
   consensus |-> IF Majority(b, s) THEN b[Best(b, s)].result ELSE NoText,
   dissent |-> {w \in Group(b, s) : b[w].status # "completed"}]

ManyVotes(b, s) ==
  LET consensus == IF Majority(b, s) THEN b[Best(b, s)].result ELSE NoText
  IN [verified |-> Majority(b, s),
      consensus |-> consensus,
      dissent |->
        {w \in Group(b, s) : b[w].status # "completed"}
          \cup {w \in Votes(b, s) : /\ Majority(b, s)
                                    /\ <<b[w].result, consensus>> \notin Alike}]

Verdict(b, s) ==
  IF Votes(b, s) = {} THEN NoVotes(b, s)
  ELSE IF Cardinality(Votes(b, s)) = 1 THEN OneVote(b, s)
  ELSE ManyVotes(b, s)

\* Mutant: the rows are filtered before they are grouped.
VerifyCompleted(b) ==
  [s \in {b[w].subtask : w \in {v \in WorkerId : /\ b[v] # NoRow
                                               /\ b[v].status = "completed"}} |->
     Verdict(b, s)]

VerifyResults(b) ==
  [s \in {b[w].subtask : w \in {v \in WorkerId : b[v] # NoRow}} |->
     Verdict(b, s)]
-----------------------------------------------------------------------------
Init ==
  /\ status = [s \in Swarm |-> "pending"]
  /\ swarm \in [Run -> Swarm]
  /\ worker = [w \in WorkerId |-> NoRow]
  /\ resizing = NoReport
  /\ pc = [r \in Run |-> "idle"]
  /\ plan = [r \in Run |-> {}]
  /\ task = [r \in Run |-> [w \in WorkerId |-> "none"]]
  /\ ballot = [r \in Run |-> [w \in WorkerId |-> NoRow]]
  /\ report = [r \in Run |-> NoReport]
  /\ published = [r \in Run |-> {}]
  /\ orphan = {}
  /\ renewed = {}

Gone(r) == status[swarm[r]] = "gone"
SetStatus(r, v) == status' = [status EXCEPT ![swarm[r]] = v]
Goto(r, l) == pc' = [pc EXCEPT ![r] = l]
\* An exception inside run_swarm's try block.
Raise(r) == Goto(r, "except")

\* POST /swarm/{id}/run answers 404 unless the row is there.
Request(r) ==
  /\ pc[r] = "idle" /\ ~ Gone(r)
  /\ Goto(r, "start")
  /\ UNCHANGED <<status, worker, resizing, plan, task, ballot, report,
                 published, memo>>

\* The row or its persona is missing: an error event, and the stream ends.
RejectRun(r) ==
  /\ pc[r] = "start"
  /\ Goto(r, "closing")
  /\ UNCHANGED <<status, worker, resizing, plan, task, ballot, report,
                 published, memo>>

\* The row is marked whatever its status: nothing refuses a second run.
StartRun(r) ==
  /\ pc[r] = "start" /\ ~ Gone(r)
  /\ SetStatus(r, "decomposing")
  /\ Goto(r, "decompose")
  /\ UNCHANGED <<worker, resizing, plan, task, ballot, report, published, memo>>

\* The provider fails, its answer holds no subtask, or the row is gone.
DecomposeFails(r) ==
  /\ pc[r] = "decompose"
  /\ Raise(r)
  /\ UNCHANGED <<status, worker, resizing, plan, task, ballot, report,
                 published, memo>>

DecomposeTask(r) ==
  /\ pc[r] = "decompose" /\ ~ Gone(r)
  /\ \E S \in SUBSET Subtask \ {{}} : plan' = [plan EXCEPT ![r] = S]
  /\ Goto(r, "dispatch")
  /\ UNCHANGED <<status, worker, resizing, task, ballot, report, published, memo>>

\* Rows for every subtask in turn; owner maps the new rows to subtasks.
DispatchWorkers(r) ==
  /\ pc[r] = "dispatch" /\ ~ Gone(r)
  /\ \E top \in 0..MaxRow : \E n \in 1..(MaxRow - top) :
     \E owner \in [1..n -> plan[r]] :
       /\ IsLastId(top)
       /\ \A i, j \in 1..n : i < j => owner[i] <= owner[j]
       /\ \A s \in plan[r] :
            Cardinality({i \in 1..n : owner[i] = s}) \in GroupSizes
       /\ Insert(top, [i \in 1..n |->
                        NewRow(swarm[r], owner[i], Earlier(owner, i))])
  /\ Goto(r, "mark")
  /\ UNCHANGED <<status, resizing, plan, task, ballot, report, published, memo>>

MarkRunning(r) ==
  /\ pc[r] = "mark" /\ ~ Gone(r)
  /\ SetStatus(r, "running")
  /\ Goto(r, "load")
  /\ UNCHANGED <<worker, resizing, plan, task, ballot, report, published, memo>>

\* dispatch_workers finds no swarm, or a subtask without an id or with a count
\* that is no number: nothing is inserted.
DispatchFails(r) ==
  /\ pc[r] = "dispatch"
  /\ Raise(r)
  /\ UNCHANGED <<status, worker, resizing, plan, task, ballot, report,
                 published, memo>>

\* The status update finds no row.
SwarmGone(r) ==
  /\ pc[r] = "mark" /\ Gone(r)
  /\ Raise(r)
  /\ UNCHANGED <<status, worker, resizing, plan, task, ballot, report,
                 published, memo>>

\* One task for every worker row of the swarm, whichever run created it.
LoadWorkers(r) ==
  /\ pc[r] = "load"
  /\ task' = [task EXCEPT ![r] =
       [w \in WorkerId |-> IF w \in RowsOf(swarm[r]) THEN "start" ELSE "none"]]
  /\ Goto(r, "gather")
  /\ UNCHANGED <<status, worker, resizing, plan, ballot, report, published, memo>>

Ended == {"none", "done", "failed", "stranded"}

\* as_completed has yielded them all; the rows are read again and verified.
Gather(r) ==
  /\ pc[r] = "gather"
  /\ \A w \in WorkerId : task[r][w] \in Ended
  /\ ballot' = [ballot EXCEPT ![r] = Select(swarm[r])]
  /\ report' = [report EXCEPT ![r] = VerifyResults(Select(swarm[r]))]
  /\ Goto(r, "aggregate")
  /\ UNCHANGED <<status, worker, resizing, plan, task, published, memo>>

AggregateResults(r) ==
  /\ pc[r] = "aggregate" /\ ~ Gone(r)
  /\ SetStatus(r, "completed")
  /\ Goto(r, "announce")
  /\ UNCHANGED <<worker, resizing, plan, task, ballot, report, published, memo>>

\* The provider fails or the row is gone.
AggregateFails(r) ==
  /\ pc[r] = "aggregate"
  /\ Raise(r)
  /\ UNCHANGED <<status, worker, resizing, plan, task, ballot, report,
                 published, memo>>

PublishCompleted(r) ==
  /\ pc[r] = "announce"
  /\ published' = [published EXCEPT ![r] = @ \cup {"completed"}]
  /\ Goto(r, "deliver")
  /\ UNCHANGED <<status, worker, resizing, plan, task, ballot, report, memo>>

\* The client takes the last event; only now does event_stream set `completed`.
Deliver(r) ==
  /\ pc[r] = "deliver"
  /\ Goto(r, "ended")
  /\ UNCHANGED <<status, worker, resizing, plan, task, ballot, report,
                 published, memo>>

\* Mutant: the failure is announced but not stored.
RecordFailureUnsaved(r) ==
  /\ pc[r] = "except"
  /\ published' = [published EXCEPT ![r] = @ \cup {"failed"}]
  /\ Goto(r, "closing")
  /\ UNCHANGED <<status, worker, resizing, plan, task, ballot, report, memo>>

\* Mutant: a status the rest of the system does not know.
RecordFailureError(r) ==
  /\ pc[r] = "except"
  /\ SetStatus(r, IF Gone(r) THEN "gone" ELSE "error")
  /\ published' = [published EXCEPT ![r] = @ \cup {"failed"}]
  /\ Goto(r, "closing")
  /\ UNCHANGED <<worker, resizing, plan, task, ballot, report, memo>>

\* run_swarm's handler: the row, then swarm.failed.
RecordFailure(r) ==
  /\ pc[r] = "except"
  /\ SetStatus(r, IF Gone(r) THEN "gone" ELSE "failed")
  /\ published' = [published EXCEPT ![r] = @ \cup {"failed"}]
  /\ Goto(r, "closing")
  /\ UNCHANGED <<worker, resizing, plan, task, ballot, report, memo>>

\* Mutant: the stream's end also fails the row.
CloseStreamFails(r) ==
  /\ pc[r] = "closing"
  /\ SetStatus(r, IF Gone(r) THEN "gone" ELSE "failed")
  /\ published' = [published EXCEPT ![r] = @ \cup {"stream_ended"}]
  /\ Goto(r, "ended")
  /\ UNCHANGED <<worker, resizing, plan, task, ballot, report, memo>>

\* event_stream's finally block, reached without `completed`.
CloseStream(r) ==
  /\ pc[r] = "closing"
  /\ published' = [published EXCEPT ![r] = @ \cup {"stream_ended"}]
  /\ Goto(r, "ended")
  /\ UNCHANGED <<status, worker, resizing, plan, task, ballot, report, memo>>

\* Mutant: no finally block.
DisconnectSilently(r) ==
  /\ MayDisconnect
  /\ pc[r] \notin {"idle", "start", "closing", "ended"}
  /\ Goto(r, "ended")
  /\ UNCHANGED <<status, worker, resizing, plan, task, ballot, report,
                 published, memo>>

\* The response is cancelled: GeneratorExit and CancelledError pass by
\* run_swarm's `except Exception`, and the worker tasks are left running.
Disconnect(r) ==
  /\ MayDisconnect
  /\ pc[r] \notin {"idle", "start", "closing", "ended"}
  /\ Goto(r, "closing")
  /\ UNCHANGED <<status, worker, resizing, plan, task, ballot, report,
                 published, memo>>

\* The client leaves before the first event: event_stream never starts.
DisconnectEarly(r) ==
  /\ MayDisconnect /\ pc[r] = "start"
  /\ Goto(r, "ended")
  /\ UNCHANGED <<status, worker, resizing, plan, task, ballot, report,
                 published, memo>>
-----------------------------------------------------------------------------
(* execute_worker and _run_worker_safe: one asyncio task per worker. *)

SetTask(r, w, s) == task' = [task EXCEPT ![r][w] = s]
OnlyTask ==
  UNCHANGED <<status, resizing, pc, plan, ballot, report, published, memo>>

\* Mutant: the row is not marked before the provider is called.
BeginWorkerUnmarked(r, w) ==
  /\ task[r][w] = "start" /\ worker[w] # NoRow
  /\ SetTask(r, w, "generate")
  /\ UNCHANGED worker
  /\ OnlyTask

BeginWorker(r, w) ==
  /\ task[r][w] = "start" /\ worker[w] # NoRow
  /\ worker' = [worker EXCEPT ![w].status = "running"]
  /\ SetTask(r, w, "generate")
  /\ OnlyTask

\* get_provider knows no provider of that name: it raises outside the try
\* block, and the row goes on saying "running" when the task has ended.
StrandWorker(r, w) ==
  /\ task[r][w] = "start" /\ worker[w] # NoRow
  /\ worker' = [worker EXCEPT ![w].status = "running"]
  /\ SetTask(r, w, "stranded")
  /\ OnlyTask

FinishWorker(r, w) ==
  /\ task[r][w] = "generate" /\ worker[w] # NoRow
  /\ \E t \in Text :
       worker' = [worker EXCEPT ![w].status = "completed", ![w].result = t]
  /\ SetTask(r, w, "done")
  /\ OnlyTask

\* Mutant: the failure is reported but not stored.
FailWorkerUnsaved(r, w) ==
  /\ task[r][w] = "generate" /\ worker[w] # NoRow
  /\ SetTask(r, w, "failed")
  /\ UNCHANGED worker
  /\ OnlyTask

\* The provider raises: the row is marked, and the task reports the failure.
FailWorker(r, w) ==
  /\ task[r][w] = "generate" /\ worker[w] # NoRow
  /\ worker' = [worker EXCEPT ![w].status = "failed"]
  /\ SetTask(r, w, "failed")
  /\ OnlyTask

\* The worker's row was deleted: every session.get(...).status raises.
LoseWorker(r, w) ==
  /\ task[r][w] \in {"start", "generate"} /\ worker[w] = NoRow
  /\ SetTask(r, w, "failed")
  /\ UNCHANGED worker
  /\ OnlyTask
-----------------------------------------------------------------------------
(* Operations of other requests on the same rows. *)

StreamsUnchanged == UNCHANGED <<pc, plan, task, ballot, report, published>>

\* POST /cancel and PUT /swarm/{id} set the status unconditionally.
UpdateStatus(s, v) ==
  /\ status[s] # "gone"
  /\ status' = [status EXCEPT ![s] = v]
  /\ UNCHANGED <<worker, resizing, memo>>
  /\ StreamsUnchanged

\* Like a worker's, a swarm's id is the largest stored one plus one.
CreateSwarm(s) ==
  /\ status[s] = "gone"
  /\ s - 1 \in {0} \cup {t \in Swarm : status[t] # "gone"}
  /\ \A t \in Swarm : t > s => status[t] = "gone"
  /\ status' = [status EXCEPT ![s] = "pending"]
  /\ renewed' = renewed \cup
       {r \in Run : swarm[r] = s /\ pc[r] \notin {"idle", "start"}}
  /\ UNCHANGED <<worker, resizing, swarm, orphan>>
  /\ StreamsUnchanged

\* Rows leave the table, and tasks may be left without theirs.
Delete(rows) ==
  /\ worker' = [w \in WorkerId |-> IF w \in rows THEN NoRow ELSE worker[w]]
  /\ orphan' = orphan \cup
       {rw \in Run \X (rows \cap Stored) : task[rw[1]][rw[2]] # "none"}
  /\ UNCHANGED <<swarm, renewed>>

\* The relationship cascades: the worker rows go with the swarm.
DeleteSwarm(s) ==
  /\ status[s] # "gone"
  /\ status' = [status EXCEPT ![s] = "gone"]
  /\ Delete(RowsOf(s))
  /\ UNCHANGED resizing
  /\ StreamsUnchanged

\* resize_workers reads the rows; its commit comes later.
ResizeRead(s, count) ==
  /\ resizing = NoReport
  /\ Cardinality(RowsOf(s)) # Greater(MinWorkers, Lesser(MaxWorkers, count))
  /\ resizing' = [swarm |-> s, read |-> Select(s),
                  target |-> Greater(MinWorkers, Lesser(MaxWorkers, count))]
  /\ UNCHANGED <<status, worker, memo>>
  /\ StreamsUnchanged

ReadRows == {w \in WorkerId : resizing.read[w] # NoRow}

\* Each group is filled up to the target that was meant for the swarm.
Missing(s) ==
  Greater(0, resizing.target - Cardinality(Group(resizing.read, s)))
ReadSubtasks == {resizing.read[w].subtask : w \in ReadRows}
NextIndex(s) ==
  1 + CHOOSE i \in {resizing.read[w].index : w \in Group(resizing.read, s)} :
        \A w \in Group(resizing.read, s) : resizing.read[w].index <= i

ScaleUp ==
  /\ resizing # NoReport
  /\ Cardinality(ReadRows) < resizing.target
  /\ \A s \in ReadSubtasks : NextIndex(s) + Missing(s) <= MaxIndex + 1
  /\ \E top \in 0..MaxRow : \E n \in 0..(MaxRow - top) :
     \E owner \in [1..n -> ReadSubtasks] :
       /\ IsLastId(top)
       /\ \A i, j \in 1..n : i < j => owner[i] <= owner[j]
       /\ \A s \in ReadSubtasks :
            Cardinality({i \in 1..n : owner[i] = s}) = Missing(s)
       /\ Insert(top, [i \in 1..n |->
            NewRow(resizing.swarm, owner[i],
                   NextIndex(owner[i]) + Earlier(owner, i))])
  /\ resizing' = NoReport
  /\ UNCHANGED <<status, memo>>
  /\ StreamsUnchanged

\* status_priority: pending rows go first, then running, completed, failed;
\* within a status the highest worker_index goes first.
Priority(s) ==
  CASE s = "pending" -> 0 [] s = "running" -> 1
    [] s = "completed" -> 2 [] s = "failed" -> 3
GoesBefore(v, w) ==
  LET a == resizing.read[v]
      b == resizing.read[w]
  IN \/ Priority(a.status) < Priority(b.status)
     \/ /\ a.status = b.status
        /\ a.index > b.index \/ (a.index = b.index /\ v < w)
Removed ==
  {w \in ReadRows : Cardinality({v \in ReadRows : GoesBefore(v, w)})
                      < Cardinality(ReadRows) - resizing.target}

ScaleDown ==
  /\ resizing # NoReport
  /\ Cardinality(ReadRows) > resizing.target
  /\ Delete(Removed)
  /\ resizing' = NoReport
  /\ UNCHANGED status
  /\ StreamsUnchanged
-----------------------------------------------------------------------------
Stream(r) ==
  \/ RejectRun(r) \/ StartRun(r) \/ DecomposeFails(r) \/ DecomposeTask(r)
  \/ DispatchWorkers(r) \/ DispatchFails(r) \/ MarkRunning(r) \/ SwarmGone(r)
  \/ LoadWorkers(r) \/ Gather(r) \/ AggregateResults(r) \/ AggregateFails(r)
  \/ PublishCompleted(r) \/ Deliver(r) \/ RecordFailure(r) \/ CloseStream(r)

Worker(r, w) ==
  \/ BeginWorker(r, w) \/ StrandWorker(r, w) \/ FinishWorker(r, w)
  \/ FailWorker(r, w) \/ LoseWorker(r, w)

Client ==
  \/ \E r \in Run : Request(r) \/ Disconnect(r) \/ DisconnectEarly(r)
  \/ \E s \in Swarm : CreateSwarm(s) \/ DeleteSwarm(s)
  \/ \E s \in Swarm, v \in ClientStatuses : UpdateStatus(s, v)
  \/ \E s \in Swarm, c \in ResizeCounts : ResizeRead(s, c)

Next ==
  \/ \E r \in Run : Stream(r)
  \/ \E r \in Run, w \in WorkerId : Worker(r, w)
  \/ Client
  \/ ScaleUp
  \/ ScaleDown

Spec == Init /\ [][Next]_vars

\* The event loop runs every stream and task that can go on (a provider call
\* ends: every protocol sets an httpx timeout).  Clients owe nothing.
FairSpec ==
  /\ Spec
  /\ \A r \in Run : WF_vars(Stream(r))
  /\ \A r \in Run, w \in WorkerId : WF_vars(Worker(r, w))
-----------------------------------------------------------------------------
(* Properties. *)

PC == {"idle", "start", "decompose", "dispatch", "mark", "load", "gather",
       "aggregate", "announce", "deliver", "except", "closing", "ended"}
Stage == {"none", "start", "generate", "done", "failed", "stranded"}
Table == [WorkerId -> Row \cup {NoRow}]

\* Every variable keeps its type: rows stay rows of a swarm and a planned
\* subtask, every stream and task is at one of the points the code can be at.
TypeOK ==
  /\ status \in [Swarm -> SwarmStatus]
  /\ worker \in Table
  /\ swarm \in [Run -> Swarm]
  /\ resizing \in {NoReport} \cup [swarm : Swarm, target : Nat, read : Table]
  /\ pc \in [Run -> PC]
  /\ plan \in [Run -> SUBSET Subtask]
  /\ task \in [Run -> [WorkerId -> Stage]]
  /\ ballot \in [Run -> Table]
  /\ published \in [Run -> SUBSET {"completed", "failed", "stream_ended"}]
  /\ orphan \subseteq Run \X WorkerId
  /\ renewed \subseteq Run

\* A row says "running" only while some stream's task generates for it, or
\* because a task gave it up for want of a provider, whose failure nothing
\* stores.  That is so after a client left, after a second run took the row
\* over, and after the id was given to a row of another swarm (the three
\* sessions of execute_worker).
RunningRowsAreExecuted ==
  \A w \in Stored :
    worker[w].status = "running" =>
      \E r \in Run : task[r][w] \in {"generate", "stranded"}

\* A row that waits was begun by no task, other than by one whose own row was
\* deleted: what a task answers lands in the row it was started for as long as
\* that row is there, whatever is inserted, resized or deleted around it
\* (execute_worker finds its row by id).
PendingRowsAreUntouched ==
  \A w \in Stored :
    worker[w].status = "pending" =>
      \A r \in Run : task[r][w] \in {"none", "start"} \/ <<r, w>> \in orphan

\* A stream that announces swarm.completed verified a result for every subtask
\* of its plan: no failed worker and no deletion drops a subtask silently
\* (run_swarm re-reads the rows and builds the report from them alone), unless
\* its swarm's id was given out again meanwhile.
CompletedReportCoversPlan ==
  \A r \in Run :
    "completed" \in published[r] /\ r \notin renewed
      => plan[r] \subseteq DOMAIN report[r]

\* Votes are one worker each: what a worker of this run answered is either
\* behind the consensus or listed as dissent (verify_results keeps no answer
\* out of the human's sight once a majority is claimed), as long as no other
\* stream has a task for the row.
AnswersAreCounted ==
  \A r \in Run : pc[r] = "aggregate" =>
    \A w \in RowsOf(swarm[r]) :
      LET v == report[r][worker[w].subtask]
      IN /\ task[r][w] = "done"
         /\ \A q \in Run \ {r} : task[q][w] = "none"
         /\ worker[w].result # NoText
         /\ v.verified
         => w \in v.dissent \/ <<worker[w].result, v.consensus>> \in Alike

\* The order in which rows come back decides nothing: no answer unlike a
\* verified consensus has as much support as the consensus (the strict
\* majority of verify_results).  Said of similarities that put the answers into
\* classes: ratio() > 0.7 need not, and then rows can decide.
ConsensusIsUnique ==
  \A r \in Run : pc[r] = "aggregate" =>
    \A s \in DOMAIN report[r] : report[r][s].verified =>
      \A w \in Votes(ballot[r], s) :
        \/ <<ballot[r][w].result, report[r][s].consensus>> \in Alike
        \/ Cardinality(Support(ballot[r], s, w))
              < Cardinality({v \in Votes(ballot[r], s) :
                  <<ballot[r][v].result, report[r][s].consensus>> \in Alike})

\* Once a stream has announced swarm.completed, the row says "completed" until
\* a client changes or deletes it: closing the stream, late or not, does not
\* undo it, nor does anything but another stream that is at work on the swarm.
AnnouncedCompletionHolds ==
  [][\A r \in Run :
       /\ "completed" \in published[r] /\ status[swarm[r]] = "completed"
       /\ \A q \in Run \ {r} :
            swarm[q] = swarm[r] => pc[q] \in {"idle", "closing", "ended"}
       => status'[swarm[r]] \in {"completed", "gone"} \cup ClientStatuses]_vars

\* A stream whose generator ran publishes a terminal event, whether it
\* completed, failed or lost its client (event_stream's finally block).
EveryRunIsAnnounced ==
  \A r \in Run : pc[r] = "decompose" ~> published[r] # {}

\* A swarm does not stay in progress for ever: whatever worker fails and
\* whatever row is deleted, the status becomes final, or the stream that drove
\* it was left by its client (nothing in the code settles such a row).
SwarmSettles ==
  \A s \in Swarm :
    status[s] \in {"decomposing", "running"} ~>
      \/ status[s] \in {"completed", "failed", "gone"} \cup ClientStatuses
      \/ \E r \in Run : /\ swarm[r] = s /\ pc[r] \in {"closing", "ended"}
                        /\ published[r] \cap {"completed", "failed"} = {}
=============================================================================
