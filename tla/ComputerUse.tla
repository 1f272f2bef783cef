----------------------------- MODULE ComputerUse -----------------------------
(***************************************************************************)
(* Computer-use tasks: the requests of server/api/cu.py, the runs that     *)
(* CUExecutor (server/cu/executor/runner.py) makes of a task's plan, the   *)
(* emergency stop, the audit log and the roll-back (server/cu/safety).     *)
(* Each run is a thread, so an action is what it does between two looks at *)
(* something the others see: the switch, the log file, a manager's steps.  *)
(* Performing an action, and undoing it, is so far a stand-in in the code  *)
(* (_dispatch_action, and a count of the steps to undo); the model says    *)
(* when it would be done.                                                  *)
(***************************************************************************)
EXTENDS Integers, Sequences, FiniteSets

CONSTANTS
  Task,         \* tasks there may be
  Run,          \* POST /tasks/{id}/execute
  Undoing,      \* POST /tasks/{id}/rollback
  Plans,        \* plans: for each step what its roll-back strategy is
  MaxTriggers,  \* bound on emergency stops
  MaxFaults,    \* bound on log files that cannot be read or written
  None

\* What _validate_step makes of an action type: no strategy, one that can be
\* rolled back, one that cannot.
Strategy == {"none", "reversible", "irreversible"}

ASSUME ComputerUseAssumption ==
  /\ Plans \subseteq Seq(Strategy) \ {<<>>}
  /\ MaxTriggers \in Nat /\ MaxFaults \in Nat
  /\ None \notin {"success", "failed"}

VARIABLES
  triggered,  \* the emergency stop
  triggers,   \* emergency stops still to come
  plan,       \* the plan of each task
  status,     \* status in _tasks, "none" for a task that is not there
  manager,    \* _rollback_managers: the run whose manager a task has
  audit,      \* the audit log of each task, write by write
  run,        \* the runs: where each is, its result, its manager's steps
  undoing,    \* the roll-back requests
  faults,     \* faults still to come
  late,       \* actions each run has performed since the switch was thrown
  overlapped, \* tasks that were ever run twice at a time
  unread      \* tasks whose log once could not be read

switch == <<triggered, triggers>>
tasks == <<plan, status, manager>>
ghosts == <<late, overlapped, unread>>
vars == <<switch, tasks, audit, run, undoing, faults, ghosts>>

\* What is written to a log: by whom, about which step, and the write whose
\* entry its prev_hash is of, 0 for the empty hash. The result of a half-written
\* line is None; the write after it falls on the same line, and neither is read.
Write == [run : Run, step : Nat, result : {None, "success", "failed"},
          prev : Nat]
Readable(t, k) ==
  /\ k \in DOMAIN audit[t] /\ audit[t][k].result # None
  /\ k > 1 => audit[t][k - 1].result # None

\* The write whose entry the hash on a line is of, if that can be decoded.
Hash(t, k) == IF Readable(t, k) THEN k ELSE 0

Waiting == [at |-> "waiting"]
Running(e) == run[e].at \notin {"waiting", "ended"}
Goes(e, next) == run' = [run EXCEPT ![e] = next]
Moves(e, from, to) == run[e].at = from /\ Goes(e, [run[e] EXCEPT !.at = to])
StrategyOf(e, i) == plan[run[e].task][i]

Init ==
  /\ triggered = FALSE /\ triggers = MaxTriggers
  /\ plan \in [Task -> Plans]
  /\ status = [t \in Task |-> "none"]
  /\ manager = [t \in Task |-> None]
  /\ audit = [t \in Task |-> <<>>]
  /\ run = [e \in Run |-> Waiting]
  /\ undoing = [u \in Undoing |-> Waiting]
  /\ faults = MaxFaults
  /\ late = [e \in Run |-> 0] /\ overlapped = {} /\ unread = {}
-----------------------------------------------------------------------------
(* Requests. *)

CreateTask(t) ==
  /\ status[t] = "none"
  /\ status' = [status EXCEPT ![t] = "created"]
  /\ UNCHANGED <<switch, plan, manager, audit, run, undoing, faults, ghosts>>

\* _cleanup_old_tasks, a day later: whatever the task is doing.
Expire(t) ==
  /\ status[t] \notin {"none", "expired"}
  /\ status' = [status EXCEPT ![t] = "expired"]
  /\ UNCHANGED <<switch, plan, manager, audit, run, undoing, faults, ghosts>>

Known(t) == status[t] \notin {"none", "expired"}

\* execute_task takes the task whatever its status.
ExecuteTask(e, t) ==
  /\ run[e].at = "waiting" /\ Known(t)
  /\ status' = [status EXCEPT ![t] = "executing"]
  /\ Goes(e, [at |-> "start", task |-> t])
  /\ overlapped' = IF \E f \in Run : Running(f) /\ run[f].task = t
                   THEN overlapped \cup {t} ELSE overlapped
  /\ UNCHANGED <<switch, plan, manager, audit, undoing, faults, late, unread>>

Trigger ==
  /\ triggers > 0 /\ triggers' = triggers - 1
  /\ triggered' = TRUE
  /\ late' = IF triggered THEN late ELSE [e \in Run |-> 0]
  /\ UNCHANGED <<tasks, audit, run, undoing, faults, overlapped, unread>>

Reset ==
  /\ triggered /\ triggered' = FALSE
  /\ UNCHANGED <<triggers, tasks, audit, run, undoing, faults, ghosts>>
-----------------------------------------------------------------------------
(* A run. *)

\* run_task makes a manager; a manager the task had before is forgotten.
RunTask(e) ==
  /\ run[e].at = "start"
  /\ manager' = [manager EXCEPT ![run[e].task] = e]
  /\ Goes(e, [at |-> "step", task |-> run[e].task, step |-> 1, result |-> None,
              succeeded |-> {}, recorded |-> <<>>, undone |-> {},
              prev |-> 0, status |-> "executing"])
  /\ UNCHANGED <<switch, plan, status, audit, undoing, faults, ghosts>>

\* The run ends with a status; only a completed one undoes nothing.
Ends(e, with) ==
  Goes(e, [run[e] EXCEPT !.at = IF with = "completed" THEN "report" ELSE "undo",
                         !.status = with])

\* Mutant: the switch is looked at before the first step only.
TriggeredAtFirst(e) == triggered /\ run[e].step = 1

\* EmergencyStop.check raises.
Triggered(e) == triggered

\* The head of run_task's loop.
NextStep(e) ==
  /\ run[e].at = "step"
  /\ IF run[e].step > Len(plan[run[e].task]) THEN Ends(e, "completed")
     ELSE IF Triggered(e) THEN Ends(e, "stopped")
     ELSE Goes(e, [run[e] EXCEPT !.at = "dispatch"])
  /\ UNCHANGED <<switch, tasks, audit, undoing, faults, ghosts>>

\* _dispatch_action looks again.
Dispatch(e) ==
  /\ run[e].at = "dispatch"
  /\ IF Triggered(e) THEN Ends(e, "stopped")
     ELSE Goes(e, [run[e] EXCEPT !.at = "perform"])
  /\ UNCHANGED <<switch, tasks, audit, undoing, faults, ghosts>>

\* The action is performed and verified, or raises.
Perform(e) ==
  /\ run[e].at = "perform"
  /\ \E result \in {"success", "failed"} :
       Goes(e, [run[e] EXCEPT !.at = "log", !.result = result,
                  !.succeeded = IF result = "success"
                                THEN @ \cup {run[e].step} ELSE @])
  /\ late' = [late EXCEPT ![e] = IF triggered THEN @ + 1 ELSE @]
  /\ UNCHANGED <<switch, tasks, audit, undoing, faults, overlapped, unread>>

\* Mutant: a run begins a chain of its own.
LastOwnEntry(e) ==
  Cardinality({i \in DOMAIN audit[run[e].task] : audit[run[e].task][i].run = e})

\* _get_last_hash.
LastEntry(e) == Hash(run[e].task, Len(audit[run[e].task]))

\* log_step reads the end of the chain, or nothing of a file it cannot read ...
ReadLastHash(e) ==
  /\ run[e].at = "log"
  /\ \/ /\ Goes(e, [run[e] EXCEPT !.at = "append", !.prev = LastEntry(e)])
        /\ UNCHANGED <<faults, unread>>
     \/ /\ faults > 0 /\ faults' = faults - 1
        /\ audit[run[e].task] # <<>>
        /\ unread' = unread \cup {run[e].task}
        /\ Goes(e, [run[e] EXCEPT !.at = "append", !.prev = 0])
  /\ UNCHANGED <<switch, tasks, audit, undoing, late, overlapped>>

Writes(e, result) ==
  audit' = [audit EXCEPT ![run[e].task] = Append(@,
    [run |-> e, step |-> run[e].step, result |-> result, prev |-> run[e].prev])]

\* ... and appends to it; then the step is recorded for a roll-back, and the
\* next one follows unless it failed.
AppendEntry(e) ==
  LET now == run[e]
  IN /\ now.at = "append"
     /\ Writes(e, now.result)
     /\ Goes(e, IF now.result = "failed"
                THEN [now EXCEPT !.at = "undo", !.status = "failed"]
                ELSE [now EXCEPT !.prev = 0,
                        !.at = "step", !.step = @ + 1,
                        !.recorded = IF StrategyOf(e, now.step) = "none" THEN @
                                     ELSE Append(@, now.step)])
     /\ UNCHANGED <<switch, tasks, undoing, faults, ghosts>>

\* The entry cannot be written, or part of it only; the step is then not
\* recorded either.
LogFails(e) ==
  /\ run[e].at \in {"log", "append"}
  /\ faults > 0 /\ faults' = faults - 1
  /\ Ends(e, "failed")
  /\ UNCHANGED audit \/ (run[e].at = "append" /\ Writes(e, None))
  /\ UNCHANGED <<switch, tasks, undoing, ghosts>>

\* Mutant: the roll-back ends at a step that cannot be undone.
UndoneUpToFinal(e, to) ==
  LET recorded == run[e].recorded
  IN {recorded[i] : i \in {j \in DOMAIN recorded :
        \A k \in j..Len(recorded) :
          recorded[k] >= to /\ StrategyOf(e, recorded[k]) = "reversible"}}

\* rollback_task_sync, from the last step recorded back to one.
Undone(e, to) ==
  LET recorded == run[e].recorded
  IN {recorded[i] : i \in {j \in DOMAIN recorded :
        /\ StrategyOf(e, recorded[j]) = "reversible"
        /\ \A k \in j..Len(recorded) : recorded[k] >= to}}

UndoRun(e) ==
  /\ run[e].at = "undo"
  /\ Goes(e, [run[e] EXCEPT !.at = "report", !.undone = @ \cup Undone(e, 0)])
  /\ UNCHANGED <<switch, tasks, audit, undoing, faults, ghosts>>

\* execute_task stores the result over whatever the status has become.
Report(e) ==
  /\ Moves(e, "report", "ended")
  /\ status' = IF Known(run[e].task)
               THEN [status EXCEPT ![run[e].task] = run[e].status] ELSE status
  /\ UNCHANGED <<switch, plan, manager, audit, undoing, faults, ghosts>>
-----------------------------------------------------------------------------
(* Rolling back on request, also while the run goes on. *)

AskRollback(u, t) ==
  \E to \in 0..Len(plan[t]) :
    /\ undoing[u].at = "waiting" /\ Known(t)
    /\ undoing' = [undoing EXCEPT ![u] = [at |-> "asked", task |-> t, to |-> to]]
    /\ UNCHANGED <<switch, tasks, audit, run, faults, ghosts>>

RollbackTask(u) ==
  LET asked == undoing[u]
      e == manager[asked.task]
  IN /\ asked.at = "asked"
     /\ IF e = None THEN UNCHANGED run
        ELSE Goes(e, [run[e] EXCEPT !.undone = @ \cup Undone(e, asked.to)])
     /\ undoing' = [undoing EXCEPT ![u] =
          IF e = None THEN [at |-> "ended"]
          ELSE [at |-> "undone", task |-> asked.task]]
     /\ UNCHANGED <<switch, tasks, audit, faults, ghosts>>

\* A task that has expired meanwhile raises.
RollbackEnds(u) ==
  LET t == undoing[u].task
  IN /\ undoing[u].at = "undone"
     /\ status' = IF Known(t) THEN [status EXCEPT ![t] = "rolled_back"]
                  ELSE status
     /\ undoing' = [undoing EXCEPT ![u] = [at |-> "ended"]]
     /\ UNCHANGED <<switch, plan, manager, audit, run, faults, ghosts>>

Next ==
  \/ \E t \in Task :
       \/ CreateTask(t) \/ Expire(t)
       \/ \E e \in Run : ExecuteTask(e, t)
       \/ \E u \in Undoing : AskRollback(u, t)
  \/ Trigger \/ Reset
  \/ \E e \in Run :
       \/ RunTask(e) \/ NextStep(e) \/ Dispatch(e) \/ Perform(e)
       \/ ReadLastHash(e) \/ AppendEntry(e) \/ LogFails(e)
       \/ UndoRun(e) \/ Report(e)
  \/ \E u \in Undoing : RollbackTask(u) \/ RollbackEnds(u)

Spec == Init /\ [][Next]_vars
-----------------------------------------------------------------------------
(* Properties. *)

\* From the emergency stop to its reset no run of any task performs more than
\* the one action it was already about to perform.
StopIsHonoured == triggered => \A e \in Run : late[e] <= 1

Entries(t, e, i) ==
  {k \in DOMAIN audit[t] : audit[t][k].run = e /\ audit[t][k].step = i}

\* The audit log tells what was done: a task that says completed has a success
\* entry for every step, whatever ran beside it or failed before, and it can be
\* read unless a write to a log failed. Unless a task was run twice at a time
\* (both runs then append to the same entry) its entries are one chain, over
\* all its runs: a new one begins, with the empty hash, only behind a line that
\* cannot be decoded or when the log could not be read.
AuditTellsTheRuns ==
  \A t \in Task :
    /\ status[t] = "completed" =>
         \A i \in DOMAIN plan[t] :
           \E e \in Run : \E k \in Entries(t, e, i) :
             /\ audit[t][k].result = "success"
             /\ Readable(t, k) \/ faults < MaxFaults
    /\ t \notin overlapped =>
         \A k \in DOMAIN audit[t] : Readable(t, k) =>
           \/ audit[t][k].prev = Hash(t, k - 1)
           \/ audit[t][k].prev = 0 /\ t \in unread

\* A run that failed or was stopped has undone every reversible step of its
\* that succeeded, but for one whose audit entry could not be written.
FailedRunsAreUndone ==
  \A e \in Run :
    /\ run[e].at \in {"report", "ended"} /\ run[e].status # "completed"
    => \A i \in run[e].succeeded :
         StrategyOf(e, i) = "reversible" =>
           \/ i \in run[e].undone
           \/ faults < MaxFaults /\ i = run[e].step
=============================================================================
