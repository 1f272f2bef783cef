------------------------- MODULE ComputerUse_proofs -------------------------
(***************************************************************************)
(* Theorems about ComputerUse, for every set of tasks, runs, requests and  *)
(* plans and every number of stops and faults: an emergency stop stops     *)
(* every run after the action it was about to perform, a run that did not  *)
(* complete has undone what it could, and the audit log tells what was     *)
(* done.                                                                   *)
(***************************************************************************)
EXTENDS ComputerUse, TLAPS

Working == {"step", "dispatch", "perform", "log", "append", "undo", "report",
            "ended"}

\* What run[e] is: not yet asked for, asked for, or a run with its manager.
Started == [at : {"start"}, task : Task]
Managed ==
  [at : Working, task : Task, step : Nat, result : {None, "success", "failed"},
   succeeded : SUBSET Nat, recorded : Seq(Nat), undone : SUBSET Nat,
   prev : Nat, status : {"executing", "completed", "stopped", "failed"}]


RunsAreTyped ==
  /\ plan \in [Task -> Plans]
  /\ faults \in 0..MaxFaults
  /\ run \in [Run -> {Waiting} \cup Started \cup Managed]
  /\ audit \in [Task -> Seq(Write)]

ManagersAreRuns ==
  /\ DOMAIN manager = Task
  /\ \A t \in Task : manager[t] # None =>
       manager[t] \in Run /\ run[manager[t]].at \in Working

\* Every request that is under way names a task.
UndoingIsTyped ==
  undoing \in [Undoing -> {Waiting} \cup [at : {"asked"}, task : Task, to : Nat]
                 \cup [at : {"undone"}, task : Task] \cup [at : {"ended"}]]

TypeInv == RunsAreTyped /\ ManagersAreRuns /\ UndoingIsTyped

\* While the stop is in force a run that is still about to perform an action
\* has performed none since: it had looked at the switch before.
LateIsCounted ==
  /\ triggered \in BOOLEAN
  /\ late \in [Run -> Nat]
  /\ triggered => \A e \in Run :
       late[e] <= 1 /\ (run[e].at = "perform" => late[e] = 0)

\* A step that succeeded and can be undone is in the run's manager, or is the
\* current one on its way there; its entry may have failed to be written.
Recorded(e) == {run[e].recorded[j] : j \in DOMAIN run[e].recorded}
StepIsRecorded(e, i) ==
    /\ run[e].at \in Working /\ i \in run[e].succeeded
    /\ StrategyOf(e, i) = "reversible"
    => /\ run[e].at \in {"step", "dispatch", "perform"} => i \in Recorded(e)
       /\ run[e].at \in {"log", "append"} =>
            i \in Recorded(e) \/ (i = run[e].step /\ run[e].result = "success")
       /\ run[e].at = "undo" =>
            i \in Recorded(e) \/ (faults < MaxFaults /\ i = run[e].step)
       /\ run[e].at \in {"report", "ended"} /\ run[e].status # "completed" =>
            i \in run[e].undone \/ (faults < MaxFaults /\ i = run[e].step)
StepsAreRecorded == \A e \in Run : \A i \in Nat : StepIsRecorded(e, i)

\* The inductive invariant.
IInv == TypeInv /\ LateIsCounted /\ StepsAreRecorded
-----------------------------------------------------------------------------
LEMMA WorkingIsManaged ==
  ASSUME RunsAreTyped, NEW e \in Run, run[e].at \in Working
  PROVE  run[e] \in Managed
BY DEF RunsAreTyped, Working, Waiting, Started

LEMMA UndoneIsRecorded ==
  ASSUME RunsAreTyped, NEW e \in Run, run[e].at \in Working, NEW to \in Nat
  PROVE  Undone(e, to) \in SUBSET Nat
<1>1. run[e].recorded \in Seq(Nat) BY WorkingIsManaged DEF Managed
<1> QED BY <1>1 DEF Undone

\* A roll-back to the first step undoes every reversible step recorded.
LEMMA AllIsUndone ==
  ASSUME RunsAreTyped, NEW e \in Run, run[e].at \in Working,
         NEW i \in Recorded(e), StrategyOf(e, i) = "reversible"
  PROVE  i \in Undone(e, 0)
<1>1. run[e].recorded \in Seq(Nat) BY WorkingIsManaged DEF Managed
<1>2. PICK j \in DOMAIN run[e].recorded : i = run[e].recorded[j]
  BY DEF Recorded
<1>3. \A k \in j..Len(run[e].recorded) : run[e].recorded[k] >= 0
  BY <1>1, <1>2
<1> QED BY <1>2, <1>3 DEF Undone

\* A step of a run leads to a run with a manager.
RunStep(e) ==
  \/ NextStep(e) \/ Dispatch(e) \/ Perform(e) \/ ReadLastHash(e)
  \/ AppendEntry(e) \/ LogFails(e) \/ UndoRun(e) \/ Report(e)

\* Such a run goes on in one of these ways.
LEMMA RunStepTyped ==
  ASSUME TypeInv, NEW e \in Run, RunStep(e)
  PROVE  /\ run[e] \in Managed
         /\ \E m \in Managed : m.task = run[e].task /\ Goes(e, m)
         /\ faults' \in 0..MaxFaults /\ faults' <= faults
         /\ UNCHANGED <<plan, manager, undoing>>
<1> USE ComputerUseAssumption
<1>1. run[e].at \in Working
  BY DEF RunStep, NextStep, Dispatch, Perform, ReadLastHash, AppendEntry,
         LogFails, UndoRun, Report, Moves, Working
<1>2. run[e] \in Managed BY <1>1, WorkingIsManaged DEF TypeInv
<1>3. ASSUME NEW with \in {"completed", "stopped", "failed"}, Ends(e, with)
      PROVE  \E m \in Managed : m.task = run[e].task /\ Goes(e, m)
  BY <1>2, <1>3 DEF Ends, Managed, Working
<1>4. faults' \in 0..MaxFaults /\ faults' <= faults
      /\ UNCHANGED <<plan, manager, undoing>>
  BY DEF RunStep, NextStep, Dispatch, Perform, ReadLastHash, AppendEntry,
         LogFails, UndoRun, Report, TypeInv, RunsAreTyped, tasks
<1>5. CASE NextStep(e)
  BY <1>2, <1>3, <1>4, <1>5 DEF NextStep, Managed, Working
<1>6. CASE Dispatch(e)
  BY <1>2, <1>3, <1>4, <1>6 DEF Dispatch, Managed, Working
<1>7. CASE Perform(e)
  <2>1. run[e].succeeded \cup {run[e].step} \in SUBSET Nat
    BY <1>2 DEF Managed
  <2> QED BY <1>2, <1>4, <1>7, <2>1 DEF Perform, Managed, Working
<1>8. CASE ReadLastHash(e)
  <2>1. LastEntry(e) \in Nat
    BY <1>2 DEF TypeInv, RunsAreTyped, Managed, LastEntry, Hash
  <2>2. PICK prev \in Nat : Goes(e, [run[e] EXCEPT !.at = "append", !.prev = prev])
    BY <1>8, <2>1 DEF ReadLastHash
  <2> QED BY <1>2, <1>4, <2>2 DEF Managed, Working
<1>9. CASE AppendEntry(e)
  <2>1. Append(run[e].recorded, run[e].step) \in Seq(Nat)
    BY <1>2 DEF Managed
  <2>2. CASE run[e].result = "failed"
    <3> DEFINE m == [run[e] EXCEPT !.at = "undo", !.status = "failed"]
    <3>1. m \in Managed /\ m.task = run[e].task
      BY <1>2 DEF Managed, Working
    <3>2. Goes(e, m) BY <1>9, <2>2 DEF AppendEntry
    <3> QED BY <1>2, <1>4, <3>1, <3>2
  <2>3. CASE run[e].result # "failed"
    <3> DEFINE next == run[e].step + 1
               recorded == IF StrategyOf(e, run[e].step) = "none"
                           THEN run[e].recorded
                           ELSE Append(run[e].recorded, run[e].step)
               m == [run[e] EXCEPT !.prev = 0, !.at = "step", !.step = next,
                                   !.recorded = recorded]
    <3>1. Goes(e, m) BY <1>9, <2>3 DEF AppendEntry
    <3>2. next \in Nat /\ recorded \in Seq(Nat)
      BY <1>2, <2>1 DEF Managed
    <3> HIDE DEF next, recorded
    <3>3. m \in Managed /\ m.task = run[e].task
      BY <1>2, <3>2 DEF Managed, Working
    <3> QED BY <1>2, <1>4, <3>1, <3>3
  <2> QED BY <2>2, <2>3
<1>10. CASE LogFails(e) BY <1>2, <1>3, <1>4, <1>10 DEF LogFails
<1>11. CASE UndoRun(e)
  <2>1. run[e].undone \cup Undone(e, 0) \in SUBSET Nat
    BY <1>1, <1>2, UndoneIsRecorded DEF Managed, TypeInv
  <2> QED BY <1>2, <1>4, <1>11, <2>1 DEF UndoRun, Managed, Working
<1>12. CASE Report(e)
  BY <1>2, <1>4, <1>12 DEF Report, Moves, Managed, Working
<1> QED BY <1>5, <1>6, <1>7, <1>8, <1>9, <1>10, <1>11, <1>12 DEF RunStep
-----------------------------------------------------------------------------
(* The types. *)

\* A run that goes on to a run with a manager keeps what depends on run.
LEMMA GoesTyped ==
  ASSUME TypeInv, NEW e \in Run, NEW m \in Managed, Goes(e, m)
  PROVE  /\ run' \in [Run -> {Waiting} \cup Started \cup Managed]
         /\ \A t \in Task : manager[t] # None =>
              manager[t] \in Run /\ run'[manager[t]].at \in Working
<1>1. m.at \in Working BY DEF Managed
<1> QED BY <1>1 DEF TypeInv, RunsAreTyped, ManagersAreRuns, Goes

\* A step writes to the log of its task or to none.
LEMMA RunStepWrites ==
  ASSUME TypeInv, NEW e \in Run, RunStep(e)
  PROVE  \/ audit' = audit
         \/ \E result \in {None, "success", "failed"} : Writes(e, result)
<1>1. CASE AppendEntry(e)
  <2>1. run[e].result \in {None, "success", "failed"}
    BY RunStepTyped DEF Managed
  <2> QED BY <1>1, <2>1 DEF AppendEntry
<1>2. CASE LogFails(e) BY <1>2 DEF LogFails
<1>3. CASE ~ AppendEntry(e) /\ ~ LogFails(e)
  BY <1>3 DEF RunStep, NextStep, Dispatch, Perform, ReadLastHash, UndoRun, Report
<1> QED BY <1>1, <1>2, <1>3

LEMMA AuditTyped ==
  ASSUME TypeInv, NEW e \in Run, RunStep(e)
  PROVE  audit' \in [Task -> Seq(Write)]
<1>1. ASSUME NEW result \in {None, "success", "failed"}, Writes(e, result)
      PROVE  audit' \in [Task -> Seq(Write)]
  <2> DEFINE entry == [run |-> e, step |-> run[e].step,
                       result |-> result, prev |-> run[e].prev]
  <2>1. entry \in Write /\ run[e].task \in Task
    BY RunStepTyped DEF Managed, Write
  <2>2. audit' = [audit EXCEPT ![run[e].task] =
                    Append(audit[run[e].task], entry)]
    BY <1>1 DEF Writes
  <2> HIDE DEF entry
  <2> QED BY <2>1, <2>2 DEF TypeInv, RunsAreTyped
<1>2. CASE audit' = audit BY <1>2 DEF TypeInv, RunsAreTyped
<1> QED BY <1>1, <1>2, RunStepWrites

LEMMA AskedTyped ==
  ASSUME UndoingIsTyped, NEW u \in Undoing, RollbackTask(u)
  PROVE  undoing[u].task \in Task /\ undoing[u].to \in Nat
BY DEF UndoingIsTyped, RollbackTask, Waiting

\* What a roll-back on request does to the run whose manager the task has.
LEMMA RollbackTyped ==
  ASSUME TypeInv, NEW u \in Undoing, RollbackTask(u),
         manager[undoing[u].task] # None
  PROVE  LET e == manager[undoing[u].task]
             all == run[e].undone \cup Undone(e, undoing[u].to)
         IN /\ e \in Run /\ run[e] \in Managed
            /\ Goes(e, [run[e] EXCEPT !.undone = all])
            /\ all \in SUBSET Nat
            /\ [run[e] EXCEPT !.undone = all] \in Managed
<1> DEFINE e == manager[undoing[u].task]
           all == run[e].undone \cup Undone(e, undoing[u].to)
<1>1. undoing[u].task \in Task /\ undoing[u].to \in Nat
  BY AskedTyped DEF TypeInv
<1>2. e \in Run /\ run[e].at \in Working
  BY <1>1 DEF TypeInv, ManagersAreRuns
<1>3. run[e] \in Managed BY <1>2, WorkingIsManaged DEF TypeInv
<1>4. all \in SUBSET Nat
  BY <1>1, <1>2, <1>3, UndoneIsRecorded DEF TypeInv, Managed
<1>5. Goes(e, [run[e] EXCEPT !.undone = all]) BY DEF RollbackTask
<1> HIDE DEF all
<1>6. [run[e] EXCEPT !.undone = all] \in Managed BY <1>3, <1>4 DEF Managed
<1> QED BY <1>2, <1>3, <1>4, <1>5, <1>6 DEF all

LEMMA NextTypeInv ==
  ASSUME TypeInv, [Next]_vars
  PROVE  TypeInv'
<1> USE ComputerUseAssumption DEF TypeInv, RunsAreTyped, ManagersAreRuns,
        UndoingIsTyped
<1>1. ASSUME NEW t \in Task, CreateTask(t) \/ Expire(t) PROVE TypeInv'
  BY <1>1 DEF CreateTask, Expire
<1>2. ASSUME NEW t \in Task, NEW e \in Run, ExecuteTask(e, t) PROVE TypeInv'
  <2>1. run[e].at \notin Working BY <1>2 DEF ExecuteTask, Working
  <2>2. [at |-> "start", task |-> t] \in Started BY DEF Started
  <2> QED BY <1>2, <2>1, <2>2 DEF ExecuteTask, Goes
<1>3. ASSUME NEW t \in Task, NEW u \in Undoing, AskRollback(u, t)
      PROVE  TypeInv'
  <2>1. PICK to \in 0..Len(plan[t]) :
          undoing' = [undoing EXCEPT ![u] =
                        [at |-> "asked", task |-> t, to |-> to]]
    BY <1>3 DEF AskRollback
  <2>2. [at |-> "asked", task |-> t, to |-> to]
          \in [at : {"asked"}, task : Task, to : Nat]
    OBVIOUS
  <2> QED BY <1>3, <2>1, <2>2 DEF AskRollback, tasks
<1>4. CASE Trigger \/ Reset BY <1>4 DEF Trigger, Reset, tasks
<1>5. ASSUME NEW e \in Run, RunTask(e) PROVE TypeInv'
  <2> DEFINE m == [at |-> "step", task |-> run[e].task, step |-> 1,
                   result |-> None, succeeded |-> {}, recorded |-> <<>>,
                   undone |-> {}, prev |-> 0, status |-> "executing"]
  <2>1. run[e].task \in Task
    BY <1>5 DEF RunTask, Waiting, Started, Managed, Working
  <2>2. m \in Managed BY <2>1 DEF Managed, Working
  <2>3. Goes(e, m) /\ manager' = [manager EXCEPT ![run[e].task] = e]
        /\ UNCHANGED <<plan, faults, undoing, audit>>
    BY <1>5 DEF RunTask
  <2>4. run'[e].at \in Working BY <2>3 DEF Goes, Working
  <2> HIDE DEF m
  <2> QED BY <2>2, <2>3, <2>4, GoesTyped
<1>6. ASSUME NEW e \in Run, RunStep(e) PROVE TypeInv'
  <2>1. PICK m \in Managed : Goes(e, m) BY <1>6, RunStepTyped
  <2> QED BY <1>6, <2>1, RunStepTyped, GoesTyped, AuditTyped
<1>7. ASSUME NEW u \in Undoing, RollbackTask(u) PROVE TypeInv'
  <2>1. undoing[u].task \in Task BY <1>7, AskedTyped
  <2>2. undoing' \in [Undoing ->
          {Waiting} \cup [at : {"asked"}, task : Task, to : Nat]
            \cup [at : {"undone"}, task : Task] \cup [at : {"ended"}]]
    BY <1>7, <2>1 DEF RollbackTask
  <2>3. UNCHANGED <<plan, manager, audit, faults>>
    BY <1>7 DEF RollbackTask, tasks
  <2>4. CASE manager[undoing[u].task] = None
    BY <1>7, <2>2, <2>3, <2>4 DEF RollbackTask
  <2>5. CASE manager[undoing[u].task] # None
    <3>1. \E e \in Run : \E m \in Managed : Goes(e, m)
      BY <1>7, <2>5, RollbackTyped
    <3> QED BY <2>2, <2>3, <3>1, GoesTyped
  <2> QED BY <2>4, <2>5
<1>8. ASSUME NEW u \in Undoing, RollbackEnds(u) PROVE TypeInv'
  BY <1>8 DEF RollbackEnds
<1>9. CASE UNCHANGED vars BY <1>9 DEF vars, switch, tasks
<1> QED
  BY <1>1, <1>2, <1>3, <1>4, <1>5, <1>6, <1>7, <1>8, <1>9 DEF Next, RunStep
-----------------------------------------------------------------------------
(* The emergency stop. *)

LEMMA NextLateIsCounted ==
  ASSUME TypeInv, LateIsCounted, [Next]_vars
  PROVE  LateIsCounted'
<1>1. CASE Trigger BY <1>1 DEF Trigger, LateIsCounted
<1>2. CASE Reset BY <1>2 DEF Reset, LateIsCounted, ghosts
<1>3. ASSUME NEW e \in Run, Perform(e) PROVE LateIsCounted'
  <2>1. /\ run'[e].at = "log" /\ run[e].at = "perform"
        /\ \A f \in Run \ {e} : run'[f] = run[f]
    BY <1>3, WorkingIsManaged
       DEF Perform, Goes, TypeInv, RunsAreTyped, Managed, Working
  <2>2. /\ UNCHANGED triggered
        /\ late' = [late EXCEPT ![e] = IF triggered THEN late[e] + 1
                                       ELSE late[e]]
    BY <1>3 DEF Perform, switch
  <2> QED BY <2>1, <2>2 DEF LateIsCounted
<1>4. ASSUME UNCHANGED <<triggered, late>>,
             triggered => \A e \in Run :
               run'[e].at = "perform" => run[e].at = "perform"
      PROVE  LateIsCounted'
  BY <1>4 DEF LateIsCounted
<1>5. ASSUME NEW t \in Task,
             CreateTask(t) \/ Expire(t)
               \/ (\E e \in Run : ExecuteTask(e, t))
               \/ (\E u \in Undoing : AskRollback(u, t))
      PROVE  LateIsCounted'
  <2>1. UNCHANGED <<triggered, late>>
    BY <1>5 DEF CreateTask, Expire, ExecuteTask, AskRollback, switch, ghosts
  <2>2. \A e \in Run : run'[e].at = "perform" => run[e].at = "perform"
    <3>1. CASE run' = run BY <3>1
    <3>2. ASSUME NEW e \in Run, ExecuteTask(e, t)
          PROVE  \A f \in Run : run'[f].at = "perform" => run[f].at = "perform"
      BY <3>2 DEF ExecuteTask, Goes, TypeInv, RunsAreTyped
    <3> QED BY <1>5, <3>1, <3>2 DEF CreateTask, Expire, AskRollback
  <2> QED BY <1>4, <2>1, <2>2
<1>6. ASSUME NEW e \in Run,
             RunTask(e) \/ NextStep(e) \/ Dispatch(e) \/ ReadLastHash(e)
               \/ AppendEntry(e) \/ LogFails(e) \/ UndoRun(e) \/ Report(e)
      PROVE  LateIsCounted'
  <2>1. UNCHANGED <<triggered, late>>
    BY <1>6 DEF RunTask, NextStep, Dispatch, ReadLastHash, AppendEntry,
                LogFails, UndoRun, Report, switch, ghosts
  <2>2. \A f \in Run \ {e} : run'[f] = run[f]
    BY <1>6 DEF RunTask, NextStep, Dispatch, ReadLastHash, AppendEntry,
                LogFails, UndoRun, Report, Moves, Goes, Ends, TypeInv,
                RunsAreTyped
  <2>3. ASSUME triggered PROVE run'[e].at # "perform"
    <3>1. RunStep(e) => run[e] \in Managed BY RunStepTyped
    <3> USE DEF TypeInv, RunsAreTyped, Goes, Managed
    <3>2. CASE RunTask(e) BY <3>2 DEF RunTask
    <3>3. CASE NextStep(e)
      BY <2>3, <3>1, <3>3 DEF NextStep, Ends, Triggered, RunStep
    <3>4. CASE Dispatch(e)
      BY <2>3, <3>1, <3>4 DEF Dispatch, Ends, Triggered, RunStep
    <3>5. CASE ReadLastHash(e)
      <4>1. PICK prev : Goes(e, [run[e] EXCEPT !.at = "append", !.prev = prev])
        BY <3>5 DEF ReadLastHash
      <4> QED BY <3>1, <3>5, <4>1 DEF RunStep
    <3>6. CASE AppendEntry(e) BY <3>1, <3>6 DEF AppendEntry, RunStep
    <3>7. CASE LogFails(e) BY <3>1, <3>7 DEF LogFails, Ends, RunStep
    <3>8. CASE UndoRun(e) BY <3>1, <3>8 DEF UndoRun, RunStep
    <3>9. CASE Report(e) BY <3>1, <3>9 DEF Report, Moves, RunStep
    <3> QED BY <1>6, <3>2, <3>3, <3>4, <3>5, <3>6, <3>7, <3>8, <3>9
  <2> QED BY <1>4, <2>1, <2>2, <2>3
<1>7. ASSUME NEW u \in Undoing, RollbackTask(u) PROVE LateIsCounted'
  <2>1. UNCHANGED <<triggered, late>>
    BY <1>7 DEF RollbackTask, switch, ghosts
  <2>2. CASE manager[undoing[u].task] = None
    <3>1. run' = run BY <1>7, <2>2 DEF RollbackTask
    <3> QED BY <1>4, <2>1, <3>1
  <2>3. CASE manager[undoing[u].task] # None
    <3> DEFINE e == manager[undoing[u].task]
               all == run[e].undone \cup Undone(e, undoing[u].to)
    <3>1. e \in Run /\ run[e] \in Managed
          /\ Goes(e, [run[e] EXCEPT !.undone = all])
      BY <1>7, <2>3, RollbackTyped
    <3> HIDE DEF e, all
    <3>2. \A f \in Run : run'[f].at = run[f].at
      BY <3>1 DEF Goes, TypeInv, RunsAreTyped, Managed
    <3> QED BY <1>4, <2>1, <3>2
  <2> QED BY <2>2, <2>3
<1>8. ASSUME NEW u \in Undoing, RollbackEnds(u) PROVE LateIsCounted'
  BY <1>4, <1>8 DEF RollbackEnds, switch, ghosts
<1>9. CASE UNCHANGED vars BY <1>4, <1>9 DEF vars, switch, ghosts
<1> QED
  BY <1>1, <1>2, <1>3, <1>5, <1>6, <1>7, <1>8, <1>9 DEF Next
-----------------------------------------------------------------------------
(* The roll-back of a run that did not complete. *)

\* A run that does not move keeps what is said of its steps.
LEMMA OthersAreKept ==
  ASSUME TypeInv, NEW e \in Run, run'[e] = run[e], UNCHANGED plan,
         faults' \in Nat, faults' <= faults,
         NEW i \in Nat, StepIsRecorded(e, i)
  PROVE  StepIsRecorded(e, i)'
<1>1. faults < MaxFaults => faults' < MaxFaults
  BY ComputerUseAssumption DEF TypeInv, RunsAreTyped
<1>2. Recorded(e)' = Recorded(e) BY DEF Recorded
<1>3. StrategyOf(e, i)' = StrategyOf(e, i) BY DEF StrategyOf
<1> QED BY <1>1, <1>2, <1>3 DEF StepIsRecorded

\* One that only undoes more keeps it too.
LEMMA UndoingMoreIsKept ==
  ASSUME TypeInv, NEW e \in Run, run[e] \in Managed, NEW all \in SUBSET Nat,
         run[e].undone \subseteq all, run'[e] = [run[e] EXCEPT !.undone = all],
         UNCHANGED <<plan, faults>>,
         NEW i \in Nat, StepIsRecorded(e, i)
  PROVE  StepIsRecorded(e, i)'
<1>1. Recorded(e)' = Recorded(e) BY DEF Recorded, Managed
<1>2. StrategyOf(e, i)' = StrategyOf(e, i) BY DEF StrategyOf, Managed
<1> QED BY <1>1, <1>2 DEF StepIsRecorded, Managed

\* Ending with a status other than completed leads to "undo".
LEMMA EndsIsKept ==
  ASSUME TypeInv, NEW e \in Run, run[e] \in Managed,
         NEW with \in {"completed", "stopped", "failed"}, Ends(e, with),
         UNCHANGED plan,
         NEW i \in Nat, StepIsRecorded(e, i),
         \/ run[e].at \in {"step", "dispatch"}
         \/ run[e].at \in {"log", "append"} /\ faults' < MaxFaults
  PROVE  StepIsRecorded(e, i)'
<1>1. /\ run'[e].succeeded = run[e].succeeded /\ run'[e].step = run[e].step
      /\ run'[e].recorded = run[e].recorded /\ run'[e].task = run[e].task
      /\ run'[e].at = IF with = "completed" THEN "report" ELSE "undo"
      /\ run'[e].status = with
  BY DEF Ends, Goes, TypeInv, RunsAreTyped, Managed
<1>2. Recorded(e)' = Recorded(e) BY <1>1 DEF Recorded
<1>3. StrategyOf(e, i)' = StrategyOf(e, i) BY <1>1 DEF StrategyOf
<1>4. run[e].at \in Working BY DEF Managed
<1> QED BY <1>1, <1>2, <1>3, <1>4 DEF StepIsRecorded

LEMMA RunStepIsKept ==
  ASSUME TypeInv, NEW e \in Run, RunStep(e), NEW i \in Nat, StepIsRecorded(e, i)
  PROVE  StepIsRecorded(e, i)'
<1>1. /\ run[e] \in Managed /\ UNCHANGED plan
      /\ run[e].at \in Working
  BY RunStepTyped DEF Managed
<1>2. StrategyOf(e, i)' = StrategyOf(e, i)
  <2>1. PICK m \in Managed : m.task = run[e].task /\ Goes(e, m)
    BY RunStepTyped
  <2> QED BY <1>1, <2>1 DEF StrategyOf, Goes, TypeInv, RunsAreTyped
<1>3. CASE NextStep(e)
  <2>1. run[e].at = "step" BY <1>3 DEF NextStep
  <2>2. CASE Ends(e, "completed") \/ Ends(e, "stopped")
    BY <1>1, <2>1, <2>2, EndsIsKept
  <2>3. CASE Goes(e, [run[e] EXCEPT !.at = "dispatch"])
    <3>1. run'[e] = [run[e] EXCEPT !.at = "dispatch"]
      BY <2>3 DEF Goes, TypeInv, RunsAreTyped
    <3> QED BY <1>1, <1>2, <2>1, <3>1 DEF StepIsRecorded, Recorded, Managed
  <2> QED BY <1>3, <2>2, <2>3 DEF NextStep
<1>4. CASE Dispatch(e)
  <2>1. run[e].at = "dispatch" BY <1>4 DEF Dispatch
  <2>2. CASE Ends(e, "stopped") BY <1>1, <2>1, <2>2, EndsIsKept
  <2>3. CASE Goes(e, [run[e] EXCEPT !.at = "perform"])
    <3>1. run'[e] = [run[e] EXCEPT !.at = "perform"]
      BY <2>3 DEF Goes, TypeInv, RunsAreTyped
    <3> QED BY <1>1, <1>2, <2>1, <3>1 DEF StepIsRecorded, Recorded, Managed
  <2> QED BY <1>4, <2>2, <2>3 DEF Dispatch
<1>5. CASE Perform(e)
  <2>1. PICK result \in {"success", "failed"} :
          run'[e] = [run[e] EXCEPT !.at = "log", !.result = result,
                       !.succeeded = IF result = "success"
                                     THEN @ \cup {run[e].step} ELSE @]
    BY <1>5 DEF Perform, Goes, TypeInv, RunsAreTyped
  <2>2. /\ run'[e].at = "log" /\ run'[e].result = result
        /\ run'[e].recorded = run[e].recorded /\ run'[e].step = run[e].step
        /\ run'[e].succeeded = IF result = "success"
                               THEN run[e].succeeded \cup {run[e].step}
                               ELSE run[e].succeeded
    BY <1>1, <2>1 DEF Managed
  <2>3. Recorded(e)' = Recorded(e) BY <2>2 DEF Recorded
  <2>4. run[e].at = "perform" BY <1>5 DEF Perform
  <2> QED BY <1>1, <1>2, <2>2, <2>3, <2>4 DEF StepIsRecorded
<1>6. CASE ReadLastHash(e)
  <2>1. PICK prev :
          run'[e] = [run[e] EXCEPT !.at = "append", !.prev = prev]
    BY <1>6 DEF ReadLastHash, Goes, TypeInv, RunsAreTyped
  <2>2. /\ run'[e].at = "append" /\ run'[e].result = run[e].result
        /\ run'[e].recorded = run[e].recorded /\ run'[e].step = run[e].step
        /\ run'[e].succeeded = run[e].succeeded
    BY <1>1, <2>1 DEF Managed
  <2>3. Recorded(e)' = Recorded(e) BY <2>2 DEF Recorded
  <2>4. run[e].at = "log" BY <1>6 DEF ReadLastHash
  <2> QED BY <1>1, <1>2, <2>2, <2>3, <2>4 DEF StepIsRecorded
<1>7. CASE AppendEntry(e)
  <2>1. run[e].at = "append" BY <1>7 DEF AppendEntry
  <2>2. CASE run[e].result = "failed"
    <3>1. run'[e] = [run[e] EXCEPT !.at = "undo", !.status = "failed"]
      BY <1>7, <2>2 DEF AppendEntry, Goes, TypeInv, RunsAreTyped
    <3>2. /\ run'[e].at = "undo" /\ run'[e].recorded = run[e].recorded
          /\ run'[e].succeeded = run[e].succeeded
      BY <1>1, <3>1 DEF Managed
    <3>3. Recorded(e)' = Recorded(e) BY <3>2 DEF Recorded
    <3> QED BY <1>1, <1>2, <2>1, <2>2, <3>2, <3>3 DEF StepIsRecorded
  <2>3. CASE run[e].result # "failed"
    <3> DEFINE recorded == IF StrategyOf(e, run[e].step) = "none"
                           THEN run[e].recorded
                           ELSE Append(run[e].recorded, run[e].step)
    <3>1. run'[e] = [run[e] EXCEPT !.prev = 0, !.at = "step",
                       !.step = run[e].step + 1, !.recorded = recorded]
      BY <1>7, <2>3 DEF AppendEntry, Goes, TypeInv, RunsAreTyped
    <3>2. /\ run'[e].at = "step" /\ run'[e].recorded = recorded
          /\ run'[e].succeeded = run[e].succeeded
      BY <1>1, <3>1 DEF Managed
    <3>3. Recorded(e) \subseteq Recorded(e)'
      <4>1. run[e].recorded \in Seq(Nat) /\ run[e].step \in Nat
        BY <1>1 DEF Managed
      <4>2. \A j \in DOMAIN run[e].recorded :
              j \in DOMAIN recorded /\ recorded[j] = run[e].recorded[j]
        BY <4>1
      <4> HIDE DEF recorded
      <4> QED BY <3>2, <4>2 DEF Recorded
    <3>4. ASSUME i = run[e].step, StrategyOf(e, i) = "reversible"
          PROVE  i \in Recorded(e)'
      <4>1. run[e].recorded \in Seq(Nat) /\ run[e].step \in Nat
        BY <1>1 DEF Managed
      <4>2. run'[e].recorded = Append(run[e].recorded, i) BY <3>2, <3>4
      <4>3. /\ Len(run[e].recorded) + 1 \in DOMAIN run'[e].recorded
            /\ run'[e].recorded[Len(run[e].recorded) + 1] = i
        BY <3>4, <4>1, <4>2
      <4> QED BY <4>3 DEF Recorded
    <3> HIDE DEF recorded
    <3> QED BY <1>1, <1>2, <2>1, <3>2, <3>3, <3>4 DEF StepIsRecorded
  <2> QED BY <2>2, <2>3
<1>8. CASE LogFails(e)
  <2>1. faults' < MaxFaults
    BY <1>8, ComputerUseAssumption DEF LogFails, TypeInv, RunsAreTyped
  <2> QED BY <1>1, <1>8, <2>1, EndsIsKept DEF LogFails
<1>9. CASE UndoRun(e)
  <2>1. /\ run[e].at = "undo" /\ UNCHANGED faults
        /\ run'[e] = [run[e] EXCEPT !.at = "report",
                        !.undone = run[e].undone \cup Undone(e, 0)]
    BY <1>9 DEF UndoRun, Goes, TypeInv, RunsAreTyped
  <2>2. /\ run'[e].at = "report" /\ run'[e].step = run[e].step
        /\ run'[e].succeeded = run[e].succeeded
        /\ run'[e].undone = run[e].undone \cup Undone(e, 0)
    BY <1>1, <2>1 DEF Managed
  <2>3. i \in Recorded(e) /\ StrategyOf(e, i) = "reversible"
          => i \in Undone(e, 0)
    BY <1>1, AllIsUndone DEF TypeInv
  <2> QED BY <1>1, <1>2, <2>1, <2>2, <2>3 DEF StepIsRecorded
<1>10. CASE Report(e)
  <2>1. /\ run[e].at = "report" /\ UNCHANGED faults
        /\ run'[e] = [run[e] EXCEPT !.at = "ended"]
    BY <1>10 DEF Report, Moves, Goes, TypeInv, RunsAreTyped
  <2>2. /\ run'[e].at = "ended" /\ run'[e].step = run[e].step
        /\ run'[e].succeeded = run[e].succeeded
        /\ run'[e].undone = run[e].undone /\ run'[e].status = run[e].status
    BY <1>1, <2>1 DEF Managed
  <2> QED BY <1>1, <1>2, <2>1, <2>2 DEF StepIsRecorded
<1> QED
  BY <1>3, <1>4, <1>5, <1>6, <1>7, <1>8, <1>9, <1>10 DEF RunStep

LEMMA NextStepsAreRecorded ==
  ASSUME TypeInv, StepsAreRecorded, [Next]_vars
  PROVE  StepsAreRecorded'
<1> SUFFICES ASSUME NEW f \in Run, NEW i \in Nat, StepIsRecorded(f, i)
             PROVE  StepIsRecorded(f, i)'
  BY DEF StepsAreRecorded
<1>1. faults \in Nat BY ComputerUseAssumption DEF TypeInv, RunsAreTyped
<1>2. ASSUME run'[f] = run[f], UNCHANGED <<plan, faults>>
      PROVE  StepIsRecorded(f, i)'
  BY <1>1, <1>2, OthersAreKept
<1>3. ASSUME NEW t \in Task, CreateTask(t) \/ Expire(t)
                               \/ (\E u \in Undoing : AskRollback(u, t))
      PROVE  StepIsRecorded(f, i)'
  BY <1>2, <1>3 DEF CreateTask, Expire, AskRollback, tasks
<1>4. ASSUME NEW t \in Task, NEW e \in Run, ExecuteTask(e, t)
      PROVE  StepIsRecorded(f, i)'
  <2>1. CASE e # f
    BY <1>2, <1>4, <2>1 DEF ExecuteTask, Goes, TypeInv, RunsAreTyped
  <2>2. CASE e = f
    <3>1. run'[f].at = "start"
      BY <1>4, <2>2 DEF ExecuteTask, Goes, TypeInv, RunsAreTyped
    <3> QED BY <3>1 DEF StepIsRecorded, Working
  <2> QED BY <2>1, <2>2
<1>5. CASE Trigger \/ Reset BY <1>2, <1>5 DEF Trigger, Reset, tasks
<1>6. ASSUME NEW e \in Run, RunTask(e) PROVE StepIsRecorded(f, i)'
  <2>1. CASE e # f
    BY <1>2, <1>6, <2>1 DEF RunTask, Goes, TypeInv, RunsAreTyped
  <2>2. CASE e = f
    <3>1. run'[f].succeeded = {}
      BY <1>6, <2>2 DEF RunTask, Goes, TypeInv, RunsAreTyped
    <3> QED BY <3>1 DEF StepIsRecorded
  <2> QED BY <2>1, <2>2
<1>7. ASSUME NEW e \in Run, RunStep(e) PROVE StepIsRecorded(f, i)'
  <2>1. CASE e = f BY <1>7, <2>1, RunStepIsKept
  <2>2. CASE e # f
    <3>1. run'[f] = run[f]
      BY <1>7, <2>2, RunStepTyped DEF Goes, TypeInv, RunsAreTyped
    <3>2. faults' \in Nat /\ faults' <= faults /\ UNCHANGED plan
      BY <1>7, RunStepTyped, ComputerUseAssumption
    <3> QED BY <3>1, <3>2, OthersAreKept
  <2> QED BY <2>1, <2>2
<1>8. ASSUME NEW u \in Undoing, RollbackTask(u) PROVE StepIsRecorded(f, i)'
  <2>1. UNCHANGED <<plan, faults>> BY <1>8 DEF RollbackTask, tasks
  <2>2. CASE manager[undoing[u].task] = None
    BY <1>2, <1>8, <2>1, <2>2 DEF RollbackTask
  <2>3. CASE manager[undoing[u].task] # None
    <3> DEFINE e == manager[undoing[u].task]
               all == run[e].undone \cup Undone(e, undoing[u].to)
    <3>1. e \in Run /\ run[e] \in Managed /\ all \in SUBSET Nat
          /\ Goes(e, [run[e] EXCEPT !.undone = all])
      BY <1>8, <2>3, RollbackTyped
    <3>2. run[e].undone \subseteq all OBVIOUS
    <3> HIDE DEF e, all
    <3>3. CASE e # f
      BY <1>2, <2>1, <3>1, <3>3 DEF Goes, TypeInv, RunsAreTyped
    <3>4. CASE e = f
      <4>1. run'[f] = [run[f] EXCEPT !.undone = all]
        BY <3>1, <3>4 DEF Goes, TypeInv, RunsAreTyped
      <4> QED BY <2>1, <3>1, <3>2, <3>4, <4>1, UndoingMoreIsKept
    <3> QED BY <3>3, <3>4
  <2> QED BY <2>2, <2>3
<1>9. ASSUME NEW u \in Undoing, RollbackEnds(u) PROVE StepIsRecorded(f, i)'
  BY <1>2, <1>9 DEF RollbackEnds
<1>10. CASE UNCHANGED vars BY <1>2, <1>10 DEF vars, tasks
<1> QED
  BY <1>3, <1>4, <1>5, <1>6, <1>7, <1>8, <1>9, <1>10 DEF Next, RunStep
-----------------------------------------------------------------------------
LEMMA InitIInv == ASSUME Init PROVE IInv
<1>1. TypeInv
  <2>1. Waiting.at = "waiting" /\ "waiting" \notin Working
    BY DEF Waiting, Working
  <2> QED
    BY <2>1, ComputerUseAssumption
       DEF Init, TypeInv, RunsAreTyped, ManagersAreRuns, UndoingIsTyped
<1>2. LateIsCounted BY DEF Init, LateIsCounted
<1>3. StepsAreRecorded
  BY DEF Init, StepsAreRecorded, StepIsRecorded, Waiting, Working
<1> QED BY <1>1, <1>2, <1>3 DEF IInv

LEMMA AlwaysIInv == Spec => []IInv
<1>1. IInv /\ [Next]_vars => IInv'
  BY NextTypeInv, NextLateIsCounted, NextStepsAreRecorded DEF IInv
<1> QED BY <1>1, InitIInv, PTL DEF Spec

\* From the emergency stop to its reset no run performs more than the action
\* it was about to perform (EmergencyStop.check at the head of run_task's loop
\* and in _dispatch_action), however many tasks run, are stopped and rolled back.
THEOREM StopsAreHonoured == Spec => []StopIsHonoured
<1>1. IInv => StopIsHonoured BY DEF IInv, LateIsCounted, StopIsHonoured
<1> QED BY <1>1, AlwaysIInv, PTL

\* A run that failed or was stopped has undone each reversible step of its that
\* succeeded (run_task's call of rollback_task_sync), whatever roll-backs on
\* request came in between, but for one whose audit entry was not written.
THEOREM FailedRunsAreAlwaysUndone == Spec => []FailedRunsAreUndone
<1>1. ASSUME IInv PROVE FailedRunsAreUndone
  <2> SUFFICES ASSUME NEW e \in Run,
                      run[e].at \in {"report", "ended"},
                      run[e].status # "completed",
                      NEW i \in run[e].succeeded,
                      StrategyOf(e, i) = "reversible"
               PROVE  \/ i \in run[e].undone
                      \/ faults < MaxFaults /\ i = run[e].step
    BY DEF FailedRunsAreUndone
  <2>1. run[e].at \in Working BY DEF Working
  <2>2. i \in Nat
    BY <1>1, <2>1, WorkingIsManaged DEF IInv, TypeInv, Managed
  <2> QED BY <1>1, <2>1, <2>2 DEF IInv, StepsAreRecorded, StepIsRecorded
<1> QED BY <1>1, AlwaysIInv, PTL
-----------------------------------------------------------------------------
(* The audit log. *)

\* Whether a task's log has a success entry for a step.
Succeeded(t, i) ==
  \E e \in Run : \E k \in Entries(t, e, i) : audit[t][k].result = "success"

\* A run has passed only steps whose success is in the log, and completed when
\* it has passed all of them.
RunTells(e) ==
  run[e].at \in Working =>
    /\ \A i \in 1..run[e].step - 1 : Succeeded(run[e].task, i)
    /\ run[e].at \in {"log", "append"} => run[e].result \in {"success", "failed"}
    /\ run[e].status = "completed" =>
         /\ run[e].at \in {"report", "ended"}
         /\ run[e].step > Len(plan[run[e].task])

StatusTells(t) ==
  status[t] = "completed" => \A i \in DOMAIN plan[t] : Succeeded(t, i)

\* Where no two runs of a task overlapped, one at most is under way, and what it
\* has read is the end of the chain still, if it could be read.
RunsOf(t) == {e \in Run : Running(e) /\ run[e].task = t}
Links(t, prev, last) == prev = Hash(t, last) \/ (prev = 0 /\ t \in unread)
OneChain(t) ==
  t \notin overlapped =>
    /\ \A e, f \in RunsOf(t) : e = f
    /\ \A k \in DOMAIN audit[t] :
         Readable(t, k) => Links(t, audit[t][k].prev, k - 1)
    /\ \A e \in RunsOf(t) :
         run[e].at = "append" => Links(t, run[e].prev, Len(audit[t]))

\* Only a failed write leaves half a line.
HalvesAreFaults ==
  \A t \in Task : \A k \in DOMAIN audit[t] :
    audit[t][k].result = None => faults < MaxFaults

\* The inductive invariant, on top of IInv.
AuditInv ==
  /\ \A e \in Run : RunTells(e)
  /\ \A t \in Task : StatusTells(t) /\ OneChain(t)
  /\ HalvesAreFaults

\* Logs are only appended to.
LEMMA LogsGrow ==
  ASSUME TypeInv, NEW e \in Run, RunStep(e), NEW t \in Task
  PROVE  /\ Len(audit[t]) \in Nat /\ DOMAIN audit[t] = 1..Len(audit[t])
         /\ DOMAIN audit[t] \subseteq DOMAIN audit'[t]
         /\ \A k \in DOMAIN audit[t] : audit'[t][k] = audit[t][k]
<1>1. audit[t] \in Seq(Write) BY DEF TypeInv, RunsAreTyped
<1>2. ASSUME NEW result, Writes(e, result)
      PROVE  \E entry : audit'[t] = audit[t] \/ audit'[t] = Append(audit[t], entry)
  BY <1>2 DEF Writes, TypeInv, RunsAreTyped
<1>3. \E entry : audit'[t] = audit[t] \/ audit'[t] = Append(audit[t], entry)
  BY <1>2, RunStepWrites
<1> QED BY <1>1, <1>3

\* What could be read of a log can be read of it still, and nothing more.
LEMMA HashIsKept ==
  ASSUME TypeInv, NEW e \in Run, RunStep(e), NEW t \in Task,
         NEW k \in 0..Len(audit[t])
  PROVE  Readable(t, k)' = Readable(t, k) /\ Hash(t, k)' = Hash(t, k)
<1>1. /\ Len(audit[t]) \in Nat /\ DOMAIN audit[t] = 1..Len(audit[t])
      /\ DOMAIN audit[t] \subseteq DOMAIN audit'[t]
      /\ \A j \in DOMAIN audit[t] : audit'[t][j] = audit[t][j]
  BY LogsGrow
<1>2. CASE k = 0
  <2>1. audit'[t] \in Seq(Write) BY AuditTyped
  <2>2. 0 \notin DOMAIN audit[t] /\ 0 \notin DOMAIN audit'[t] BY <1>1, <2>1
  <2> QED BY <1>2, <2>2 DEF Readable, Hash
<1>3. CASE k # 0
  <2>1. k \in DOMAIN audit[t] /\ (k > 1 => k - 1 \in DOMAIN audit[t])
    BY <1>1, <1>3
  <2>2. Readable(t, k)' = Readable(t, k) BY <1>1, <2>1 DEF Readable
  <2> QED BY <2>2 DEF Hash
<1> QED BY <1>2, <1>3

LEMMA SuccessIsKept ==
  ASSUME TypeInv, NEW e \in Run, RunStep(e), NEW t \in Task, NEW i,
         Succeeded(t, i)
  PROVE  Succeeded(t, i)'
BY LogsGrow DEF Succeeded, Entries

\* What a run appends.
LEMMA AppendedEntry ==
  ASSUME TypeInv, NEW e \in Run, RunStep(e), NEW result, Writes(e, result)
  PROVE  LET t == run[e].task IN
         /\ t \in Task
         /\ Len(audit[t]) \in Nat /\ DOMAIN audit'[t] = 1..(Len(audit[t]) + 1)
         /\ Len(audit'[t]) = Len(audit[t]) + 1
         /\ audit'[t][Len(audit[t]) + 1] =
              [run |-> e, step |-> run[e].step, result |-> result,
               prev |-> run[e].prev]
         /\ \A s \in Task \ {t} : audit'[s] = audit[s]
<1> DEFINE entry == [run |-> e, step |-> run[e].step,
                     result |-> result, prev |-> run[e].prev]
<1>1. audit' = [audit EXCEPT ![run[e].task] = Append(audit[run[e].task], entry)]
  BY DEF Writes
<1>2. run[e].task \in Task BY RunStepTyped DEF Managed
<1>3. audit[run[e].task] \in Seq(Write) BY <1>2 DEF TypeInv, RunsAreTyped
<1> HIDE DEF entry
<1>4. /\ audit'[run[e].task] = Append(audit[run[e].task], entry)
      /\ \A s \in Task \ {run[e].task} : audit'[s] = audit[s]
  BY <1>1, <1>2 DEF TypeInv, RunsAreTyped
<1>5. audit'[run[e].task][Len(audit[run[e].task]) + 1] = entry
  BY <1>3, <1>4
<1>6. /\ Len(audit[run[e].task]) \in Nat
      /\ DOMAIN audit'[run[e].task] = 1..(Len(audit[run[e].task]) + 1)
      /\ Len(audit'[run[e].task]) = Len(audit[run[e].task]) + 1
  BY <1>3, <1>4
<1> QED BY <1>2, <1>4, <1>5, <1>6 DEF entry

\* A run passes a step once its success is in the log.
LEMMA RunStepTells ==
  ASSUME TypeInv, NEW e \in Run, RunStep(e), RunTells(e)
  PROVE  RunTells(e)'
<1>1. /\ run[e] \in Managed /\ UNCHANGED plan /\ run[e].at \in Working
  BY RunStepTyped DEF Managed
<1>2. run[e].task \in Task /\ run[e].step \in Nat BY <1>1 DEF Managed
<1> PICK t \in Task : t = run[e].task BY <1>2
<1>3. \A i \in 1..run[e].step - 1 : Succeeded(t, i)'
  BY <1>1, SuccessIsKept DEF RunTells
<1>4. ASSUME run'[e].task = run[e].task, run'[e].step = run[e].step,
             run'[e].at \in {"log", "append"} =>
               run'[e].result \in {"success", "failed"},
             run'[e].status = "completed" =>
               /\ run'[e].at \in {"report", "ended"}
               /\ run[e].step > Len(plan[run[e].task])
      PROVE  RunTells(e)'
  <2>1. \A i \in 1..run'[e].step - 1 : Succeeded(t, i)' BY <1>3, <1>4
  <2>2. \A i \in 1..run'[e].step - 1 : Succeeded(run[e].task, i)'
    BY <1>4, <2>1 DEF Succeeded, Entries
  <2> QED BY <1>1, <1>4, <2>2 DEF RunTells
<1>5. ASSUME NEW with \in {"completed", "stopped", "failed"}, Ends(e, with),
             with = "completed" => run[e].step > Len(plan[run[e].task])
      PROVE  RunTells(e)'
  <2>1. /\ run'[e].task = run[e].task /\ run'[e].step = run[e].step
        /\ run'[e].at = IF with = "completed" THEN "report" ELSE "undo"
        /\ run'[e].status = with
    BY <1>1, <1>5 DEF Ends, Goes, TypeInv, RunsAreTyped, Managed
  <2> QED BY <1>4, <1>5, <2>1
<1>6. CASE NextStep(e)
  <2>1. CASE run[e].step > Len(plan[run[e].task])
    BY <1>5, <1>6, <2>1 DEF NextStep
  <2>2. CASE Ends(e, "stopped") BY <1>5, <2>2
  <2>3. CASE Goes(e, [run[e] EXCEPT !.at = "dispatch"])
    <3>1. run'[e] = [run[e] EXCEPT !.at = "dispatch"]
      BY <2>3 DEF Goes, TypeInv, RunsAreTyped
    <3>2. run[e].at = "step" BY <1>6 DEF NextStep
    <3> QED BY <1>1, <1>4, <3>1, <3>2 DEF RunTells, Managed
  <2> QED BY <1>6, <2>1, <2>2, <2>3 DEF NextStep
<1>7. CASE Dispatch(e)
  <2>1. CASE Ends(e, "stopped") BY <1>5, <2>1
  <2>2. CASE Goes(e, [run[e] EXCEPT !.at = "perform"])
    <3>1. run'[e] = [run[e] EXCEPT !.at = "perform"]
      BY <2>2 DEF Goes, TypeInv, RunsAreTyped
    <3>2. run[e].at = "dispatch" BY <1>7 DEF Dispatch
    <3> QED BY <1>1, <1>4, <3>1, <3>2 DEF RunTells, Managed
  <2> QED BY <1>7, <2>1, <2>2 DEF Dispatch
<1>8. CASE Perform(e)
  <2>1. PICK result \in {"success", "failed"} :
          run'[e] = [run[e] EXCEPT !.at = "log", !.result = result,
                       !.succeeded = IF result = "success"
                                     THEN @ \cup {run[e].step} ELSE @]
    BY <1>8 DEF Perform, Goes, TypeInv, RunsAreTyped
  <2>2. run[e].at = "perform" BY <1>8 DEF Perform
  <2>3. /\ run'[e].task = run[e].task /\ run'[e].step = run[e].step
        /\ run'[e].result = result /\ run'[e].status = run[e].status
    BY <1>1, <2>1 DEF Managed
  <2> QED BY <1>1, <1>4, <2>2, <2>3 DEF RunTells
<1>9. CASE ReadLastHash(e)
  <2>1. PICK prev :
          run'[e] = [run[e] EXCEPT !.at = "append", !.prev = prev]
    BY <1>9 DEF ReadLastHash, Goes, TypeInv, RunsAreTyped
  <2>2. run[e].at = "log" BY <1>9 DEF ReadLastHash
  <2>3. /\ run'[e].task = run[e].task /\ run'[e].step = run[e].step
        /\ run'[e].result = run[e].result /\ run'[e].status = run[e].status
    BY <1>1, <2>1 DEF Managed
  <2> QED BY <1>1, <1>4, <2>2, <2>3 DEF RunTells
<1>10. CASE AppendEntry(e)
  <2>1. run[e].at = "append" /\ run[e].status # "completed"
        /\ run[e].result \in {"success", "failed"}
    BY <1>1, <1>10 DEF AppendEntry, RunTells
  <2>2. CASE run[e].result = "failed"
    <3>1. run'[e] = [run[e] EXCEPT !.at = "undo", !.status = "failed"]
      BY <1>10, <2>2 DEF AppendEntry, Goes, TypeInv, RunsAreTyped
    <3> QED BY <1>1, <1>4, <3>1 DEF Managed
  <2>3. CASE run[e].result = "success"
    <3> DEFINE recorded == IF StrategyOf(e, run[e].step) = "none"
                           THEN run[e].recorded
                           ELSE Append(run[e].recorded, run[e].step)
    <3>1. run'[e] = [run[e] EXCEPT !.prev = 0, !.at = "step",
                       !.step = run[e].step + 1, !.recorded = recorded]
      BY <1>10, <2>3 DEF AppendEntry, Goes, TypeInv, RunsAreTyped
    <3> HIDE DEF recorded
    <3>2. /\ run'[e].at = "step" /\ run'[e].step = run[e].step + 1
          /\ run'[e].task = run[e].task /\ run'[e].status = run[e].status
      BY <1>1, <3>1 DEF Managed
    <3> PICK last : last = run[e].step OBVIOUS
    <3>3. Succeeded(t, last)'
      <4> PICK k : k = Len(audit[t]) + 1 OBVIOUS
      <4>1. /\ Len(audit[t]) \in Nat /\ DOMAIN audit'[t] = 1..(Len(audit[t]) + 1)
            /\ audit'[t][k] = [run |-> e, step |-> last, result |-> "success",
                               prev |-> run[e].prev]
        BY <1>10, <2>3, AppendedEntry DEF AppendEntry
      <4>2. /\ k \in DOMAIN audit'[t] /\ audit'[t][k].run = e
            /\ audit'[t][k].step = last /\ audit'[t][k].result = "success"
        BY <4>1
      <4> QED BY <4>2 DEF Succeeded, Entries
    <3>4. \A i \in 1..run'[e].step - 1 : Succeeded(t, i)'
      <4>1. \A i \in 1..run'[e].step - 1 : i \in 1..last - 1 \/ i = last
        BY <1>2, <3>2
      <4> QED BY <1>3, <3>3, <4>1
    <3>5. \A i \in 1..run'[e].step - 1 : Succeeded(run[e].task, i)'
      BY <3>2, <3>4 DEF Succeeded, Entries
    <3> QED BY <2>1, <3>2, <3>5 DEF RunTells
  <2> QED BY <2>1, <2>2, <2>3
<1>11. CASE LogFails(e) BY <1>5, <1>11 DEF LogFails
<1>12. CASE UndoRun(e)
  <2>1. run'[e] = [run[e] EXCEPT !.at = "report",
                     !.undone = run[e].undone \cup Undone(e, 0)]
    BY <1>12 DEF UndoRun, Goes, TypeInv, RunsAreTyped
  <2>2. run[e].at = "undo" BY <1>12 DEF UndoRun
  <2>3. /\ run'[e].task = run[e].task /\ run'[e].step = run[e].step
        /\ run'[e].at = "report" /\ run'[e].status = run[e].status
    BY <1>1, <2>1 DEF Managed
  <2> QED BY <1>1, <1>4, <2>2, <2>3 DEF RunTells
<1>13. CASE Report(e)
  <2>1. run'[e] = [run[e] EXCEPT !.at = "ended"]
    BY <1>13 DEF Report, Moves, Goes, TypeInv, RunsAreTyped
  <2>2. run[e].at = "report" BY <1>13 DEF Report, Moves
  <2> QED BY <1>1, <1>4, <2>1, <2>2 DEF RunTells, Managed
<1> QED
  BY <1>6, <1>7, <1>8, <1>9, <1>10, <1>11, <1>12, <1>13 DEF RunStep

\* A step of one run says no less of the others.
LEMMA OthersTell ==
  ASSUME TypeInv, NEW e \in Run, RunStep(e), NEW f \in Run \ {e}, RunTells(f)
  PROVE  RunTells(f)'
<1>1. run'[f] = run[f] /\ UNCHANGED plan
  BY RunStepTyped DEF Goes, TypeInv, RunsAreTyped
<1> SUFFICES ASSUME run[f].at \in Working PROVE RunTells(f)'
  BY <1>1 DEF RunTells
<1> PICK t \in Task : t = run[f].task
  BY WorkingIsManaged DEF TypeInv, Managed
<1>2. \A i \in 1..run[f].step - 1 : Succeeded(t, i)'
  BY SuccessIsKept DEF RunTells
<1>3. \A i \in 1..run'[f].step - 1 : Succeeded(run[f].task, i)'
  BY <1>1, <1>2 DEF Succeeded, Entries
<1> QED BY <1>1, <1>3 DEF RunTells

\* The result that is reported of a completed run is in the log.
LEMMA RunStepStatus ==
  ASSUME TypeInv, NEW e \in Run, RunStep(e), RunTells(e),
         NEW t \in Task, StatusTells(t)
  PROVE  StatusTells(t)'
<1>1. /\ run[e] \in Managed /\ UNCHANGED plan /\ run[e].at \in Working
      /\ plan[t] \in Seq(Strategy)
  BY RunStepTyped, ComputerUseAssumption DEF TypeInv, RunsAreTyped, Managed
<1>2. CASE status'[t] = status[t]
  BY <1>1, <1>2, SuccessIsKept DEF StatusTells
<1>3. CASE status'[t] # status[t] /\ status'[t] = "completed"
  <2>1. Report(e)
    BY <1>3 DEF RunStep, NextStep, Dispatch, Perform, ReadLastHash,
                AppendEntry, LogFails, UndoRun, tasks
  <2>2. run[e].task = t /\ run[e].status = "completed"
    BY <1>3, <2>1 DEF Report, TypeInv
  <2>3. run[e].step \in Nat /\ run[e].step > Len(plan[t])
    BY <1>1, <2>2 DEF RunTells, Managed
  <2>4. \A i \in DOMAIN plan[t] : i \in 1..run[e].step - 1
    BY <1>1, <2>3
  <2>5. \A i \in DOMAIN plan[t] : Succeeded(t, i)
    BY <1>1, <2>2, <2>4 DEF RunTells
  <2> QED BY <1>1, <2>5, SuccessIsKept DEF StatusTells
<1> QED BY <1>2, <1>3 DEF StatusTells

\* A run comes to write what it has read by reading.
LEMMA OnlyReadingAppends ==
  ASSUME TypeInv, NEW e \in Run, RunStep(e), run[e] \in Managed,
         run'[e].at = "append"
  PROVE  ReadLastHash(e)
<1>1. ASSUME NEW with, Ends(e, with) PROVE run'[e].at \in {"report", "undo"}
  BY <1>1 DEF Ends, Goes, TypeInv, RunsAreTyped, Managed
<1>2. ASSUME NEW at, Goes(e, [run[e] EXCEPT !.at = at]) PROVE run'[e].at = at
  BY <1>2 DEF Goes, TypeInv, RunsAreTyped, Managed
<1>3. ~ NextStep(e) BY <1>1, <1>2 DEF NextStep
<1>4. ~ Dispatch(e) BY <1>1, <1>2 DEF Dispatch
<1>5. ASSUME Perform(e) PROVE FALSE
  <2>1. PICK result, succeeded :
          Goes(e, [run[e] EXCEPT !.at = "log", !.result = result,
                                 !.succeeded = succeeded])
    BY <1>5 DEF Perform
  <2> QED BY <2>1 DEF Goes, TypeInv, RunsAreTyped, Managed
<1>6. ASSUME AppendEntry(e) PROVE FALSE
  <2>1. CASE run[e].result = "failed"
    BY <1>6, <2>1 DEF AppendEntry, Goes, TypeInv, RunsAreTyped, Managed
  <2>2. CASE run[e].result # "failed"
    <3>1. PICK next, recorded :
            Goes(e, [run[e] EXCEPT !.prev = 0, !.at = "step", !.step = next,
                                   !.recorded = recorded])
      BY <1>6, <2>2 DEF AppendEntry
    <3> QED BY <3>1 DEF Goes, TypeInv, RunsAreTyped, Managed
  <2> QED BY <2>1, <2>2
<1>7. ~ LogFails(e) BY <1>1 DEF LogFails
<1>8. ASSUME UndoRun(e) PROVE FALSE
  <2>1. PICK undone :
          Goes(e, [run[e] EXCEPT !.at = "report", !.undone = undone])
    BY <1>8 DEF UndoRun
  <2> QED BY <2>1 DEF Goes, TypeInv, RunsAreTyped, Managed
<1>9. ~ Report(e) BY <1>2 DEF Report, Moves
<1> QED BY <1>3, <1>4, <1>5, <1>6, <1>7, <1>8, <1>9 DEF RunStep

\* Only the run of a task appends to the task's log, where no two overlapped.
LEMMA RunStepChains ==
  ASSUME TypeInv, NEW e \in Run, RunStep(e), NEW t \in Task, OneChain(t)
  PROVE  OneChain(t)'
<1>1. /\ run[e] \in Managed /\ run[e].at \in Working
      /\ overlapped' = overlapped /\ unread \subseteq unread'
  BY RunStepTyped DEF Managed, RunStep, NextStep, Dispatch, Perform,
     ReadLastHash, AppendEntry, LogFails, UndoRun, Report, ghosts
<1>2. PICK m \in Managed : m.task = run[e].task /\ Goes(e, m)
  BY RunStepTyped
<1>3. run'[e] = m /\ \A f \in Run \ {e} : run'[f] = run[f]
  BY <1>2 DEF Goes, TypeInv, RunsAreTyped
<1>4. run[e].at # "ended" /\ Running(e)
  BY <1>1 DEF RunStep, NextStep, Dispatch, Perform, ReadLastHash, AppendEntry,
     LogFails, UndoRun, Report, Moves, Running, Working
<1>5. RunsOf(t)' \subseteq RunsOf(t)
  BY <1>2, <1>3, <1>4 DEF RunsOf, Running
<1> SUFFICES ASSUME t \notin overlapped
    PROVE  /\ \A k \in DOMAIN audit'[t] :
                Readable(t, k)' => Links(t, audit[t][k].prev, k - 1)'
           /\ \A f \in RunsOf(t)' :
                run'[f].at = "append" =>
                  Links(t, run[f].prev, Len(audit[t]))'
  BY <1>1, <1>5 DEF OneChain
<1>6. \A f \in RunsOf(t) : run[e].task = t => f = e
  BY <1>4 DEF OneChain, RunsOf
<1> PICK n : n = Len(audit[t]) OBVIOUS
<1>0. n \in Nat /\ DOMAIN audit[t] = 1..n BY LogsGrow
<1>7. ASSUME NEW prev, NEW last \in 0..n, Links(t, prev, last)
      PROVE  prev = Hash(t, last)' \/ (prev = 0 /\ t \in unread')
  BY <1>1, <1>7, HashIsKept DEF Links
<1>8. CASE audit'[t] # audit[t]
  <2>1. PICK result \in {None, "success", "failed"} : Writes(e, result)
    BY <1>8, RunStepWrites
  <2>2. run[e].at = "append" /\ run'[e].at # "append"
    <3>1. AppendEntry(e) \/ LogFails(e)
      BY <1>8 DEF RunStep, NextStep, Dispatch, Perform, ReadLastHash, UndoRun,
                  Report
    <3>2. CASE AppendEntry(e)
      BY <1>1, <3>2 DEF AppendEntry, Goes, TypeInv, RunsAreTyped, Managed
    <3>3. CASE LogFails(e)
      BY <1>1, <1>8, <3>3
         DEF LogFails, Ends, Goes, TypeInv, RunsAreTyped, Managed
    <3> QED BY <3>1, <3>2, <3>3
  <2>3. run[e].task = t BY <1>8, <2>1, AppendedEntry
  <2>4. Links(t, run[e].prev, n)
    BY <1>4, <2>2, <2>3 DEF OneChain, RunsOf
  <2>5. /\ DOMAIN audit'[t] = 1..(n + 1)
        /\ \A k \in DOMAIN audit[t] : audit'[t][k] = audit[t][k]
    BY <2>1, <2>3, AppendedEntry, LogsGrow
  <2>6. audit'[t][n + 1].prev = run[e].prev
    <3>1. audit'[t][n + 1] =
            [run |-> e, step |-> run[e].step, result |-> result,
             prev |-> run[e].prev]
      BY <2>1, <2>3, AppendedEntry
    <3> QED BY <3>1
  <2>7. ASSUME NEW k \in DOMAIN audit'[t], Readable(t, k)'
        PROVE  Links(t, audit[t][k].prev, k - 1)'
    <3>1. CASE k \in DOMAIN audit[t]
      <4>1. k \in 0..n /\ k - 1 \in 0..n BY <1>0, <3>1
      <4>2. Readable(t, k) BY <2>7, <4>1, HashIsKept
      <4>3. Links(t, audit[t][k].prev, k - 1) BY <3>1, <4>2 DEF OneChain
      <4>4. /\ audit'[t][k].prev = audit[t][k].prev
            /\ \/ audit[t][k].prev = Hash(t, k - 1)'
               \/ audit[t][k].prev = 0 /\ t \in unread'
        BY <1>7, <2>5, <3>1, <4>1, <4>3
      <4> QED BY <4>4 DEF Links
    <3>2. CASE k = n + 1
      <4>1. k - 1 = n /\ n \in 0..n BY <1>0, <3>2
      <4>2. run[e].prev = Hash(t, n)' \/ (run[e].prev = 0 /\ t \in unread')
        BY <1>7, <2>4, <4>1
      <4> QED BY <2>6, <3>2, <4>1, <4>2 DEF Links
    <3> QED BY <1>0, <2>5, <3>1, <3>2
  <2> QED BY <1>5, <1>6, <2>2, <2>3, <2>7
<1>9. CASE audit'[t] = audit[t]
  <2>1. n \in 0..n /\ Len(audit'[t]) = n BY <1>0, <1>9
  <2>3. ASSUME NEW k \in DOMAIN audit'[t], Readable(t, k)'
        PROVE  Links(t, audit[t][k].prev, k - 1)'
    <3>1. k \in 0..n /\ k - 1 \in 0..n BY <1>0, <1>9
    <3>2. Readable(t, k) BY <2>3, <3>1, HashIsKept
    <3>3. Links(t, audit[t][k].prev, k - 1) BY <1>9, <3>2 DEF OneChain
    <3>4. audit[t][k].prev = Hash(t, k - 1)'
            \/ (audit[t][k].prev = 0 /\ t \in unread')
      BY <1>7, <3>1, <3>3
    <3> QED BY <1>9, <3>4 DEF Links
  <2>4. ASSUME NEW f \in RunsOf(t)', run'[f].at = "append"
        PROVE  Links(t, run[f].prev, Len(audit[t]))'
    <3>1. f \in RunsOf(t) BY <1>5
    <3>2. CASE run'[f] = run[f]
      <4>1. Links(t, run[f].prev, n) BY <2>4, <3>1, <3>2 DEF OneChain
      <4>2. run[f].prev = Hash(t, n)' \/ (run[f].prev = 0 /\ t \in unread')
        BY <1>7, <2>1, <4>1
      <4> QED BY <2>1, <3>2, <4>2 DEF Links
    <3>3. CASE run'[f] # run[f]
      <4>1. f = e /\ run[e].task = t
        BY <1>3, <3>1, <3>3 DEF RunsOf
      <4>2. ReadLastHash(e)
        BY <1>1, <1>2, <1>3, <2>4, <4>1, OnlyReadingAppends
      <4>3. \E prev : /\ Goes(e, [run[e] EXCEPT !.at = "append", !.prev = prev])
                      /\ prev = LastEntry(e) \/ (prev = 0 /\ t \in unread')
        BY <4>1, <4>2 DEF ReadLastHash
      <4>4. run'[e].prev = LastEntry(e) \/ (run'[e].prev = 0 /\ t \in unread')
        BY <1>1, <4>3 DEF Goes, TypeInv, RunsAreTyped, Managed
      <4>5. LastEntry(e) = Hash(t, n)'
        <5>1. LastEntry(e) = Hash(t, n) BY <4>1 DEF LastEntry
        <5> QED BY <2>1, <5>1, HashIsKept
      <4> QED BY <2>1, <4>1, <4>4, <4>5 DEF Links
    <3> QED BY <3>2, <3>3
  <2> QED BY <2>3, <2>4
<1> QED BY <1>8, <1>9

\* A half line is left by a failed write only.
LEMMA RunStepHalves ==
  ASSUME TypeInv, NEW e \in Run, RunStep(e), RunTells(e), HalvesAreFaults
  PROVE  HalvesAreFaults'
<1> SUFFICES ASSUME NEW t \in Task, NEW k \in DOMAIN audit'[t],
                    audit'[t][k].result = None
             PROVE  faults' < MaxFaults
  BY DEF HalvesAreFaults
<1>1. /\ run[e] \in Managed /\ run[e].at \in Working
      /\ faults' \in Nat /\ faults \in Nat /\ faults' <= faults
  BY RunStepTyped, ComputerUseAssumption
     DEF Managed, TypeInv, RunsAreTyped
<1>2. CASE k \in DOMAIN audit[t]
  <2>1. faults < MaxFaults BY <1>2, LogsGrow DEF HalvesAreFaults
  <2> QED BY <1>1, <2>1, ComputerUseAssumption
<1>3. CASE k \notin DOMAIN audit[t]
  <2>1. PICK result \in {None, "success", "failed"} : Writes(e, result)
    BY <1>3, RunStepWrites
  <2>2. ASSUME NEW r, Writes(e, r) PROVE audit'[t][k].result = r
    <3>1. run[e].task = t BY <1>3, <2>2, AppendedEntry
    <3>2. PICK n : n = Len(audit[t]) OBVIOUS
    <3>3. /\ n \in Nat /\ DOMAIN audit[t] = 1..n
          /\ DOMAIN audit'[t] = 1..(n + 1)
          /\ audit'[t][n + 1] = [run |-> e, step |-> run[e].step, result |-> r,
                                 prev |-> run[e].prev]
      BY <2>2, <3>1, <3>2, AppendedEntry, LogsGrow
    <3>4. k = n + 1 BY <1>3, <3>3
    <3> QED BY <3>3, <3>4
  <2>3. CASE AppendEntry(e)
    <3>1. run[e].result # None
      BY <1>1, <2>3, ComputerUseAssumption DEF AppendEntry, RunTells
    <3>2. Writes(e, run[e].result) BY <2>3 DEF AppendEntry
    <3>3. audit'[t][k].result = run[e].result BY <2>2, <3>2
    <3> QED BY <3>1, <3>3
  <2>4. CASE LogFails(e)
    BY <1>1, <2>4, ComputerUseAssumption DEF LogFails, TypeInv, RunsAreTyped
  <2>5. AppendEntry(e) \/ LogFails(e)
    BY <1>3 DEF RunStep, NextStep, Dispatch, Perform, ReadLastHash, UndoRun,
                Report
  <2> QED BY <2>3, <2>4, <2>5
<1> QED BY <1>2, <1>3
-----------------------------------------------------------------------------
(* Steps that write no entry. *)

\* What is said of the runs that stay, or change no more than what they undid.
LEMMA QuietTells ==
  ASSUME UNCHANGED <<plan, audit>>, NEW f \in Run, RunTells(f),
         run'[f].at \in Working =>
           /\ run'[f].at = run[f].at /\ run'[f].task = run[f].task
           /\ run'[f].step = run[f].step /\ run'[f].result = run[f].result
           /\ run'[f].status = run[f].status
  PROVE  RunTells(f)'
<1> SUFFICES ASSUME run'[f].at \in Working PROVE RunTells(f)'
  BY DEF RunTells
<1>1. \A i \in 1..run'[f].step - 1 : Succeeded(run[f].task, i)'
  BY DEF RunTells, Succeeded, Entries
<1> QED BY <1>1 DEF RunTells

LEMMA QuietStatus ==
  ASSUME UNCHANGED <<plan, audit>>, NEW t \in Task, StatusTells(t),
         status'[t] = "completed" => status[t] = "completed"
  PROVE  StatusTells(t)'
BY DEF StatusTells, Succeeded, Entries

LEMMA QuietChain ==
  ASSUME UNCHANGED <<audit, unread>>, NEW t \in Task, OneChain(t),
         overlapped \subseteq overlapped',
         t \notin overlapped' => RunsOf(t)' \subseteq RunsOf(t),
         \A e \in Run : run'[e].at = "append" =>
           run[e].at = "append" /\ run'[e].prev = run[e].prev
  PROVE  OneChain(t)'
<1>1. \A k : Readable(t, k)' = Readable(t, k) /\ Hash(t, k)' = Hash(t, k)
  BY DEF Readable, Hash
<1>2. ASSUME NEW prev, NEW last PROVE Links(t, prev, last)' = Links(t, prev, last)
  BY <1>1 DEF Links
<1>3. \A k \in DOMAIN audit[t] : t \notin overlapped' /\ Readable(t, k)'
        => Links(t, audit[t][k].prev, k - 1)'
  <2> SUFFICES ASSUME NEW k \in DOMAIN audit[t], t \notin overlapped',
                      Readable(t, k)'
               PROVE  Links(t, audit[t][k].prev, k - 1)'
    OBVIOUS
  <2> PICK prev : prev = audit[t][k].prev OBVIOUS
  <2>1. Links(t, prev, k - 1) BY <1>1 DEF OneChain
  <2> QED BY <1>2, <2>1 DEF Links
<1>4. \A e \in RunsOf(t)' : t \notin overlapped' /\ run'[e].at = "append"
        => Links(t, run[e].prev, Len(audit[t]))'
  <2> SUFFICES ASSUME NEW e \in RunsOf(t)', t \notin overlapped',
                      run'[e].at = "append"
               PROVE  Links(t, run[e].prev, Len(audit[t]))'
    OBVIOUS
  <2> PICK prev : prev = run[e].prev OBVIOUS
  <2> PICK last : last = Len(audit[t]) OBVIOUS
  <2>0. e \in Run /\ e \in RunsOf(t) /\ run[e].at = "append"
        /\ run'[e].prev = prev /\ Len(audit'[t]) = last
    BY DEF RunsOf
  <2>1. Links(t, prev, last) BY <2>0 DEF OneChain
  <2>2. Links(t, prev, last)' BY <1>2, <2>1
  <2>3. prev = Hash(t, last)' \/ (prev = 0 /\ t \in unread') BY <2>2 DEF Links
  <2> QED BY <2>0, <2>3 DEF Links
<1> QED BY <1>3, <1>4 DEF OneChain

LEMMA QuietHalves ==
  ASSUME UNCHANGED <<audit, faults>>, HalvesAreFaults
  PROVE  HalvesAreFaults'
BY DEF HalvesAreFaults

LEMMA NextAuditInv ==
  ASSUME TypeInv, AuditInv, [Next]_vars
  PROVE  AuditInv'
<1>1. ASSUME UNCHANGED <<plan, audit, unread, faults>>,
             overlapped \subseteq overlapped',
             \A t \in Task : status'[t] = "completed" => status[t] = "completed",
             \A t \in Task : t \notin overlapped' => RunsOf(t)' \subseteq RunsOf(t),
             \A f \in Run : run'[f].at \in Working =>
               /\ run'[f].at = run[f].at /\ run'[f].task = run[f].task
               /\ run'[f].step = run[f].step /\ run'[f].result = run[f].result
               /\ run'[f].status = run[f].status /\ run'[f].prev = run[f].prev
      PROVE  AuditInv'
  <2>1. \A f \in Run : RunTells(f)' BY <1>1, QuietTells DEF AuditInv
  <2>2. \A t \in Task : StatusTells(t)' BY <1>1, QuietStatus DEF AuditInv
  <2>3. \A f \in Run : run'[f].at = "append" =>
          run[f].at = "append" /\ run'[f].prev = run[f].prev
    BY <1>1 DEF Working
  <2>4. \A t \in Task : OneChain(t)' BY <1>1, <2>3, QuietChain DEF AuditInv
  <2> QED BY <1>1, <2>1, <2>2, <2>4, QuietHalves DEF AuditInv
<1>2. ASSUME run' = run, UNCHANGED <<plan, audit, unread, faults>>,
             overlapped' = overlapped,
             \A t \in Task : status'[t] = "completed" => status[t] = "completed"
      PROVE  AuditInv'
  <2>1. \A t \in Task : RunsOf(t)' = RunsOf(t) BY <1>2 DEF RunsOf, Running
  <2> QED BY <1>1, <1>2, <2>1
<1>3. ASSUME UNCHANGED status
      PROVE  \A t \in Task : status'[t] = "completed" => status[t] = "completed"
  BY <1>3
<1>4. ASSUME NEW t \in Task, CreateTask(t) \/ Expire(t) PROVE AuditInv'
  <2>1. \A s \in Task : status'[s] = "completed" => status[s] = "completed"
    <3>1. CASE CreateTask(t) BY <3>1 DEF CreateTask
    <3>2. CASE Expire(t) BY <3>2 DEF Expire
    <3> QED BY <1>4, <3>1, <3>2
  <2> QED BY <1>2, <1>4, <2>1 DEF CreateTask, Expire, ghosts
<1>5. ASSUME NEW t \in Task, NEW u \in Undoing, AskRollback(u, t)
      PROVE  AuditInv'
  BY <1>2, <1>3, <1>5 DEF AskRollback, tasks, ghosts
<1>6. CASE Trigger \/ Reset
  BY <1>2, <1>3, <1>6 DEF Trigger, Reset, tasks, ghosts
<1>7. ASSUME NEW t \in Task, NEW e \in Run, ExecuteTask(e, t)
      PROVE  AuditInv'
  <2>1. /\ run'[e] = [at |-> "start", task |-> t]
        /\ \A f \in Run \ {e} : run'[f] = run[f]
        /\ run[e].at = "waiting" /\ UNCHANGED <<plan, audit, unread, faults>>
    BY <1>7 DEF ExecuteTask, Goes, TypeInv, RunsAreTyped
  <2>2. \A s \in Task : status'[s] = "completed" => status[s] = "completed"
    BY <1>7 DEF ExecuteTask
  <2>3. run'[e].at = "start" /\ run'[e].task = t BY <2>1
  <2>4. \A f \in Run \ {e} : RunTells(f)'
    BY <2>1, QuietTells DEF AuditInv
  <2>5. RunTells(e)' BY <2>3 DEF RunTells, Working
  <2>6. \A s \in Task : StatusTells(s)' BY <2>1, <2>2, QuietStatus DEF AuditInv
  <2>7. ASSUME NEW s \in Task PROVE OneChain(s)'
    <3>1. overlapped' = IF RunsOf(t) # {} THEN overlapped \cup {t} ELSE overlapped
      BY <1>7 DEF ExecuteTask, RunsOf
    <3>2. RunsOf(s)' \subseteq RunsOf(s) \cup (IF s = t THEN {e} ELSE {})
      BY <2>1, <2>3 DEF RunsOf, Running
    <3>3. CASE s # t
      <4>1. \A f \in Run : run'[f].at = "append" =>
              run[f].at = "append" /\ run'[f].prev = run[f].prev
        BY <2>1, <2>3
      <4> QED BY <2>1, <3>1, <3>2, <3>3, <4>1, QuietChain DEF AuditInv
    <3>4. CASE s = t
      <4>1. s \notin overlapped' => RunsOf(s)' \subseteq {e}
        BY <3>1, <3>2, <3>4
      <4>2. s \notin overlapped' => s \notin overlapped BY <3>1
      <4>3. \A k : Readable(s, k)' = Readable(s, k) /\ Hash(s, k)' = Hash(s, k)
        BY <2>1 DEF Readable, Hash
      <4>4. s \notin overlapped' => \A k \in DOMAIN audit[s] :
              Readable(s, k)' => Links(s, audit[s][k].prev, k - 1)'
        BY <2>1, <4>2, <4>3 DEF AuditInv, OneChain, Links
      <4> QED BY <2>1, <2>3, <4>1, <4>4 DEF OneChain
    <3> QED BY <3>3, <3>4
  <2> QED BY <2>1, <2>4, <2>5, <2>6, <2>7, QuietHalves DEF AuditInv
<1>8. ASSUME NEW e \in Run, RunTask(e) PROVE AuditInv'
  <2> DEFINE m == [at |-> "step", task |-> run[e].task, step |-> 1,
                   result |-> None, succeeded |-> {}, recorded |-> <<>>,
                   undone |-> {}, prev |-> 0, status |-> "executing"]
  <2>1. /\ run'[e] = m /\ \A f \in Run \ {e} : run'[f] = run[f]
        /\ run[e].at = "start"
        /\ UNCHANGED <<plan, audit, status, unread, faults>>
        /\ overlapped' = overlapped
    BY <1>8 DEF RunTask, Goes, TypeInv, RunsAreTyped, ghosts
  <2>2. run'[e].at = "step" /\ run'[e].task = run[e].task /\ run'[e].step = 1
        /\ run'[e].status = "executing"
    BY <2>1
  <2> HIDE DEF m
  <2>3. \A f \in Run \ {e} : RunTells(f)' BY <2>1, QuietTells DEF AuditInv
  <2>4. RunTells(e)'
    <3>1. 1..(1 - 1) = {} OBVIOUS
    <3>2. 1..run'[e].step - 1 = {} BY <2>2, <3>1
    <3> QED BY <2>2, <3>2 DEF RunTells
  <2>5. \A t \in Task : StatusTells(t)' BY <2>1, QuietStatus DEF AuditInv
  <2>6. \A t \in Task : RunsOf(t)' \subseteq RunsOf(t)
    BY <2>1, <2>2 DEF RunsOf, Running
  <2>7. \A f \in Run : run'[f].at = "append" =>
          run[f].at = "append" /\ run'[f].prev = run[f].prev
    BY <2>1, <2>2
  <2>8. \A t \in Task : OneChain(t)'
    BY <2>1, <2>6, <2>7, QuietChain DEF AuditInv
  <2> QED BY <2>1, <2>3, <2>4, <2>5, <2>8, QuietHalves DEF AuditInv
<1>9. ASSUME NEW e \in Run, RunStep(e) PROVE AuditInv'
  BY <1>9, RunStepTells, OthersTell, RunStepStatus, RunStepChains, RunStepHalves
     DEF AuditInv
<1>10. ASSUME NEW u \in Undoing, RollbackTask(u) PROVE AuditInv'
  <2>1. UNCHANGED <<plan, status, audit, overlapped, unread, faults>>
    BY <1>10 DEF RollbackTask, tasks, ghosts
  <2>2. CASE manager[undoing[u].task] = None
    BY <1>2, <1>3, <1>10, <2>1, <2>2 DEF RollbackTask
  <2>3. CASE manager[undoing[u].task] # None
    <3> DEFINE e == manager[undoing[u].task]
               all == run[e].undone \cup Undone(e, undoing[u].to)
    <3>1. e \in Run /\ run[e] \in Managed
          /\ Goes(e, [run[e] EXCEPT !.undone = all])
      BY <1>10, <2>3, RollbackTyped
    <3> HIDE DEF e, all
    <3>2. \A f \in Run : run'[f].at = run[f].at /\ run'[f].task = run[f].task
      BY <3>1 DEF Goes, TypeInv, RunsAreTyped, Managed
    <3>3. \A f \in Run :
            /\ run'[f].step = run[f].step /\ run'[f].result = run[f].result
            /\ run'[f].status = run[f].status /\ run'[f].prev = run[f].prev
      BY <3>1 DEF Goes, TypeInv, RunsAreTyped, Managed
    <3>4. \A t \in Task : RunsOf(t)' \subseteq RunsOf(t)
      BY <3>2 DEF RunsOf, Running
    <3> QED BY <1>1, <2>1, <3>2, <3>3, <3>4
  <2> QED BY <2>2, <2>3
<1>11. ASSUME NEW u \in Undoing, RollbackEnds(u) PROVE AuditInv'
  <2>1. \A s \in Task : status'[s] = "completed" => status[s] = "completed"
    BY <1>11 DEF RollbackEnds
  <2> QED BY <1>2, <1>11, <2>1 DEF RollbackEnds, ghosts
<1>12. CASE UNCHANGED vars
  BY <1>2, <1>3, <1>12 DEF vars, tasks, ghosts
<1> QED
  BY <1>4, <1>5, <1>6, <1>7, <1>8, <1>9, <1>10, <1>11, <1>12
     DEF Next, RunStep

LEMMA InitAuditInv == ASSUME Init PROVE AuditInv
<1>1. /\ \A e \in Run : run[e].at = "waiting"
      /\ \A t \in Task : status[t] = "none" /\ audit[t] = <<>>
  BY DEF Init, Waiting
<1>2. \A e \in Run : RunTells(e) BY <1>1 DEF RunTells, Working
<1>3. \A t \in Task : StatusTells(t) BY <1>1 DEF StatusTells
<1>4. \A t \in Task : RunsOf(t) = {} BY <1>1 DEF RunsOf, Running
<1>5. \A t \in Task : OneChain(t) BY <1>1, <1>4 DEF OneChain
<1>6. HalvesAreFaults BY <1>1 DEF HalvesAreFaults
<1> QED BY <1>2, <1>3, <1>5, <1>6 DEF AuditInv

\* The audit log tells what was done, whatever ran beside a task, failed,
\* expired or was rolled back: log_step has written the success of every step
\* of a task that execute_task reports as completed, where it can be read unless
\* a write failed; and unless a task was run twice at a time its entries are one
\* chain, over all its runs, that begins anew only behind a line _get_last_hash
\* cannot decode or when it could not read the file.
THEOREM AuditAlwaysTellsTheRuns == Spec => []AuditTellsTheRuns
<1>1. ASSUME AuditInv, TypeInv PROVE AuditTellsTheRuns
  <2>1. ASSUME NEW t \in Task, NEW k \in DOMAIN audit[t], ~ (faults < MaxFaults)
        PROVE  Readable(t, k)
    <3>1. \A j \in DOMAIN audit[t] : audit[t][j].result # None
      BY <1>1, <2>1 DEF AuditInv, HalvesAreFaults
    <3>2. audit[t] \in Seq(Write) BY <1>1 DEF TypeInv, RunsAreTyped
    <3>3. k > 1 => k - 1 \in DOMAIN audit[t] BY <2>1, <3>2
    <3> QED BY <2>1, <3>1, <3>3 DEF Readable
  <2>2. \A t \in Task : status[t] = "completed" =>
          \A i \in DOMAIN plan[t] :
            \E e \in Run : \E k \in Entries(t, e, i) :
              /\ audit[t][k].result = "success"
              /\ Readable(t, k) \/ faults < MaxFaults
    BY <1>1, <2>1 DEF AuditInv, StatusTells, Succeeded, Entries
  <2>3. \A t \in Task : t \notin overlapped =>
          \A k \in DOMAIN audit[t] :
            Readable(t, k) => Links(t, audit[t][k].prev, k - 1)
    BY <1>1 DEF AuditInv, OneChain
  <2> QED BY <2>2, <2>3 DEF AuditTellsTheRuns, Links
<1>2. AuditInv /\ IInv /\ [Next]_vars => AuditInv'
  BY NextAuditInv DEF IInv
<1>3. AuditInv /\ IInv => AuditTellsTheRuns BY <1>1 DEF IInv
<1> QED BY <1>2, <1>3, InitAuditInv, AlwaysIInv, PTL DEF Spec
=============================================================================
