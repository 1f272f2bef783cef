----------------------------- MODULE LoopEngine -----------------------------
(***************************************************************************)
(* One loop row and the streams POST /loop/{id}/run opens on it            *)
(* (server/services/loop_engine.py, server/api/loop.py): execute,          *)
(* evaluate, improve, under the loop guard.  As in the code, every helper  *)
(* (_is_cancelled, _persist_progress, _finalize, _set_status) opens a      *)
(* database session of its own, and anything may happen between two.       *)
(***************************************************************************)
EXTENDS Integers, Sequences, FiniteSets

CONSTANTS
  Run,              \* streams opened by POST /loop/{id}/run
  Score,            \* scores an evaluation may give
  Threshold,        \* SCORE_THRESHOLD
  StagnationLimit,  \* STAGNATION_LIMIT
  HardLimit,        \* MAX_ITERATIONS_HARD_LIMIT
  AskedIterations,  \* max_iterations values POST /loop is called with
  ProviderFails,    \* whether providers may fail
  MayDisconnect,    \* whether clients may drop their stream
  None

ASSUME LoopAssumption ==
  /\ Score \subseteq Int /\ Threshold \in Int
  /\ StagnationLimit \in Nat \ {0}
  /\ HardLimit \in Nat \ {0}
  /\ AskedIterations \subseteq Int
  /\ ProviderFails \in BOOLEAN /\ MayDisconnect \in BOOLEAN
  /\ None \notin Int

Evaluation == [score : Score, again : BOOLEAN]

VARIABLES
  status,      \* loop.status, "gone" once deleted
  maximum,     \* loop.max_iterations
  iteration,   \* loop.iteration
  stored,      \* loop.steps (result and evaluation are its last element)
  pc,          \* where each stream is
  inherited,   \* the steps each run found in the row
  own,         \* the steps it made
  last,        \* last_score
  stagnation,  \* stagnation_count
  seen,        \* the row a helper's session has read
  reason       \* why the run ends; "" until it knows

row == <<status, maximum, iteration, stored>>
Row == [status |-> status, iteration |-> iteration, stored |-> stored]
vars == <<row, pc, inherited, own, last, stagnation, seen, reason>>
-----------------------------------------------------------------------------
\* Mutant: the request may ask for no iteration at all.
CappedAbove(n) == IF n < HardLimit THEN n ELSE HardLimit

\* create_loop caps what the request asks for.
Capped(n) ==
  LET atMost == IF n < HardLimit THEN n ELSE HardLimit
  IN IF atMost > 1 THEN atMost ELSE 1

Init ==
  /\ status = "pending" /\ iteration = 0 /\ stored = <<>>
  /\ maximum \in {Capped(n) : n \in AskedIterations}
  /\ pc = [r \in Run |-> "idle"]
  /\ inherited = [r \in Run |-> <<>>]
  /\ own = [r \in Run |-> <<>>]
  /\ last = [r \in Run |-> None]
  /\ stagnation = [r \in Run |-> 0]
  /\ seen = [r \in Run |-> None]
  /\ reason = [r \in Run |-> ""]

Step(r, from, to) == pc[r] = from /\ pc' = [pc EXCEPT ![r] = to]
Because(r, why) == reason' = [reason EXCEPT ![r] = why]
Counters == <<inherited, own, last, stagnation, seen>>
-----------------------------------------------------------------------------
\* The row is taken whatever its status, cancelled and running included.
StartRun(r) ==
  /\ Step(r, "idle", "check")
  /\ status # "gone"
  /\ status' = "running"
  /\ inherited' = [inherited EXCEPT ![r] = stored]
  /\ UNCHANGED <<maximum, iteration, stored, own, last, stagnation, seen, reason>>

\* The persona is missing: the stream ends at once.
RejectRun(r) ==
  /\ Step(r, "idle", "ended")
  /\ Because(r, "error")
  /\ UNCHANGED <<row, Counters>>

\* The persona's provider is not registered.
NoProvider(r) ==
  /\ ProviderFails
  /\ own[r] = <<>>
  /\ Step(r, "check", "failing")
  /\ Because(r, "error")
  /\ UNCHANGED <<row, Counters>>

\* The loop guard at the head of an iteration; a deleted loop goes on.
CheckCancelled(r) ==
  /\ Len(own[r]) < maximum
  /\ \/ /\ status # "cancelled"
        /\ Step(r, "check", "work")
        /\ UNCHANGED reason
     \/ /\ status = "cancelled"
        /\ Step(r, "check", "ended")
        /\ Because(r, "cancelled")
  /\ UNCHANGED <<row, Counters>>

\* Improve, execute, evaluate: any of the three provider calls may raise.
WorkFails(r) ==
  /\ ProviderFails
  /\ Step(r, "work", "failing")
  /\ Because(r, "error")
  /\ UNCHANGED <<row, Counters>>

Work(r) ==
  /\ Step(r, "work", "persist")
  /\ \E e \in Evaluation : own' = [own EXCEPT ![r] = Append(@, e)]
  /\ UNCHANGED <<row, inherited, last, stagnation, seen, reason>>

Read(r) == seen' = [seen EXCEPT ![r] = Row]

\* An UPDATE holds the columns whose new value differs from the one read.
Written(r, column, new) == IF seen[r][column] = new THEN Row[column] ELSE new

\* Mutant: the list is assigned where the session does not see it.
SavedUnseen(r) ==
  /\ iteration' = Written(r, "iteration", Len(own[r]))
  /\ UNCHANGED stored

Saved(r) ==
  /\ iteration' = Written(r, "iteration", Len(own[r]))
  /\ stored' = Written(r, "stored", inherited[r] \o own[r])

\* _persist_progress reads the row and leaves a deleted one alone ...
PersistRead(r) ==
  /\ Step(r, "persist", IF status = "gone" THEN "judge" ELSE "save")
  /\ Read(r)
  /\ UNCHANGED <<row, inherited, own, last, stagnation, reason>>

\* ... and commits the run's own list over the row's.
PersistCommit(r) ==
  /\ status # "gone"
  /\ Step(r, "save", "judge")
  /\ Saved(r)
  /\ UNCHANGED <<status, maximum, Counters, reason>>

Latest(r) == own[r][Len(own[r])]
\* Mutant: an equal score counts as better.
NoWorse(r) == last[r] # None /\ Latest(r).score < last[r]

NoBetter(r) == last[r] # None /\ Latest(r).score <= last[r]
Stagnation(r) == IF NoBetter(r) THEN stagnation[r] + 1 ELSE 0
Stagnates(r) == NoBetter(r) /\ Stagnation(r) >= StagnationLimit

\* After the iteration event: stagnation is looked at before the threshold.
Judge(r) ==
  /\ pc[r] = "judge"
  /\ stagnation' = [stagnation EXCEPT ![r] = Stagnation(r)]
  /\ last' = [last EXCEPT ![r] = IF Stagnates(r) THEN @ ELSE Latest(r).score]
  /\ IF Stagnates(r)
     THEN Step(r, "judge", "finalize") /\ Because(r, "stagnation")
     ELSE IF Latest(r).score >= Threshold \/ ~ Latest(r).again
     THEN Step(r, "judge", "finalize") /\ Because(r, "threshold_reached")
     ELSE Step(r, "judge", "check") /\ UNCHANGED reason
  /\ UNCHANGED <<row, inherited, own, seen>>

\* Mutant: the end of the range is off by one.
MaximumExceeded(r) ==
  /\ Len(own[r]) > maximum
  /\ Step(r, "check", "finalize")
  /\ Because(r, "max_iterations")
  /\ UNCHANGED <<row, Counters>>

MaximumReached(r) ==
  /\ Len(own[r]) >= maximum
  /\ Step(r, "check", "finalize")
  /\ Because(r, "max_iterations")
  /\ UNCHANGED <<row, Counters>>

\* Mutant: the run completes whatever has become of the row.
FinalizeReadAny(r) ==
  /\ Step(r, "finalize", IF status = "gone" THEN "report" ELSE "commit")
  /\ Read(r)
  /\ UNCHANGED <<row, inherited, own, last, stagnation, reason>>

\* _finalize leaves a missing or a cancelled row alone ...
FinalizeRead(r) ==
  /\ Step(r, "finalize",
          IF status \in {"gone", "cancelled"} THEN "report" ELSE "commit")
  /\ Read(r)
  /\ UNCHANGED <<row, inherited, own, last, stagnation, reason>>

\* ... and completes any other.
FinalizeCommit(r) ==
  /\ status # "gone"
  /\ Step(r, "commit", "report")
  /\ status' = Written(r, "status", "completed")
  /\ Saved(r)
  /\ UNCHANGED <<maximum, Counters, reason>>

\* The row was deleted before the commit: the UPDATE matches nothing, raises,
\* and ends the stream.
RowLost(r) ==
  /\ status = "gone"
  /\ \E at \in {"save", "commit"} : Step(r, at, "ended")
  /\ Because(r, IF reason[r] = "" THEN "error" ELSE reason[r])
  /\ UNCHANGED <<row, Counters>>

ReportDone(r) ==
  /\ Step(r, "report", "ended")
  /\ UNCHANGED <<row, Counters, reason>>

\* _set_status(loop_id, "failed"), after the error event was yielded.
SetFailed(r) ==
  /\ Step(r, "failing", "ended")
  /\ status' = IF status = "gone" THEN "gone" ELSE "failed"
  /\ UNCHANGED <<maximum, iteration, stored, Counters, reason>>

\* The response is cancelled at an await or a yield; nothing catches it.
Disconnect(r) ==
  /\ MayDisconnect
  /\ \E at \in {"check", "work", "persist", "save", "judge", "finalize",
                "commit", "report", "failing"} : Step(r, at, "ended")
  /\ reason' = [reason EXCEPT ![r] = IF @ = "" THEN "disconnect" ELSE @]
  /\ UNCHANGED <<row, Counters>>
-----------------------------------------------------------------------------
\* cancel_loop sets the status of any loop that exists.
CancelLoop ==
  /\ status # "gone"
  /\ status' = "cancelled"
  /\ UNCHANGED <<maximum, iteration, stored, pc, Counters, reason>>

DeleteLoop ==
  /\ status # "gone"
  /\ status' = "gone"
  /\ UNCHANGED <<maximum, iteration, stored, pc, Counters, reason>>

Stream(r) ==
  \/ NoProvider(r) \/ CheckCancelled(r) \/ WorkFails(r) \/ Work(r)
  \/ PersistRead(r) \/ PersistCommit(r) \/ Judge(r) \/ MaximumReached(r)
  \/ FinalizeRead(r) \/ FinalizeCommit(r) \/ RowLost(r)
  \/ ReportDone(r) \/ SetFailed(r)

Next ==
  \/ \E r \in Run : Stream(r) \/ StartRun(r) \/ RejectRun(r) \/ Disconnect(r)
  \/ CancelLoop
  \/ DeleteLoop

Spec == Init /\ [][Next]_vars

\* The event loop resumes a stream whose await is over, and provider calls end
\* (httpx timeouts).  Starting, cancelling, deleting and leaving are free.
FairSpec == Spec /\ \A r \in Run : WF_vars(Stream(r))
-----------------------------------------------------------------------------
(* Properties. *)

\* A loop that says "completed" has a result: the run that completed it stored
\* at least one step, however it was cancelled or run again in between.
CompletedHasResult == status = "completed" => iteration > 0 /\ stored # <<>>

\* The counter and the list are one write: until a second run begins the row
\* never shows a number of iterations other than its steps, also while the run
\* goes on, fails, or is left by its client.
ProgressIsConsistent ==
  Cardinality({r \in Run : pc[r] # "idle"}) <= 1 => iteration = Len(stored)

\* The incremental counters implement the guard over the whole history.
Outcome(r) ==
  IF reason[r] = "" THEN "open"
  ELSE IF reason[r] \in {"stagnation", "threshold_reached", "max_iterations"}
  THEN "finished"
  ELSE "aborted"
Guard(r) == INSTANCE GuardedLoop WITH
  limit <- maximum, history <- own[r], outcome <- Outcome(r)

\* Every run is a guarded loop: no iteration after the history asked to stop,
\* none missing, and an ending that the history explains (run_loop).
RunsAreGuarded ==
  /\ \A r \in Run : Guard(r)!Init
  /\ [][\A r \in Run :
          Guard(r)!Next \/ UNCHANGED <<maximum, own[r], Outcome(r)>>]_vars

\* Every run ends: the guard bounds it whatever the scores, and failures,
\* cancellation, deletion and other runs of the row cannot hold it up.
EveryRunEnds ==
  \A r \in Run : pc[r] \notin {"idle", "ended"} ~> pc[r] = "ended"

\* _finalize: "如果已被取消,不覆盖 cancelled 状态" (it does not overwrite a
\* cancellation), nor does anything else, but where the code looks too early
\* or not at all: a run that had read the row before, one that records its
\* failure, and a new run.
CancelHolds ==
  [][status = "cancelled" =>
       \/ status' \in {"cancelled", "gone"}
       \/ \E r \in Run :
            \/ pc[r] = "commit" /\ seen[r].status # "cancelled" /\ pc'[r] # "commit"
            \/ pc[r] = "failing" /\ pc'[r] # "failing"
            \/ pc[r] = "idle" /\ pc'[r] = "check"]_vars
=============================================================================
