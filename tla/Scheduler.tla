------------------------------ MODULE Scheduler ------------------------------
(***************************************************************************)
(* Scheduled jobs (server/services/scheduler_service.py, behind            *)
(* server/api/scheduler.py): rows of a table, and what APScheduler has     *)
(* been told of them.  A request reads the row, commits a change, reads    *)
(* the row again, each a suspension, and then changes the registration     *)
(* without suspending.  APScheduler itself is external: a registered job   *)
(* fires now and then, one execution of a job at a time, and shutting it   *)
(* down cancels the executions it started.                                 *)
(***************************************************************************)
EXTENDS Integers, Sequences, FiniteSets, FiniteSetsExt

CONSTANTS
  Request,     \* requests to /scheduler that may be under way at a time
  MaxRequests, \* bound on requests
  MaxId,       \* bound on row ids
  Content,     \* what a job may be: cron expression and action
  Valid,       \* the contents CronTrigger accepts (_parse_cron only counts
               \* the fields of the expression)
  HistoryMax,  \* _HISTORY_MAX
  MayFire,     \* bound: the ids whose jobs fire or are triggered
  None

ASSUME SchedulerAssumption ==
  /\ MaxRequests \in Nat /\ MaxId \in Nat
  /\ HistoryMax \in Nat \ {0} /\ MayFire \subseteq Nat
  /\ Valid \subseteq Content /\ None \notin Nat

Id == 1..MaxId

VARIABLES
  rows,       \* the scheduler_jobs table
  up,         \* whether there is a running scheduler
  aps,        \* what APScheduler will run under each id
  executing,  \* the executions it has started
  history,    \* _history, the jobs that were executed
  request,    \* where each request is
  left,       \* requests still to come
  made,       \* jobs added so far; it tells a job from an earlier one whose
              \* id it was given
  crossed,    \* ids two requests worked on at a time
  neglected   \* ids enabled but, as the code has it, not registered

ghosts == <<made, crossed, neglected>>
schedulerVars == <<rows, up, aps, executing, history, request, left, ghosts>>

Row == [job : Nat, content : Content, enabled : BOOLEAN]
Registered(row) == [job |-> row.job, content |-> row.content]

\* None is no row, no registration and nothing an update may set.
ASSUME NoneAssumption ==
  /\ None \notin Row /\ None \notin [job : Nat, content : Content]
  /\ None \notin Content /\ None \notin BOOLEAN

Idle == [at |-> "idle"]
Goes(r, next) == request' = [request EXCEPT ![r] = next]
IsAt(r, at) == request[r].at = at
UnderWay(r) == request[r].at # "idle"
Begins(r) == IsAt(r, "idle") /\ left > 0 /\ left' = left - 1
Continues(r, at) == IsAt(r, at) /\ UNCHANGED left
\* The requests that work on an id; a start works on all.
On(id) ==
  {r \in Request : UnderWay(r) /\ (request[r].op = "start" \/ request[r].id = id)}
Crosses(ids) == crossed' = crossed \cup {i \in ids : On(i) # {}}
-----------------------------------------------------------------------------
SchedulerInit ==
  /\ rows = [i \in Id |-> None] /\ up = FALSE
  /\ aps = [i \in Id |-> None] /\ executing = [i \in Id |-> None]
  /\ history = [i \in Id |-> <<>>]
  /\ request = [r \in Request |-> [at |-> "idle"]] /\ left = MaxRequests
  /\ made = 0 /\ crossed = {} /\ neglected = {}

\* _append_history keeps the newest.
AppendHistory(id, job) ==
  LET longer == Append(history[id], job)
  IN history' = [history EXCEPT ![id] =
       SubSeq(longer, IF Len(longer) > HistoryMax THEN 2 ELSE 1, Len(longer))]

\* The id of a deleted last row is given out again (no AUTOINCREMENT).
NewId == 1 + Max({0} \cup {i \in Id : rows[i] # None})

\* add_job commits the new row.
AddJob(r, content, enabled) ==
  LET row == [job |-> made + 1, content |-> content, enabled |-> enabled]
  IN /\ Begins(r) /\ NewId \in Id
     /\ rows' = [rows EXCEPT ![NewId] = row]
     /\ Goes(r, [at |-> "refresh", op |-> "add", id |-> NewId, row |-> row])
     /\ made' = made + 1 /\ Crosses({NewId})
     /\ neglected' = neglected \ {NewId}
     /\ UNCHANGED <<up, aps, executing, history>>

\* The other requests read the row first, and end where there is none;
\* content and enabled are what an update is to set, None to leave alone.
Read(r, op, id, content, enabled) ==
  /\ Begins(r)
  /\ Crosses({id})
  /\ Goes(r, IF rows[id] = None THEN Idle
             ELSE [at |-> IF op = "trigger" THEN "execute" ELSE "commit",
                   op |-> op, id |-> id, row |-> rows[id],
                   content |-> content, enabled |-> enabled])
  /\ UNCHANGED <<rows, up, aps, executing, history, made, neglected>>

UpdateJob(r, id) ==
  \E content \in Content \cup {None}, enabled \in BOOLEAN \cup {None} :
    /\ content # None \/ enabled # None
    /\ Read(r, "update", id, content, enabled)
PauseJob(r, id) == Read(r, "pause", id, None, FALSE)
CancelJob(r, id) == Read(r, "cancel", id, None, FALSE)
ResumeJob(r, id) == Read(r, "resume", id, None, TRUE)
RemoveJob(r, id) == Read(r, "remove", id, None, None)
TriggerJob(r, id) == id \in MayFire /\ Read(r, "trigger", id, None, None)

\* The session writes the columns that differ from what it read; a row that
\* has gone raises.
Commit(r) ==
  LET q == request[r]
      sets(field) == q[field] # None /\ q[field] # q.row[field]
      changed == sets("content") \/ sets("enabled")
  IN /\ Continues(r, "commit") /\ q.op # "remove"
     /\ IF changed /\ rows[q.id] # None
        THEN rows' = [rows EXCEPT
               ![q.id].content = IF sets("content") THEN q.content ELSE @,
               ![q.id].enabled = IF sets("enabled") THEN q.enabled ELSE @]
        ELSE UNCHANGED rows
     /\ Goes(r, IF changed /\ rows[q.id] = None THEN Idle
                ELSE [q EXCEPT !.at = "refresh"])
     /\ UNCHANGED <<up, aps, executing, history, ghosts>>

CommitRemoval(r) ==
  LET q == request[r]
  IN /\ Continues(r, "commit") /\ q.op = "remove"
     /\ rows' = [rows EXCEPT ![q.id] = None]
     /\ Goes(r, [q EXCEPT !.at = "act"])
     /\ UNCHANGED <<up, aps, executing, history, ghosts>>

\* session.refresh: it raises, too, when the row has gone.  What add_job was
\* asked for it does not read again.
Refresh(r) ==
  LET q == request[r]
  IN /\ Continues(r, "refresh")
     /\ Goes(r, IF rows[q.id] = None THEN Idle
                ELSE [q EXCEPT !.at = "act",
                        !.row = IF q.op = "add" THEN @ ELSE rows[q.id]])
     /\ UNCHANGED <<rows, up, aps, executing, history, ghosts>>
-----------------------------------------------------------------------------
(* The last step of a request: what it tells APScheduler. *)

Acts(r, op) ==
  /\ Continues(r, "act") /\ request[r].op = op
  /\ Goes(r, Idle)
  /\ UNCHANGED <<rows, up, executing, made, crossed>>

Unregister(id) ==
  /\ aps' = [aps EXCEPT ![id] = None]
  /\ neglected' = neglected \ {id}

\* _register_apscheduler, after the old registration is removed; CronTrigger
\* may raise.
Register(id, row) ==
  /\ aps' = IF ~up THEN aps
            ELSE [aps EXCEPT ![id] =
                    IF row.content \in Valid THEN Registered(row) ELSE None]
  /\ neglected' = neglected \ {id}

AddActs(r) ==
  LET q == request[r]
  IN /\ Acts(r, "add")
     /\ IF q.row.enabled /\ up /\ q.row.content \in Valid
        THEN Register(q.id, q.row) ELSE UNCHANGED <<aps, neglected>>
     /\ UNCHANGED history

\* An update that only enables a job leaves it unregistered.
UpdateActs(r) ==
  LET q == request[r]
  IN /\ Acts(r, "update")
     /\ IF ~q.row.enabled THEN Unregister(q.id)
        ELSE IF q.content # None THEN Register(q.id, q.row)
        ELSE /\ UNCHANGED aps
             /\ neglected' = IF up /\ aps[q.id] = None
                             THEN neglected \cup {q.id} ELSE neglected
     /\ UNCHANGED history

\* Mutant: pausing changes the row alone.
PauseActsOnRow(r) ==
  /\ Acts(r, "pause")
  /\ UNCHANGED <<aps, neglected, history>>

PauseActs(r) ==
  /\ Acts(r, "pause")
  /\ Unregister(request[r].id)
  /\ UNCHANGED history

CancelActs(r) ==
  /\ Acts(r, "cancel")
  /\ Unregister(request[r].id)
  /\ AppendHistory(request[r].id, request[r].row.job)

\* Mutant: resuming changes the row alone.
ResumeActsOnRow(r) ==
  /\ Acts(r, "resume")
  /\ UNCHANGED <<aps, neglected, history>>

ResumeActs(r) ==
  /\ Acts(r, "resume")
  /\ Register(request[r].id, request[r].row)
  /\ UNCHANGED history

RemoveActs(r) ==
  /\ Acts(r, "remove")
  /\ Unregister(request[r].id)
  /\ history' = [history EXCEPT ![request[r].id] = <<>>]
-----------------------------------------------------------------------------
(* Executions, and the scheduler's own life. *)

TriggerEnds(r) ==
  /\ Continues(r, "execute")
  /\ AppendHistory(request[r].id, request[r].row.job)
  /\ Goes(r, Idle)
  /\ UNCHANGED <<rows, up, aps, executing, ghosts>>

Fire(id) ==
  /\ id \in MayFire /\ up /\ aps[id] # None /\ executing[id] = None
  /\ executing' = [executing EXCEPT ![id] = aps[id].job]
  /\ UNCHANGED <<rows, up, aps, history, request, left, ghosts>>

ExecutionEnds(id) ==
  /\ executing[id] # None
  /\ executing' = [executing EXCEPT ![id] = None]
  /\ AppendHistory(id, executing[id])
  /\ UNCHANGED <<rows, up, aps, request, left, ghosts>>

\* start: a new scheduler, empty at first ...
Start(r) ==
  /\ Begins(r)
  /\ up' = TRUE
  /\ IF up THEN Goes(r, Idle) /\ UNCHANGED crossed
     ELSE Goes(r, [at |-> "reload", op |-> "start"]) /\ Crosses(Id)
  /\ UNCHANGED <<rows, aps, executing, history, made, neglected>>

\* ... _reload_jobs_from_db reads the enabled rows ...
Reload(r) ==
  /\ Continues(r, "reload")
  /\ Goes(r, [at |-> "register", op |-> "start",
              found |-> [i \in Id |-> IF rows[i] # None /\ rows[i].enabled
                                      THEN rows[i] ELSE None]])
  /\ UNCHANGED <<rows, up, aps, executing, history, ghosts>>

\* ... and registers them one by one, up to the first that raises.
RegisterAll(r) ==
  LET found == request[r].found
      reached == {i \in Id : \A j \in 1..i :
                    found[j] = None \/ found[j].content \in Valid}
  IN /\ Continues(r, "register")
     /\ Goes(r, Idle)
     /\ IF up
        THEN /\ aps' = [i \in Id |->
                  IF i \in reached /\ found[i] # None
                  THEN Registered(found[i]) ELSE aps[i]]
             /\ neglected' = neglected \cup
                  {i \in Id \ reached : found[i] # None /\ aps[i] = None}
        ELSE UNCHANGED <<aps, neglected>>
     /\ UNCHANGED <<rows, up, executing, history, made, crossed>>

Stop(r) ==
  /\ Begins(r)
  /\ up' = FALSE /\ aps' = [i \in Id |-> None]
  /\ executing' = [i \in Id |-> None]
  /\ neglected' = {}
  /\ Crosses(Id) /\ Goes(r, Idle)
  /\ UNCHANGED <<rows, history, made>>

SchedulerNext ==
  \/ \E r \in Request :
       \/ \E content \in Content, enabled \in BOOLEAN :
            AddJob(r, content, enabled)
       \/ \E id \in Id :
            \/ UpdateJob(r, id) \/ PauseJob(r, id) \/ CancelJob(r, id)
            \/ ResumeJob(r, id) \/ RemoveJob(r, id) \/ TriggerJob(r, id)
       \/ Commit(r) \/ CommitRemoval(r) \/ Refresh(r)
       \/ AddActs(r) \/ UpdateActs(r) \/ PauseActs(r) \/ CancelActs(r)
       \/ ResumeActs(r) \/ RemoveActs(r) \/ TriggerEnds(r)
       \/ Start(r) \/ Reload(r) \/ RegisterAll(r) \/ Stop(r)
  \/ \E id \in Id : Fire(id) \/ ExecutionEnds(id)

SchedulerSpec == SchedulerInit /\ [][SchedulerNext]_schedulerVars
-----------------------------------------------------------------------------
(* Properties. *)

Quiet(id) == id \notin crossed /\ On(id) = {}

\* What APScheduler will run under an id is the job that has the id, enabled
\* and as it is now, unless requests on it overlapped: no deleted, paused or
\* outdated job fires after any sequence of requests, reuse of ids included.
\* (A resume that overlaps a pause leaves a disabled job registered, one that
\* overlaps a removal a job without a row.)
QuietJobsAgree ==
  \A id \in Id :
    Quiet(id) /\ aps[id] # None =>
      /\ rows[id] # None /\ rows[id].enabled
      /\ aps[id] = Registered(rows[id])

\* While the scheduler runs, an enabled job with a valid expression is
\* registered, but for the two ways in which the code leaves one out: an
\* update that only enables it, and a start that met an invalid one before.
EnabledJobsAreScheduled ==
  \A id \in Id \ neglected :
    up /\ Quiet(id) /\ rows[id] # None =>
      (rows[id].enabled /\ rows[id].content \in Valid => aps[id] # None)
=============================================================================
