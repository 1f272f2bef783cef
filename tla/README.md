# Pangu Nebula: formal models

This directory holds TLA+ models of the concurrent core of Pangu Nebula, the
TLC configurations that check them, and TLAPS proofs about them. Every
definition is translated from the source; `PROJECT.json` ("map") gives the
lines each one stands for.

## The system

Pangu Nebula is a desktop runtime for personas that work through language
models. A Tauri shell (Rust, `src-tauri`) spawns a Python sidecar (FastAPI,
`server`), reads its port and token from its standard output, restarts it when
it dies, and shuts it down on quit. The front end (Preact, `frontend`) calls
the sidecar's HTTP API and keeps one server-sent-events stream open for
everything that happens. In the sidecar, one asyncio event loop runs all
requests and tasks; services keep their state in SQLite through short
SQLAlchemy sessions and publish events on an in-process bus. There are no
locks: what two requests may do to one row is decided by where each opens,
commits and leaves its sessions.

### Inventory

| Part | State | Operations | What is hard |
| --- | --- | --- | --- |
| Swarm orchestration (`services/swarm_orchestrator.py`, `api/swarm.py`, `swarm_service.py`) | swarm rows, worker rows of all of them in one table, one task per worker | create, run (SSE), cancel, update, delete, resize | several streams on one swarm, failing workers, rows deleted under a task and their ids given to another swarm's, clients leaving, stale resize |
| Loop engine (`services/loop_engine.py`, `api/loop.py`) | a loop row (status, iteration, steps) | create, run (SSE), cancel, delete | cancel against finalize, two runs of one row, deletion mid-run, the guard's counters |
| Sidecar supervision (`src-tauri/src/sidecar.rs`, `supervisor.rs`, `lib.rs`) | child, handshake, retry count, shutting_down, processes | spawn, handshake, monitor, restart, graceful shutdown | quit against restart, crashes at any point, failed attempts, requests without a time limit |
| Event bus and stream (`core/event_bus.py`, `api/events.py`, `frontend/src/lib/store.tsx`) | seq, replay buffer, subscriber queues, merged queue, the reader's cursor | publish, subscribe, replay, pump, send, reconnect | replay against subscription, full queues, several patterns, a restarted server |
| Graph executor (`services/graph_executor.py`) | node statuses and outputs, active DAGs | run, interrupt, roll back | interruption between two nodes, conditions over stale outputs, a second run over the first one's remains |
| Linkage coordinator (`services/linkage_coordinator.py`) | failure streaks, links | reacts to bus events, interrupts DAGs | event order, an interrupt racing the end of a DAG |
| CRDT sync (`services/crdt_service.py`, `api/sync.py`) | a log of states per device and type, who has received them | write, add, remove, merge, mark synced | convergence for equal time stamps, load and save in different sessions, states that travel late |
| Keychain and key rotation (`keychain.py`, `key_rotation.py`, `api/security.py`) | master key and its file, data-key rows, the file of encrypted values | store, get, delete, create a key, rotate | a file and a table changed one after the other, two first keys, crashes, a lost master key |
| Scheduler (`scheduler_service.py`, `api/scheduler.py`) | job rows, APScheduler's registrations, execution history | add, update, pause, resume, cancel, remove, trigger, start, stop | row against registration, ids given out again, expressions only APScheduler rejects |
| OAuth (`oauth_service.py`, `token_manager.py`, `api/oauth.py`) | verifiers by state, token rows | authorize, exchange, store, refresh, revoke, delete | the provider spends what is not yet replaced, callbacks sent again |
| Computer use (`cu/executor`, `cu/safety`, `api/cu.py`) | tasks, runs, the stop switch, audit files, steps to undo | create, execute, stop, reset, roll back, expire | threads against the switch, the hash chain, steps done but not recorded |
| Pairing, DAG service, IDMM, heartbeat, AutoWork, memory engines, knowledge base | rows or dictionaries | status changes, retries, compaction, indexing | single-row races; see "Not modelled" |
| Everything else (chat, tools, skills, MCP, channels, guards, media, providers, user interface) | rows or none | CRUD and I/O | little concurrent state; see "Not modelled" |

How the parts meet: the API opens a stream on an orchestrator or engine and
forwards its events; services publish to the bus, the gateway subscribes once
per pattern and merges; the front end reads the stream and, when the shell
reports a new sidecar, talks to a new process whose event numbers start again;
the linkage coordinator subscribes to the bus and calls services back.

### What makes each modelled part correct

* Swarm: rows say what tasks do; the report covers the plan and hides no
  answer; what was announced stays true; a run settles and is announced.
* Loop: the guard bounds every run and stops it exactly when the history says
  so; the row's columns agree; a completed loop has a result; cancelling wins.
* Supervisor: one live sidecar, whose handshake is the published one; crashes
  are repaired within the retry budget; quitting ends and leaves nothing behind.
* Graph: a node begins only on what this run made of its predecessors, and a run
  that says completed has settled every node that no roll-back reset under it.
* Event stream: nothing unseen is discarded, only old events are dropped and
  only at a limit, a live reader catches up.
* CRDT: two devices that exchange states agree; a state does not go back.
* Keychain: a value stays what was stored until it is deleted, whatever is
  rotated; faults lose values but never change one.
* Scheduler: what will fire is the job that the table has, enabled, as it is.
* OAuth: the stored refresh token is the one the provider accepts.
* Computer use: a stop stops, what is undone is what was done, and the audit
  log tells both.

## Modules

| Module | Models | State |
| --- | --- | --- |
| `SwarmOrchestrator` | the swarms, the streams on them, their worker tasks, client requests | per swarm `status`; `worker` (the one table), `resizing` (a resize between its read and its commit), and per stream `swarm`, `pc`, `plan`, `task`, `ballot`, `report`, `published` |
| `SwarmOrchestrator_proofs` | theorems about it | |
| `LoopEngine` | one loop row and the streams on it | the row's columns; per stream `pc`, `inherited`, `own`, `last`, `stagnation`, `seen` (what a session has read), `reason` |
| `LoopEngine_proofs` | theorems about it | |
| `GuardedLoop` | the abstract specification of one run: history of evaluations, limit, outcome | |
| `Supervisor` | the shell's two tasks and the sidecar processes | `SidecarState`, `SupervisorState`, `pc`, `quit`, `proc`, and `faults`, the set of things that may go wrong |
| `EventBus` | the bus as one connection sees it | `log`, `queue`, `woken`, `since`, `asked` |
| `EventStream` | the gateway and the front end's reader; composes `EventBus` | `stage`, `toReplay`, `merged`, `client`, `lastSeq`, `shown`, `ignored`, `split`, `restarted` |
| `GraphExecutor` | one DAG, its runs one after the other, and who acts on it from outside | `edges`, `status` and `output` per node, `checkpoint`, `interrupted`, `run`, `pc`, `order`, `pos`, `failures` (events link 6 has not handled), `undone`, `kept` |
| `GraphExecutor_proofs` | theorems about it | |
| `CrdtSync` | devices that keep, merge and mark a register and a set | `log` (the operation rows of each device), `clock`, `tags`, `request`, `overlapped` |
| `CrdtSync_proofs` | theorems about it | |
| `Keychain` | the keychain, its rotation and the requests on both | `env`, `masterFile`, `readable`, `master`, `keys` (the table), `file`, `request`, `faults` |
| `Keychain_proofs` | theorems about it | |
| `Vault` | the abstract specification: named values | `stored`, `faults` |
| `Scheduler` | the requests, the table and what APScheduler was told | `rows`, `up`, `aps`, `executing`, `history`, `request` |
| `Services_proofs` | theorems about `Scheduler`, `EventStream` and `Supervisor`: three systems, each with variables and an invariant of its own | |
| `OAuth` | the flow, the token table and the providers | `flows`, `verifier`, `codes`, `grants` (the provider's side), `rows`, `request`, `faults` |
| `OAuth_proofs` | theorems about it | |
| `ComputerUse` | tasks, runs and roll-backs under the stop switch | `triggered`, `status`, `manager`, `audit` (write by write), `run`, `undoing`, `faults` |
| `ComputerUse_proofs` | theorems about it | |
| `MC*` | the instances the configurations check | |

Some variables only remember what the properties need to say: `orphan`,
`renewed`, `overlapped`, `crossed`, `neglected`, `made`, `late`, `unread`,
`undone`, `kept`, `shown`, `ignored` and `restarted` guard no action, and `split`
only its own bound.

### How actions correspond to code

**SwarmOrchestrator.** An action is one database session: between two sessions
every other request and task may run. `run_swarm` is `StartRun`,
`DecomposeTask`, `DispatchWorkers`, `MarkRunning`, `LoadWorkers`, `Gather`
(join, second read and `verify_results`), `AggregateResults`,
`PublishCompleted`, `Deliver`; its exception handler is `RecordFailure`,
entered by `DecomposeFails`, `DispatchFails` (also a plan that lacks an id or
whose count is no number), `SwarmGone` and `AggregateFails`; `event_stream`'s
finally block is `CloseStream`. `execute_worker` is `BeginWorker`,
`FinishWorker`, `FailWorker`, and `LoseWorker` when its row is gone;
`StrandWorker` is its failure between the first session and the try block, where
the provider is looked up: the task ends and the row stays "running". A client
leaves with `Disconnect`; the worker tasks go on, as asyncio tasks do when the
generator that waits for them is closed. `verify_results` is translated
operator by operator (`Votes`, `Support`, `Best`, `Majority`, `Verdict`) over
an arbitrary similarity relation `Alike`. Row ids are given out as SQLite gives
them: the largest stored id plus one, so that the id of a deleted last row
returns (`IsLastId`), to a row of whichever swarm; `CreateSwarm` and
`DeleteSwarm` do the same with the ids of swarms. What a session selects by
`swarm_id` is `RowsOf` or `Select`. `resize_workers` is two steps, `ResizeRead`
and `ScaleUp` or `ScaleDown`. `orphan` remembers the tasks whose row was deleted
under them, `renewed` the streams whose swarm was deleted and its id given out
again.

**LoopEngine.** `_persist_progress` and `_finalize` are two steps each, since
the commit is an await after the read: the UPDATE contains the columns whose
value differs from the one the session read (`Written`), and a row deleted in
between raises (`RowLost`). A provider call and the parsing of its answer are
one choice of a score and of `needs_improvement`.

**Supervisor.** The spawning and monitoring task (`pc`) and the shutdown task
(`quit`) interleave at every await and lock. Processes are started, become
ready, crash, hang and exit on their own, as far as `faults` allows. A child
whose state cannot be read counts as exited (`ProbeFails`, `supervisor.rs:88`),
so that a restart may meet a live process; `TakeOldChild` kills it and waits for
it before the spawn, and that kill and wait are taken to work. `KillChild`
includes the shell's exit.

**EventBus, EventStream.** `publish` never suspends without sinks, and the
server installs none, so numbering, buffering and fan-out are one action. The
pump of a pattern is one task, woken by a put on an empty queue; it takes all
there is (`TakeAll`). What is on the wire is lost with the connection exactly
as what is in the merged queue, so sending and reading are one action. The
reader keeps the unfinished line from one read to the next, but not the data it
has seen (`store.tsx:695`): an event whose data line and blank line come in two
reads is dropped, which `ReadEvent` may do to any event (`split`).
`Connect` has both clients: the front end's, which gets nothing replayed, and
one that sends `last_event_id`.

**GraphExecutor.** `run_dag` is an asynchronous generator, so it may be left,
interrupted or overtaken at each `yield` and while a node executes; an action
is what it does between two such points (`Start`, `Sort` or `RejectCycle`, then
per node `SkipInterrupted`, `Skip`, or `Begin` and `Complete` and
`AfterCompleted`, or `Fail` and `AnnounceFailure`; `Finish`, `Stop`).
`Abandon` is the consumer closing the generator: only its finally block runs,
since neither handler catches that exception. `TopologicalSort` is Kahn's
algorithm as recursive functions over the list of edges, checked against the
definition of a topological order. What a node's output is worth is which of
the conditions on its outgoing edges hold. `Interrupt` and `Rollback` look at no
run: they come between runs or in the course of one. `HandleFailure` is link 6 of
the linkage coordinator, at any time after the failure was published. All edges
are between nodes of the DAG (`DAGEdge`); of an edge that names another node the
code finds a cycle (`graph_executor.py:258`), or skips it where it looks at
conditions and predecessors (284-286, 360-361), and that is left out.

**CrdtSync.** Each operation of the service that changes a state is two
actions of one name: `Load` (the session that finds the latest row) and `Save`
(the one that adds a row with the next state); the time stamp is taken in
between. `create_orset` has no first session. What a request merges is any
state another device has ever had (`Received`), since clients carry states as
they like. `MarkSynced` keeps what SQLAlchemy makes of a list that is changed
in place: the session sees no change unless the list was empty.

**Keychain.** The files are read and written without suspending, the table is
not: `store` is `StoreBegins`, `CreateKey` where there is no key, and
`StoreWrites`; `rotate` is `RotateBegins`, `RotateFile` (all values under the
new key) and `RotateCommits` (the key itself); `get` is `GetReads` and
`GetAnswers`. `GetMasterKey` is part of every step that calls
`_get_master_key`, with its cache, the environment, the file, and the new key
that replaces a file that cannot be read. A key is a number, a ciphertext the
number of the key it was made with.

**Scheduler.** A request reads the row, commits, reads it again (`Read`,
`Commit` or `CommitRemoval`, `Refresh`) and ends with what it tells APScheduler
(`AddActs`, `UpdateActs`, ...), which does not suspend. As in the code the
UPDATE has only changed columns, and a row that has gone raises. `Start` is
three steps, and `RegisterAll` stops at the first expression that raises.

**OAuth.** `exchange_code` is `Callback`, then the provider's answer
(`Exchanged`, `ExchangeLost`, `AskingFails`), `StoreToken`, `CleanUp`;
`refresh_token` holds its row through the call (`Load`, `Refreshed` or
`RefreshLost`, `CommitRefresh`). The provider is two external guards,
`Exchange` and `Refresh`: it knows which verifier a code belongs to, and which
version of a grant's refresh token is the last.

**ComputerUse.** A run is a thread: `NextStep` and `Dispatch` are the two looks
at the switch, `Perform` the action and its verification, `ReadLastHash` and
`AppendEntry` the two halves of `log_step`, `UndoRun` the roll-back of a failed
or stopped run, `Report` the request that stores the result. A log is a sequence
of writes, and `prev` says whose hash an entry has as `prev_hash`. A write that
fails may leave half a line (`LogFails`); the next one falls on the same line and
neither can be decoded (`Readable`). Behind such a line, or when the file cannot
be read, `_get_last_hash` answers with the empty hash (`Hash`, `ReadLastHash`).

## Runs

| Run | Instance | What it shows |
| --- | --- | --- |
| `Swarm` | one stream, two subtasks, two answers, plans asking for one or three workers, up to four rows; cancel, delete, create again, disconnect at every point | the report, the announcement and the settling of a run, fair |
| `SwarmShared` | two streams, on one swarm or on two that share the table; resize up and down, deletion, creation, row and swarm ids reused | what rows that run or wait say of the tasks |
| `Loop` | one stream with limits 1, 2 and 5, or two streams with limits 1 and 2; two scores below the threshold and one above; every failure, cancel, delete | `ProgressIsConsistent`, `CompletedHasResult`, `CancelHolds`, refinement of `GuardedLoop`, termination |
| `Supervisor` | five processes, three retries, every subset of eight faults | handshake, one sidecar, repair, quitting |
| `SupervisorOrphan` | the same, quitting during the first spawn | *violated*: `NothingOutlivesTheShell` |
| `Stream` | one pattern, or two that overlap; three event types, queues of two and four, a replay buffer of three, four events, one split over two reads; reconnection and server restart | loss is bounded, order, catching up |
| `Graph` | three nodes, two of them checkpoints, every graph of up to two edges with and without conditions and of three without; two runs, roll-backs between and in them | the sort, inputs of this run, settled completion, checkpoints, termination |
| `Crdt` | three devices, two requests at a time, two values, one element, two time stamps, four operations | exchanged registers agree, states grow |
| `Keychain` | four requests, two names, two values, two faults, with and without a key in the environment | keys stay known, serial use keeps one key, refinement of `Vault` |
| `Scheduler` | four requests, two at a time, two ids, two valid contents and an invalid one | registrations are the table's |
| `OAuth` | four requests, two states, two flows, three grants, one fault | usable tokens, repeatable callbacks |
| `ComputerUse` | one task, two runs, one roll-back, one stop, two faults; plans of three steps or one | stop, audit log, roll-back |

Deadlock checking is off everywhere: streams end, a shell exits, and a bounded
number of events, rows or processes runs out.

### Bounds, and why they are enough

* `Swarm`: four rows hold one subtask with one or three workers and two
  subtasks with two or more rows between them, so that a majority, a tie, an
  exact half, a lone vote and a missing vote all occur. The code's clamp of
  2..5 workers per subtask becomes 1..5 (`MinGroup`) because two subtasks of
  two and three would need six rows; the lone vote then also stands for a
  group in which only one worker completed.
* `SwarmShared`: two rows, two streams and two swarms are what it takes to give
  the id of a deleted row out again, to the same swarm (a resize down and up)
  or to the other (deletion and dispatch), while a task for the old row is still
  there. Answers do not matter to the two properties: a worker finishes with an
  empty one. `MaxIndex` ends the counting up of `worker_index` by repeated
  resizes. `ResizeBesideOne` (a constraint) leaves out the states in which a
  resize is under way while both streams are between their start and their
  verification. States are told apart by `RowsAndTasks` (a view): of a stream
  that has verified, no step reads or writes a row or a task, so that where it
  is from then on, and what it read, reported and published, changes nothing the
  two properties speak of. Streams are symmetric.
* `Loop` has the code's `SCORE_THRESHOLD` 8 and `STAGNATION_LIMIT` 2. Two scores
  below the threshold are what it takes for a better, an equal and a worse one
  after which the run goes on; five iterations, for a stagnation (three scores),
  an improvement that resets the count in the middle, and a limit met neither
  way. Requests of 0 and 9 meet both clamps. `LongRunsAreAlone` keeps the second
  stream to rows of one or two iterations (it inherits one or two steps and
  overwrites them), `MiddleScoresAreAlone` keeps the better score below the
  threshold to states with one stream: two iterations have no stagnation.
* `Supervisor`: `MAX_RESTART_RETRIES` is the code's 3; five processes are one
  more than the retries without a success need. A crash is enabled only while
  a process is left to restart with.
* `Graph`: three nodes and three edges give chains, forks, joins, the triangle
  with a short and a long way to one node, and cycles of two and three; the
  second run meets whatever the first left in the statuses and outputs, and a
  roll-back may fall on each of its yields.
* `Stream`: four events are one more than the replay buffer holds and two more
  than a subscriber's queue; the second pattern list overlaps in one event type,
  whose events enter the merged queue twice, so that it overflows too. One event
  of a server process is split (`MaxSplits`), any of the four: it may be the last.
* `Crdt`: three devices are needed for a state that arrives by two ways; two
  time stamps for earlier, equal and later; four operations for a write, a
  merge, a write over it and a merge back. `MaxOps` counts operations under way.
* `Keychain`: four requests are a store, two rotations or a rotation and a
  second store, and a get between them; two faults are a crash and a spoiled
  file, or the loss of the master key and of the first value after it.
* `Scheduler`: four requests reach add, a change, its opposite, and a second
  job under a reused id, with any two of them overlapping; history of one entry
  overflows at the second. Only one id fires (`MayFire`).
* `OAuth`: two flows may share a state; two refreshes, a deletion and a new
  token under the reused id are the longest story the properties tell apart.
* `ComputerUse`: a plan with a reversible, an irreversible and an unrecorded
  step; overlapping runs have a plan of one step (`LongPlansRunAlone`), enough
  for the forked chain and the shared status. Two faults are a half-written line
  in the first run, whose successor it swallows, and a failed read in the second.

### Fairness

Weak fairness of each stream and each task: asyncio runs every ready task, and
the awaited calls end, since every provider protocol in
`server/providers/protocols` builds its HTTP client with a time limit. Weak
fairness of the shell's two tasks, which Tokio polls; of a process that starts
(unless silence is among the chosen faults) and of one that was asked to exit.
Weak fairness of a DAG's run, whose nodes end or meet `asyncio.wait_for`'s
time limit and whose consumer asks for the next event until it leaves.
Weak fairness of the gateway's tasks and of a client that reads. Nothing is
assumed of clients: no request, cancellation, disconnection, resize, crash or
quit is ever owed. `CrdtSync`, `Keychain`, `Scheduler`, `OAuth` and
`ComputerUse` are checked for safety only and state no fairness.

## What is proved

Every safety property that a passing run checks is stated by a theorem. A
theorem speaks of every value of the constants that the module's named
assumptions admit; where it has a hypothesis of its own, the text says what
goes wrong without it.

**Swarm.** `SwarmOrchestrator_proofs` proves seven theorems, for any number of
swarms and streams, from `SwarmAssumption`, `NoRowAssumption` and
`AlikeAssumption` (a text is like itself). `RowSteps` says what a step may do to
one row and its tasks (nothing, insert, delete, load, work); most lemmas split on
it.

* `TypeCorrect`: `Spec => []TypeOK`.
* `RunningCorrect`: `Spec => []RunningRowsAreExecuted`. The property is not
  inductive: `LoadWorkers` replaces a stream's tasks, and if one of them were
  already generating, its row would be orphaned. The strengthening `RunningInv`
  adds `TasksAwaitLoad`: a stream that has not loaded its workers has no
  tasks. With it, each action keeps the witness of every running row; the
  row-inserting actions need that new rows are pending, which is a lemma about
  `Insert` and the consecutive ids.
* `PendingCorrect`: `Spec => []PendingRowsAreUntouched`, with resizing, deletion
  and reuse of ids. The inductive invariant adds that every task has a row or
  lost its own to a deletion (`TasksHaveRows`): a task that was not orphaned is
  never there when its row's id is given out.
* `CompletedCorrect`: without resizing, `Spec => []CompletedReportCoversPlan`.
  The invariant `PlanInv` follows the plan through the stream: after dispatch
  every planned subtask has a row or the swarm is gone (`RowsCoverPlan`), after
  `Gather` the report has a verdict for each (`ReportCoversPlan`), and
  `AggregateResults` refuses a swarm that is gone; one that is there again under
  the same id is `renewed` (`GoneStays`). Other streams only add rows or delete
  all of a swarm's (`RowsStay`, `OthersSpareAStream`). With resizing it is
  false: a resize may remove every row of a subtask.
* `CompletionAlwaysHolds`: `Spec => AnnouncedCompletionHolds`. A second stream
  may run a swarm that the first one has announced, and set it to running again;
  the property speaks of the times at which none does. `LastInv` says that after
  the announcement a stream only has to close.
* `ConsensusIsAlwaysUnique`: where similarity puts the answers into classes
  (`TextsFallIntoClasses`), `Spec => []ConsensusIsUnique`, for any number of
  streams, resizes and workers. Without the hypothesis it is false (see below).
  `ReportInv` says that the report is the verdict on the rows read;
  `MajorityIsUnique` counts the votes: two disjoint sets of supporters are not
  both more than half.
* `AnswersAreAlwaysCounted`: whatever is similar to what,
  `Spec => []AnswersAreCounted`. The property compares the verdict with the
  tasks, and what is between them is the table: `BallotIsCurrent` says that an
  answered row for which only this stream has a task is still the one the
  verdict is on, since an answer has a task that is done (`AnswersHaveTasks`) and
  a stream loads its workers once. A task of another stream, of an earlier swarm
  too, may begin or answer the row anew; the property leaves such rows out.

The proofs rest on lemmas about finite sets of ids (`FiniteSetHasLargest`),
about the clamp, and about what `Insert` does to old and new rows; each action
has its own step.

**Keychain.** `Keychain_proofs` proves four theorems for every set of requests,
names and values and every number of faults, from `KeychainAssumption` and
`EntryAssumption` (`None` is no entry):

* `CiphertextsAlwaysMatch`: `Spec => []CiphertextsMatch`. Faults or not, an
  entry's ciphertext was made with the data key that the entry names.
* `KeysAreAlwaysKnown`: `Spec => []KeysAreKnown`, which the run `Keychain`
  checks too. It speaks of the entries of the file only and is not inductive: a
  store writes under a key it has held since an earlier action, and a row is
  unwrapped with whatever master key the process has by then. The inductive
  invariant `IInv` adds that a rotation about to commit has the master key in
  the process (`CommitHasMaster`) and, until the first fault, that one master
  key wraps all rows (`OneMaster`), that a key some request holds is a row or
  its own uncommitted one (`HeldKeysAreRows`), and the same of the entries
  (`EntriesHaveKeys`).
* `AlwaysActsAsVault`: `Spec => ActsAsVault`, the refinement of `Vault`, faults
  included. What the file stores under a name is a function of the file, the
  table and the master keys; `Wrappings` is the second as a set of pairs. The
  invariant `TableInv` says that the process's master key is the one it would
  find again, that rows and entries are about keys already made, so that a new
  key (or master key) makes no lost value readable as another, and that the key
  a store or rotation holds is a row's. Each action is then a step of the vault
  (a store, a deletion, a fault) or leaves every value as it is.
* `SerialUseAlwaysKeepsOneKey`: `Spec => []SerialUseKeepsOneKey`. `SerialInv`
  says, as long as no requests overlapped and no fault happened, that a request
  under way is alone and holds the active key, and that every entry is under
  that key or under the one about to replace it.

**Loop.** `LoopEngine_proofs` proves four theorems for every set of streams,
scores and limits, from `LoopAssumption`:

* `RunsAreAlwaysGuarded`: `Spec => RunsAreGuarded`, the refinement: each run,
  whatever the others do to the row, implements `GuardedLoop`. The code keeps
  `last_score` and `stagnation_count`, the abstract specification looks at the
  whole history, and the bridge is `Flat`: of the first n scores the last s
  failed to beat the one before, and no more. While a run goes on (`GoesOn`)
  its counter tells exactly that of the evaluations it has judged, which is one
  less than those it has made between `Work` and `Judge`; hence `Work` is
  `Iterate`, `Judge` and `MaximumReached` are `Finish`, failures and
  cancellation are `Abort`, and all else stutters (`StepsAreGuarded`).
* `CompletedAlwaysHasResult`: `Spec => []CompletedHasResult`. An UPDATE leaves
  out a column that equals what the session has read, so the invariant must say
  (`RowInv`) that what was read was no fuller than the row is now, which holds
  as no step empties the row (`RowGrows`).
* `ProgressIsAlwaysConsistent` (`ProgressIsConsistent`). Every action is done by
  a run that has begun, so that where one run at most has begun it is the one
  that acts. `ProgressInv` says that such a run inherited nothing and that the
  row its session has read is still the row when it commits (`Alone`).
* `CancelAlwaysHolds`: `Spec => CancelHolds`, for any number of runs. A run
  commits a status only after it has read one that was not cancelled
  (`CommitsUncancelled`), hence only a cancellation in that window is lost.

**Supervisor.** `Services_proofs` proves `TypeCorrect` (`TypeOK`),
`HandshakeCorrect` (`HandshakeIsTheChilds`) and `OneSidecar`
(`NoSecondSidecar`) for every number of processes and retries, from
`SupervisorAssumption`. The invariant `SupervisorInv` adds what holds while a
process has been spawned and the slot is still empty (`SlotIsEmpty`,
`HandshakeIsStored`: the two mutexes are filled one after the other), and that,
as long as no live process's handshake fails, a process that is alive is the
child in the slot or the one being started (`AliveIsSupervised`). That it is
never both is the slot, which a restart empties, by killing what is in it,
before it spawns.

**Scheduler.** `Services_proofs` proves `QuietJobsAlwaysAgree`
(`QuietJobsAgree`) and `EnabledJobsAreAlwaysScheduled`
(`EnabledJobsAreScheduled`) for every number of requests and ids, from
`SchedulerAssumption` and `NoneAssumption`. Both follow from `JobsInv`. For an id
on which no requests overlapped, `Sound` says that one request at most is on it
and, while it is, what this request knows (`Holds`): between its sessions the row
is what it last read or wrote, and the registration is the one it found; when
none is, that row and registration agree. The id of a removed row is given out
again, and a start works on all ids at once, so that most lemmas are about how a
step on one id leaves `Sound` of the others alone (`Elsewhere`).

**Event stream.** `Services_proofs` proves two theorems for every list of
patterns, every number of events and every size of the queues, from
`BusAssumption` (a pattern is asked for once) and `StreamAssumption`. Both follow
from `StreamInv`.

* `OnlyDuplicatesAreEverIgnored` (`OnlyDuplicatesAreIgnored`). `InOrder` says that
  for one pattern and one server process what is to be replayed, merged and in
  the queue are each in ascending order, each beyond the one before and beyond
  the reader's cursor. The reader then discards nothing at all: the pumps
  register after the replay buffer was read, so that no event is in both. Its
  filter is needed for several patterns, whose copies it discards.
* `NothingIsEverLostWithinLimits` (`NothingIsLostWithinLimits`), where what is
  split over two reads is the one loss that has nothing to do with limits. A
  queue drops an
  event only when it is full, and `NoMoreThanPublished` says how full they may
  be: a subscriber's queue holds no more than was published since the
  subscription, and the merged queue together with all subscribers' queues no
  more than that once per pattern. The latter counts the occupied places
  (`Slots`), since a pump moves any number of events from one queue to the other.

**CRDT.** `CrdtSync_proofs` proves two theorems for every set of devices,
requests, values and elements, from `CrdtAssumption` and `OpAssumption` (`None`
is no row). The first is `ExchangesAgree` (`Spec => []ExchangeAgrees`).
Two devices that merge each other's register come to the same one since the
order of (timestamp, node) is total on the registers in the logs. For that a
stamp must belong to one value (`StampsAreUnique`), which needs that a device's
clock is ahead of its own stamps on every device (`StampsArePast`), also of those
a request still has in hand (`HeldIsLogged`). It rests on the model's statement
that a device's clock advances between two of its writes.
The second is `StatesAlwaysGrow` (`Spec => []StatesGrow`). Where requests of a
device never overlapped, what a request found is still the newest row of its
type when it saves (`HoldsLatest`); a merge then joins the newest state with
another one, and the log keeps growing (`AppendGrows`).

**OAuth.** `OAuth_proofs` proves two theorems from `OAuthAssumption` and
`RowAssumption` (`None` is no row):

* `CodesAlwaysKeepTheirVerifier` (`CodesKeepTheirVerifier`). The verifier is
  dropped by a request two sessions after the provider took the code;
  `SpentCodesAreGone` carries that fact through the request.
* `TokensAlwaysStayUsable` (`TokensStayUsable`), for any number of requests, rows
  and accounts at a time. The invariant `TokensInv` says of the table that a grant
  belongs to one id or to a row yet to be stored (`GrantsAreSeparate`), and, of
  ids that were not deleted under a request, that a row is there as long as a
  request holds it and has that account's tokens (`HoldersKnowTheRow`), and that
  the token the provider accepts is in the row or in the hands of one request
  only (`OneHasTheUsable`). It holds until the first fault; a lost answer ends it.

**Computer use.** `ComputerUse_proofs` proves three theorems for every set of
tasks, runs, roll-back requests and plans, from `ComputerUseAssumption`:

* `StopsAreHonoured` (`StopIsHonoured`). Inductive with `LateIsCounted`: a run
  that is still about to perform an action has performed none since the stop.
* `FailedRunsAreAlwaysUndone` (`FailedRunsAreUndone`). `StepsAreRecorded` follows
  a reversible step from the moment it succeeds, through the writing of its
  audit entry, into the manager the roll-back uses.
* `AuditAlwaysTellsTheRuns` (`AuditTellsTheRuns`). `RunTells` says that the log has
  a success entry for every step a run has passed, so that a task is completed
  only with all of them; `HalvesAreFaults`, that only a failed write leaves half a
  line, and hence an entry that cannot be read; `OneChain`, that a run that is
  alone on its task has the hash of the last line when it appends (`Links`), if
  that line can be decoded and could be read.

**Graph.** `GraphExecutor_proofs` proves four theorems for every DAG, with any
number of nodes, edges and runs, from `GraphAssumption`:

* `SortIsAlwaysTopological` (`SortIsTopological`) proves Kahn's algorithm as the
  code has it. The sort is written as recursive functions over the list of
  edges; `RecursionExists` shows that such a function exists, `UpTo` is induction
  in the form that the provers can use: over the set of the indices for which
  something holds. `Kahn(state, L)` is the invariant of the algorithm, where L
  are the edges still to be looked at: the degree of a node counts those of L
  that lead to it, and the nodes listed or queued are those with degree 0.
  `RelaxKeepsKahn` takes one edge out of L, `PopTakesOne` all those of a node,
  and `TakenIsOrdered` shows that a node taken has all its predecessors before
  it. At the end either all nodes are listed, or the others form a cyclic set
  (`SortIsCorrect`).
* `FinishedIsAlwaysSettled` (`FinishedMeansSettled`) and
  `InputsAreAlwaysOfThisRun` (`InputsAreOfThisRun`) follow from the invariant
  `VisitedAreSettled`: what the run has passed in its order was skipped or
  completed by it, or the DAG is interrupted, or a roll-back in the course of the
  run has reset it (`undone`) or, in an interrupted run, kept it as the
  checkpoint (`kept`). They need the order: that it lists all nodes (for the
  first) and predecessors before successors (for the second).
* `CheckpointAlwaysKeepsOutput` (`CheckpointKeepsOutput`), for which
  `CompletedIsOfThisRun` bridges the yield between a node's completion and its
  checkpoint, on which a roll-back may fall.

### Only model-checked

Liveness: `EveryRunIsAnnounced`, `SwarmSettles`, `EveryRunEnds`, `CrashesAreRepaired`,
`QuitCompletes`, `RunsEnd` and `LiveStreamCatchesUp`. They need fairness, and so
ENABLED, which the prover does not reason about. All invariants, the action
properties and both refinements are proved. Two of the swarm's are theorems
under a hypothesis (no resize; similarity in classes); the run `Swarm` has no
resize and two unlike answers, so it lies within both.

## Where the code and its text differ

One run is there to be refuted: `SupervisorOrphan`, listed in `PROJECT.json`
("findings") with the sentence it contradicts. What follows was met while
modelling and has no run of its own; the models behave as the code does.

Swarm, supervisor, loop, graph:

* A swarm whose client leaves after taking the last event but before the
  stream sees it end publishes `swarm.failed` after `swarm.completed`
  (`api/swarm.py:89-105`); so does one that lost its client while completing.
* A swarm cancelled while it runs is set to completed by the run
  (`swarm_orchestrator.py:345`): nothing in `run_swarm` looks at the status.
* A worker whose provider is not registered (`swarm_orchestrator.py:220`, outside
  the try block) ends as "worker_failed" while its row says "running" for ever.
* The id of a row that went with a deleted swarm is given to a row of the next
  one (`swarm_models.py:28`, no AUTOINCREMENT). A task of the deleted swarm that
  is still generating then begins, fails or completes that row with its own
  answer, and the other swarm's verification counts it.
* A swarm created while a stream of a deleted one goes on may receive its id: the
  stream then works on the new swarm, sets its status and result, and its report
  lacks the rows that were deleted.
* One completed vote verifies a subtask and lists no dissent, though the other
  workers failed (`swarm_orchestrator.py:270-277`).
* Likeness of answers, `ratio() > 0.7`, is not transitive. Of four answers where
  each is like two others ("01234cdgh", "01234cdef", "01234abef", "01234abgh":
  ratios of 0.78 and 0.56) every one has three of the four votes, its own
  included: each would be a majority, and the order of the rows decides which is
  the consensus and which a dissent (`swarm_orchestrator.py:279-292`).
* `resize_workers` fills every subtask group up to the target, so that a swarm
  of several subtasks exceeds `max_workers`: line 413 says each group is meant,
  the docstring at line 374 speaks of the swarm.
* Workers added by a resize during a run are executed by no one; a resize may
  remove every worker of a subtask, which then drops out of the report.
* A swarm abandoned by its client stays "running", and so does one whose server
  stops during the run (`swarm_orchestrator.py:119`): nothing looks for such
  rows at the next start.
* `resize_workers` deletes the rows it chose from what it read; one that
  completed in between loses its answer (`swarm_orchestrator.py:447`).
* A failed spawn during a restart leaves the child slot empty: the monitor
  takes that for a running child, never retries and never reports
  (`supervisor.rs:93-95`). `CrashesAreRepaired` is stated without that fault.
* The handshake's 60 s are looked at only when a line arrives
  (`sidecar.rs:224-227`).
* A loop reports `threshold_reached` when the evaluation asks for no
  improvement, whatever the score (`loop_engine.py:236`), and sends its done
  event although `_finalize` left a cancelled row alone.
* The comment at `loop_engine.py:643` has a cancelled loop stay cancelled. A
  cancellation that commits between `_finalize`'s read and its commit (640-652)
  is overwritten, and so is one before `_set_status("failed")` (600-606), which
  does not look. `CancelHolds` holds outside exactly these windows.
* The reader reconnects with `last_seq` (`store.tsx:629`, comment at 662); the
  gateway reads `last_event_id` (`events.py:52`): nothing is ever replayed.
* An event that several patterns match enters the merged queue once for each of
  them (`events.py:90-105`), so that with overlapping patterns it is full before
  as many events were published as it holds. The reader discards the copies.
* Between the replay and the registration of the pumps events reach nobody
  (`events.py:66-112`), though the docstring at 57 promises the missed ones.
* An event whose data line and blank line arrive in two reads is dropped
  silently: `currentData` is declared inside the loop over the reads
  (`store.tsx:695`).
* With several patterns the pumps may merge 1, 3, 2 (`events.py:90-105`): the
  reader then discards the second event though it never saw it.
* After a server restart the reader discards events until their numbers pass
  the cursor it kept (`store.tsx:706`), and a body that ends without an error is
  never reconnected (`store.tsx:690`).
* A node that fails ends the run at once: the nodes that follow stay pending,
  though `graph_executor.py:218` says they are interrupted, and the statuses at
  lines 6-9 agree with the comment. Link 6 interrupts the DAG only if it is
  still registered when the event is handled, which may be a later run of the
  same DAG; `interrupted` then stays set until a roll-back, and each run marks
  its nodes interrupted and still ends with `dag_completed`.
* A run resets no status: a node that is skipped keeps the output of an earlier
  run and hands it to its successors' context (`graph_executor.py:366-375`), and
  one whose run was abandoned stays running. Only inputs of completed
  predecessors are claimed to be of this run.
* A skipped predecessor counts as completed (`graph_executor.py:362`) although
  the comment at line 167 says that its successors are skipped.
* A roll-back resets the nodes before the checkpoint too; line 389 says those
  after it, and line 393 calls this a simplification.
* A roll-back does not look whether the DAG runs (`graph_executor.py:382-402`).
  In the course of a run it leaves nodes pending that the run has passed, and
  `dag_completed` follows all the same; on the yield of `node_completed` it takes
  the output of the node that line 207 then makes the checkpoint; and in an
  interrupted run it clears `interrupted` and keeps the checkpoint, so that a
  successor begins on what an earlier run left there.
* Link 4 calls its failures consecutive; `_mcp_fail_streak` counts all, for a
  success resets nothing.

CRDT, keychain, scheduler, OAuth, computer use:

* `merge_lww` saves the merged value under the local device, already marked as
  synced with the device it came from: `list_pending_ops` never offers that
  device a value that won over its own (`orm.py:194` and the service's merge).
* An LWW write at an equal time stamp overwrites, whatever the node: two devices
  that write at one time may each keep the other's value until a merge.
* Removed tags are not remembered: a merge with a replica that has not seen the
  removal brings the element back; `create_orset` empties a set that exists.
* Two requests for one key start from the same state and the later save hides
  the earlier (`crdt_service.py:361`). `mark_synced` changes a JSON list in
  place, which is only saved when the list was empty.
* After the master key is lost, every store and rotation raises, for the active
  row cannot be unwrapped; an unreadable master file is replaced by a new key. A
  crash while `keychain.json` is written loses every value.
* A rotation beside a store or another rotation may leave values under a
  retired key, or two active keys; a get between the rotation's file and its
  commit answers that the data key is lost.
* A resume beside a pause leaves a disabled job registered; a removal beside an
  update, a registration without a row. An update with `enabled` alone registers
  nothing, and an add or update with an expression only APScheduler rejects
  commits its row and answers 400. `start` ends at the first such row, despite
  the comment at `scheduler_service.py:341`.
* `api/oauth.py:168` calls a revocation irreversible; a refresh makes the row
  valid again. A row deleted under a refresh, its id given out again, receives
  the tokens of the other account. An answer that is lost leaves a spent refresh
  token in the row.
* A second execution forgets the first one's steps; two at a time fork the audit
  chain. A half-written line of the audit log swallows the entry after it, and
  the chain begins anew with the empty hash, as it does when the log cannot be
  read once (`audit_log.py:72`). If the half line ends within a character, the
  decoding error is not caught there and every later step of the task fails; the
  model has that as further faults. A half line that lacks the line's end only
  can be decoded until the next entry falls on it; the model takes it for a half.
  A step that fails its verification, or whose entry cannot be written,
  was performed and is not undone. A manual roll-back after the automatic one
  counts the steps again, the end of a run overwrites "rolled_back", and the
  daily clean-up may remove a task that runs.

## Not modelled

Prompts, parsing and formatting (a plan is the set of its subtasks' ids: two
subtasks that a model gives one id share their group of workers); tokens and
budgets counted along the way; the event bus' optional sinks; heartbeats; retries inside a provider call (IDMM);
what the reducer does with an event; how the shell finds its executable. Of the
computer-use tasks, what an action does: `_dispatch_action` and the undo are
stand-ins in the code. Of the keychain, the cryptography: a ciphertext is a pair
of key and value.

Pairing and the DAG service are not modelled for lack of depth: rows or
dictionaries whose operations are one session each. Reading them showed that two
overlapping confirmations pair two peers and the second ends in a `KeyError`,
that a confirmation after a revocation lifts the block, and that overlapping
creations of one DAG duplicate its nodes. The remaining components of
`PROJECT.json` are there with their reason: they are I/O, CRUD over one row,
pure filters over texts, or planned.

## Plan

Done so far: swarm, loop, supervisor, stream, graph, CRDT, keychain, scheduler,
OAuth and computer use, and the proofs of their safety properties. Left, in this
order, each with the proofs of what it promises:

1. The DAG service's approval states around `GraphExecutor`, overlapping runs
   of one DAG, and the other links of the linkage coordinator.
2. Pairing, IDMM's retries, heartbeats, AutoWork; memory compaction and
   incremental indexing.
