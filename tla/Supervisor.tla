----------------------------- MODULE Supervisor -----------------------------
(***************************************************************************)
(* The desktop shell's supervision of the Python sidecar:                  *)
(* spawn_and_wait_ready (src-tauri/src/sidecar.rs), the monitor loop, the  *)
(* restarts and the graceful shutdown (src-tauri/src/supervisor.rs), and   *)
(* the set-up and quit paths that call them (src-tauri/src/lib.rs).        *)
(*                                                                         *)
(* Two tasks of the shell run concurrently: the one that spawns and then   *)
(* monitors (pc), and the one that shuts down (quit).  They share          *)
(* SidecarState and SupervisorState under short mutexes: an action is what *)
(* one task does between two lock acquisitions or awaits.                  *)
(***************************************************************************)
EXTENDS Integers

CONSTANTS
  MaxProc,     \* bound on sidecar processes ever spawned
  MaxRetries,  \* MAX_RESTART_RETRIES
  NoProcess    \* Option::None where a process could be

\* What may go wrong.
Fault == {"spawn",      \* Command::spawn returns an error
          "handshake",  \* a bad line, or one that comes after the 60 s
          "silent",     \* a process that prints nothing more and stays
          "emit",       \* app.emit("sidecar-ready") returns an error
          "probe",      \* try_wait returns an error, whatever the process does
          "stuck",      \* a process that accepts requests and answers none
          "abort",      \* a process that ends before it is ready
          "crash"}      \* a process that ends after that

ASSUME SupervisorAssumption ==
  /\ MaxProc \in Nat \ {0} /\ MaxRetries \in Nat
  /\ NoProcess \notin Nat

Proc == 1..MaxProc

VARIABLES
  faults,        \* which of them may happen in this behaviour
  proc,          \* the state of each process
  spawned,       \* processes spawned so far; also the newest one
  child,         \* SidecarState.child
  handshake,     \* SidecarState.handshake: whose port and token it holds
  retry,         \* SupervisorState.retry_count
  shuttingDown,  \* SupervisorState.shutting_down
  pc,            \* the spawning and monitoring task
  booting,       \* whether that task is still lib.rs' first spawn
  quit           \* the shutdown task

shell == <<faults, child, handshake, retry, shuttingDown>>
vars == <<shell, proc, spawned, pc, booting, quit>>

Alive(p) == proc[p] \in {"starting", "serving", "stuck", "exiting"}
ChildDead == child # NoProcess /\ proc[child] = "dead"
Running == quit # "exited"     \* the shell's own process
-----------------------------------------------------------------------------
Init ==
  /\ faults \in SUBSET Fault
  /\ proc = [p \in Proc |-> "none"]
  /\ spawned = 0
  /\ child = NoProcess /\ handshake = NoProcess
  /\ retry = 0 /\ shuttingDown = FALSE
  /\ pc = "spawn" /\ booting = TRUE
  /\ quit = "no"

\* The task goes from one point to the next; the shell must be running.
At(from, to) == Running /\ pc = from /\ pc' = to

\* spawn_and_wait_ready returns Err.  At boot lib.rs emits sidecar-error and no
\* supervisor is started; in the monitor, restart_with_backoff failed.
SpawnErr == IF booting THEN "error" ELSE "failed"

Spawn ==
  /\ At("spawn", "handshake")
  /\ spawned < MaxProc
  /\ spawned' = spawned + 1
  /\ proc' = [proc EXCEPT ![spawned + 1] = "starting"]
  /\ UNCHANGED <<shell, booting, quit>>

SpawnFails ==
  /\ "spawn" \in faults
  /\ At("spawn", SpawnErr)
  /\ UNCHANGED <<proc, spawned, shell, booting, quit>>

\* parse_handshake returns on READY, though the process may have died since.
HandshakeRead ==
  /\ At("handshake", "store_handshake")
  /\ proc[spawned] \in {"serving", "stuck", "dead"}
  /\ UNCHANGED <<proc, spawned, shell, booting, quit>>

\* stdout closed, a bad value, or a line after the deadline: the local Child
\* is dropped, which leaves a live process behind.  No line, no deadline.
HandshakeFails ==
  /\ At("handshake", SpawnErr)
  /\ \/ proc[spawned] = "aborted"
     \/ "handshake" \in faults /\ proc[spawned] = "starting"
  /\ UNCHANGED <<proc, spawned, shell, booting, quit>>

StoreHandshake ==
  /\ At("store_handshake", "store_child")
  /\ handshake' = spawned
  /\ UNCHANGED <<faults, proc, spawned, child, retry, shuttingDown, booting, quit>>

\* An earlier Child in the slot would be dropped, not killed.
StoreChild ==
  /\ At("store_child", "emit")
  /\ child' = spawned
  /\ UNCHANGED <<faults, proc, spawned, handshake, retry, shuttingDown, booting, quit>>

EmitFails ==
  /\ "emit" \in faults
  /\ At("emit", SpawnErr)
  /\ UNCHANGED <<proc, spawned, shell, booting, quit>>

\* Mutant: a successful restart keeps the charge.
RestartedCharged ==
  /\ At("emit", "top")
  /\ booting' = FALSE
  /\ UNCHANGED <<proc, spawned, shell, quit>>

\* sidecar-ready is out; poll_health_ready's outcome is only logged.  A restart
\* resets the retry count; the first spawn starts the supervisor.
Restarted ==
  /\ At("emit", "top")
  /\ retry' = IF booting THEN retry ELSE 0
  /\ booting' = FALSE
  /\ UNCHANGED <<faults, proc, spawned, child, handshake, shuttingDown, quit>>
-----------------------------------------------------------------------------
(* start_supervisor's loop. *)

LoopTop ==
  /\ At("top", IF shuttingDown THEN "stopped" ELSE "check")
  /\ UNCHANGED <<proc, spawned, shell, booting, quit>>

\* No child, or one still running; the health check changes nothing.
ChildRuns ==
  /\ At("check", "top")
  /\ ~ ChildDead
  /\ UNCHANGED <<proc, spawned, shell, booting, quit>>

\* A child whose state cannot be read counts as one that exited, though it may
\* live.  Like a crash it needs one more process to restart with (MaxProc).
ProbeFails == "probe" \in faults /\ child # NoProcess /\ spawned < MaxProc

\* Mutant: an attempt is charged twice.
ChargeRetryTwice ==
  /\ At("check", IF retry < MaxRetries THEN "backoff" ELSE "failed")
  /\ ChildDead \/ ProbeFails
  /\ retry' = IF retry < MaxRetries THEN retry + 2 ELSE retry
  /\ UNCHANGED <<faults, proc, spawned, child, handshake, shuttingDown, booting, quit>>

\* restart_with_backoff: the budget is charged before the delay.  Its own check
\* of the limit never refuses: the monitor stops at the last failed attempt.
ChargeRetry ==
  /\ At("check", IF retry < MaxRetries THEN "backoff" ELSE "failed")
  /\ ChildDead \/ ProbeFails
  /\ retry' = IF retry < MaxRetries THEN retry + 1 ELSE retry
  /\ UNCHANGED <<faults, proc, spawned, child, handshake, shuttingDown, booting, quit>>

\* Mutant: the old child is killed where it is, not taken.
KillOldChild ==
  /\ At("backoff", "spawn")
  /\ proc' = IF child = NoProcess THEN proc ELSE [proc EXCEPT ![child] = "dead"]
  /\ UNCHANGED <<spawned, shell, booting, quit>>

\* Mutant: the old child is taken and dropped, which leaves it running.
DropOldChild ==
  /\ At("backoff", "spawn")
  /\ child' = NoProcess
  /\ UNCHANGED <<faults, proc, spawned, handshake, retry, shuttingDown, booting, quit>>

\* After the delay: take the old child, kill it (kill and wait are taken to
\* work; the code ignores their errors), and spawn.
TakeOldChild ==
  /\ At("backoff", "spawn")
  /\ proc' = IF child = NoProcess THEN proc ELSE [proc EXCEPT ![child] = "dead"]
  /\ child' = NoProcess
  /\ UNCHANGED <<faults, spawned, handshake, retry, shuttingDown, booting, quit>>

\* The loop goes on below the limit, and emits sidecar-degraded at it.
RestartFailed ==
  /\ At("failed", IF retry >= MaxRetries THEN "degraded" ELSE "top")
  /\ UNCHANGED <<proc, spawned, shell, booting, quit>>

Monitor ==
  \/ Spawn \/ SpawnFails \/ HandshakeRead \/ HandshakeFails
  \/ StoreHandshake \/ StoreChild \/ EmitFails \/ Restarted
  \/ LoopTop \/ ChildRuns \/ ChargeRetry
  \/ TakeOldChild \/ RestartFailed
-----------------------------------------------------------------------------
(* graceful_shutdown, once the tray's Quit has destroyed the window. *)

QuitTo(from, to) == quit = from /\ quit' = to
MonitorSame == UNCHANGED <<pc, booting, spawned>>

UserQuits ==
  /\ QuitTo("no", "marked")
  /\ shuttingDown' = TRUE
  /\ UNCHANGED <<faults, proc, child, handshake, retry>>
  /\ MonitorSame

\* Without a handshake there is nobody to ask.
NobodyToAsk ==
  /\ QuitTo("marked", "kill")
  /\ handshake = NoProcess
  /\ UNCHANGED <<proc, shell>>
  /\ MonitorSame

\* Mutant: a refused connection is retried for ever.
PostShutdownUntilAnswered ==
  /\ QuitTo("marked", "wait")
  /\ handshake # NoProcess
  /\ proc[handshake] = "serving"
  /\ proc' = [proc EXCEPT ![handshake] = "exiting"]
  /\ UNCHANGED shell
  /\ MonitorSame

\* POST /shutdown to the process of the handshake, then the 5 s wait.  A dead
\* one refuses the connection; a stuck one never answers, and the request has
\* no timeout.
PostShutdown ==
  /\ QuitTo("marked", "wait")
  /\ handshake # NoProcess /\ proc[handshake] # "stuck"
  /\ proc' = IF proc[handshake] = "serving"
             THEN [proc EXCEPT ![handshake] = "exiting"] ELSE proc
  /\ UNCHANGED shell
  /\ MonitorSame

Wait ==
  /\ QuitTo("wait", "kill")
  /\ UNCHANGED <<proc, shell>>
  /\ MonitorSame

\* Take the child, kill it unless try_wait says that it ended; then
\* std::process::exit(0).
KillChild ==
  /\ QuitTo("kill", "exited")
  /\ proc' = IF child = NoProcess THEN proc ELSE [proc EXCEPT ![child] = "dead"]
  /\ child' = NoProcess
  /\ UNCHANGED <<faults, handshake, retry, shuttingDown>>
  /\ MonitorSame

Shutdown == NobodyToAsk \/ PostShutdown \/ Wait \/ KillChild
-----------------------------------------------------------------------------
(* The sidecar processes (launch.py). *)

ProcStep(p, from, to) ==
  /\ proc[p] = from
  /\ proc' = [proc EXCEPT ![p] = to]
  /\ UNCHANGED <<spawned, shell, pc, booting, quit>>

PrintsReady(p) == ProcStep(p, "starting", "serving")
Exits(p) == ProcStep(p, "exiting", "dead")

\* A crash needs one more process to restart with (MaxProc).
Aborts(p) == "abort" \in faults /\ ProcStep(p, "starting", "aborted")
Crashes(p) ==
  /\ "crash" \in faults /\ spawned < MaxProc
  /\ \E s \in {"serving", "stuck"} : ProcStep(p, s, "dead")
GetsStuck(p) == "stuck" \in faults /\ ProcStep(p, "serving", "stuck")

Process(p) == PrintsReady(p) \/ Exits(p) \/ Aborts(p) \/ Crashes(p) \/ GetsStuck(p)

Next ==
  \/ Monitor
  \/ UserQuits
  \/ Shutdown
  \/ \E p \in Proc : Process(p)

Spec == Init /\ [][Next]_vars

\* The runtime polls both tasks.  A process that starts prints its lines,
\* unless silence is among the faults; crashes and quitting are never owed.
FairSpec ==
  /\ Spec
  /\ WF_vars(Monitor)
  /\ WF_vars(Shutdown)
  /\ \A p \in Proc : WF_vars("silent" \notin faults /\ PrintsReady(p))
  /\ \A p \in Proc : WF_vars(Exits(p))
-----------------------------------------------------------------------------
(* Properties. *)

ProcState ==
  {"none", "starting", "serving", "stuck", "exiting", "dead", "aborted"}
MonitorPC == {"spawn", "handshake", "store_handshake", "store_child", "emit",
              "top", "check", "backoff", "failed",
              "error", "degraded", "stopped"}

\* Every variable keeps its type; the retries charged never exceed the limit.
TypeOK ==
  /\ faults \subseteq Fault
  /\ proc \in [Proc -> ProcState]
  /\ spawned \in 0..MaxProc
  /\ child \in Proc \cup {NoProcess} /\ handshake \in Proc \cup {NoProcess}
  /\ retry \in 0..MaxRetries
  /\ shuttingDown \in BOOLEAN /\ booting \in BOOLEAN
  /\ pc \in MonitorPC
  /\ quit \in {"no", "marked", "wait", "kill", "exited"}

\* The token and port the front end and POST /shutdown use are those of the
\* child that is supervised, never of the one before it, at any point between
\* the two mutexes of spawn_and_wait_ready.
HandshakeIsTheChilds == child # NoProcess => handshake = child

\* Two sidecars never run on the data at once, though a child is restarted also
\* when it only seems to have ended: restart_with_backoff kills it and waits
\* before it spawns.  The exception is a process dropped alive because its
\* handshake failed.
NoSecondSidecar ==
  "handshake" \notin faults =>
    \A p, q \in Proc : Alive(p) /\ Alive(q) => p = q

\* A crashed sidecar is replaced, or the shell is quitting, as long as a new
\* process starts and becomes ready (the monitor's two-second poll).  If one
\* attempt fails to spawn, the child is gone and the loop sees no dead one: it
\* neither tries again nor reports.
CrashesAreRepaired ==
  (ChildDead /\ faults \subseteq {"crash", "stuck"})
    ~> (child # NoProcess /\ Alive(child)) \/ shuttingDown

\* Quitting ends: no state of the monitor or of the child keeps
\* graceful_shutdown from its exit, except a child that accepts POST /shutdown
\* and never answers it (the request has no timeout).
QuitCompletes ==
  (quit = "marked" /\ "stuck" \notin faults) ~> quit = "exited"
-----------------------------------------------------------------------------
(* What the comments say and the code does not do. *)

\* "If the process is still alive, kill": nothing outlives the shell.
NothingOutlivesTheShell == quit = "exited" =>
  \A p \in Proc : proc[p] \notin {"starting", "serving", "stuck"}
=============================================================================
