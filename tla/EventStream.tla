----------------------------- MODULE EventStream -----------------------------
(***************************************************************************)
(* GET /events/stream (server/api/events.py) between the event bus and a   *)
(* client that behaves like the frontend's store (frontend/src/lib/        *)
(* store.tsx): replay, subscription, the pumps that merge the subscribers' *)
(* queues, and reconnection with the largest seq seen.  What the wire      *)
(* holds is lost with the connection exactly as what `merged` holds is,    *)
(* so sending and reading are one step.  A server stream whose client left *)
(* keeps pumping until it notices; nothing of it can be observed.          *)
(***************************************************************************)
EXTENDS EventBus

CONSTANTS
  MergedMax,    \* size of the merged queue
  MayRestart,   \* whether the server process may be replaced
  MayReconnect, \* whether connections may fail
  MaxSplits     \* bound: events of one server process lost between two reads

ASSUME StreamAssumption ==
  /\ MergedMax \in Nat \ {0}
  /\ MayRestart \in BOOLEAN /\ MayReconnect \in BOOLEAN /\ MaxSplits \in Nat

VARIABLES
  stage,     \* the server's side: "none", "replay", "subscribe" or "live"
  toReplay,  \* events replay_since returned, not yet sent
  merged,    \* merged_queue
  client,    \* "retry" (connecting or backing off), "reading" or "stopped"
  lastSeq,   \* lastSeqRef
  shown,     \* events of this server process dispatched to the reducer
  ignored,   \* events of this server process read and discarded
  split,     \* events of this server process lost between two reads
  restarted  \* whether this is not the client's first server process

gateway == <<stage, toReplay, merged>>
reader == <<client, lastSeq, shown, ignored, split, restarted>>
streamVars == <<bus, gateway, reader>>
-----------------------------------------------------------------------------
StreamInit ==
  /\ BusInit
  /\ stage = "none" /\ toReplay = <<>> /\ merged = <<>>
  /\ client = "retry" /\ lastSeq = 0 /\ shown = {} /\ ignored = {} /\ split = {}
  /\ restarted = FALSE

\* Any service publishes, whatever the stream does.
PublishEvent ==
  /\ \E t \in Type : Publish(t)
  /\ UNCHANGED <<gateway, reader>>

\* Mutant: the newest first.
Descending(S) ==
  CHOOSE s \in [1..Cardinality(S) -> S] :
    \A i, j \in DOMAIN s : i < j => s[i] > s[j]

\* The elements of S, each once, the smallest first.
Ascending(S) ==
  CHOOSE s \in [1..Cardinality(S) -> S] :
    \A i, j \in DOMAIN s : i < j => s[i] < s[j]

\* connectSSE; the gateway computes what to replay before it subscribes.  A
\* client that sends last_event_id has it replayed; the store sends its cursor
\* as last_seq, which the gateway does not read.
Connect ==
  /\ client = "retry"
  /\ client' = "reading"
  /\ stage' = "replay"
  /\ \/ toReplay' = <<>>
     \/ lastSeq > 0 /\ toReplay' = Ascending(ReplaySince(lastSeq))
  /\ UNCHANGED <<bus, merged, lastSeq, shown, ignored, split, restarted>>

\* The reader dispatches an event with a larger seq and discards the others.
\* An event whose data line and blank line come in two reads is dropped: what
\* is kept from one read to the next is the unfinished line, not currentData.
ReadEvent(n) ==
  /\ \/ n > lastSeq /\ lastSeq' = n /\ shown' = shown \cup {n}
        /\ UNCHANGED <<ignored, split>>
     \/ n <= lastSeq /\ ignored' = ignored \cup {n}
        /\ UNCHANGED <<lastSeq, shown, split>>
     \/ Cardinality(split) < MaxSplits /\ split' = split \cup {n}
        /\ UNCHANGED <<lastSeq, shown, ignored>>
  /\ UNCHANGED <<client, restarted>>

SendReplayed ==
  /\ stage = "replay" /\ toReplay # <<>>
  /\ ReadEvent(Head(toReplay))
  /\ toReplay' = Tail(toReplay)
  /\ UNCHANGED <<bus, stage, merged>>

\* The pump tasks are created; they register when the event loop runs them.
ReplayDone ==
  /\ stage = "replay" /\ toReplay = <<>>
  /\ stage' = "subscribe"
  /\ UNCHANGED <<bus, toReplay, merged, reader>>

PumpsRegister ==
  /\ stage = "subscribe"
  /\ Subscribe
  /\ stage' = "live"
  /\ UNCHANGED <<toReplay, merged, reader>>

\* pump_subscription: a full merged queue loses its oldest events.
Pump ==
  /\ stage = "live"
  /\ \E p \in Pattern :
       /\ TakeAll(p)
       /\ merged' = LastN(merged \o queue[p], MergedMax)
  /\ UNCHANGED <<stage, toReplay, reader>>

SendLive ==
  /\ stage = "live" /\ merged # <<>>
  /\ ReadEvent(Head(merged))
  /\ merged' = Tail(merged)
  /\ UNCHANGED <<bus, stage, toReplay>>

StreamGone == stage' = "none" /\ toReplay' = <<>> /\ merged' = <<>>

\* The reader's fetch fails: it backs off and connects again.
ConnectionFails ==
  /\ MayReconnect
  /\ client = "reading"
  /\ client' = "retry"
  /\ Unsubscribed /\ StreamGone
  /\ UNCHANGED <<asked, log, lastSeq, shown, ignored, split, restarted>>

\* The server process is replaced (src-tauri/src/supervisor.rs): numbering
\* starts again.  A reader whose fetch fails connects again; one whose body
\* simply ends leaves its loop and never does.
Restart ==
  /\ MayRestart /\ log # <<>>
  /\ log' = <<>>
  /\ Unsubscribed /\ StreamGone
  /\ \/ client # "stopped" /\ client' = "retry"
     \/ client # "retry" /\ client' = "stopped"
  /\ shown' = {} /\ ignored' = {} /\ split' = {}
  /\ restarted' = TRUE
  /\ UNCHANGED <<asked, lastSeq>>

Serve == SendReplayed \/ ReplayDone \/ PumpsRegister \/ Pump \/ SendLive

StreamNext == PublishEvent \/ Connect \/ Serve \/ ConnectionFails \/ Restart

StreamSpec == StreamInit /\ [][StreamNext]_streamVars

\* The event loop runs the tasks that are ready and the client reads.
FairStreamSpec == StreamSpec /\ WF_streamVars(Serve) /\ WF_streamVars(Connect)
-----------------------------------------------------------------------------
(* Properties. *)

Event == 1..Len(log)

\* What the client has or will be sent.
Arriving ==
  ToSet(toReplay) \cup ToSet(merged) \cup UNION {ToSet(queue[p]) : p \in Pattern}
Known == shown \cup ignored \cup Arriving

\* The reader's seq filter discards only what it has already dispatched: with
\* one pattern (the frontend's own stream) replay, queues and overflow deliver
\* in the order of seq (store.tsx, "seq dedup"; event_bus.py, publish).  Not so
\* after the server process was replaced: its numbers start again below
\* lastSeqRef, and the reader discards them.
OnlyDuplicatesAreIgnored ==
  Len(asked) = 1 /\ ~ restarted => ignored \subseteq shown

\* Between registration and the limits of the queues the server loses nothing,
\* and the reader only what two reads split (store.tsx, currentData).  An event
\* that several patterns match enters the merged queue once for each of them
\* (events.py, pump), so that queue is full the sooner.
NothingIsLostWithinLimits ==
  /\ Subscribed
  /\ Len(log) - since <= QueueMax
  /\ Len(asked) * (Len(log) - since) <= MergedMax
  => \A n \in since + 1..Len(log) : Wanted(n) => n \in Known \cup split

\* A live stream catches up: the client gets as far as any wanted event
\* published while it is subscribed, or loses the connection; or that event or a
\* later one was split by two reads.
LiveStreamCatchesUp ==
  \A n \in 1..MaxEvents :
    stage = "live" /\ n = Len(log) /\ n > since /\ Wanted(n)
      ~> lastSeq >= n \/ (\E m \in split : m >= n) \/ stage # "live"
=============================================================================
