------------------------------- MODULE EventBus -------------------------------
(***************************************************************************)
(* The in-process event bus (server/core/event_bus.py) as one connection   *)
(* of the SSE gateway sees it: one subscriber per pattern it asked for.    *)
(* An event is its seq; log[seq] is its type, and the replay buffer is the *)
(* end of log.  The server builds the bus without sinks (main.py), so      *)
(* publish never suspends: taking a number, buffering and fanning out are  *)
(* one step.  This module has the operations; EventStream composes them.   *)
(***************************************************************************)
EXTENDS Integers, Sequences, FiniteSets, SequencesExt

CONSTANTS
  Type,         \* event types
  PatternLists, \* what the `patterns` parameter may ask for
  Matched,      \* what each pattern matches: [pattern -> set of types]
  QueueMax,     \* _SUBSCRIBER_QUEUE_MAX
  ReplayMax,    \* size of the replay buffer
  MaxEvents     \* bound: events one server process publishes

ASSUME BusAssumption ==
  /\ PatternLists \subseteq Seq(DOMAIN Matched)
  /\ \A l \in PatternLists : IsInjective(l)
  /\ Matched \in [DOMAIN Matched -> SUBSET Type]
  /\ QueueMax \in Nat \ {0} /\ ReplayMax \in Nat \ {0} /\ MaxEvents \in Nat

VARIABLES
  asked,   \* the connection's patterns, in the order they are subscribed
  log,     \* types of the events published so far; _seq is its length
  queue,   \* the queue of each subscriber
  woken,   \* subscribers whose get() has been answered, in wake-up order
  since    \* seq when the subscribers registered, -1 while they are not

bus == <<asked, log, queue, woken, since>>
Pattern == ToSet(asked)
-----------------------------------------------------------------------------
BusInit ==
  /\ asked \in PatternLists
  /\ log = <<>>
  /\ queue = [p \in Pattern |-> <<>>]
  /\ woken = <<>>
  /\ since = -1

Subscribed == since >= 0
Matches(p, n) == log[n] \in Matched[p]
Wanted(n) == \E p \in Pattern : Matches(p, n)
LastN(s, k) == IF Len(s) <= k THEN s ELSE SubSeq(s, Len(s) - k + 1, Len(s))

\* Mutant: a full queue refuses the event.
DeliverNewest(q, n) == IF Len(q) = QueueMax THEN q ELSE Append(q, n)

\* Mutant: the limit is off by one.
DeliverOneLess(q, n) == LastN(Append(q, n), QueueMax - 1)

\* deliver: a full queue loses its oldest event.
Deliver(q, n) == LastN(Append(q, n), QueueMax)

\* A put answers the get() that waits on an empty queue.
Publish(t) ==
  /\ Len(log) < MaxEvents
  /\ log' = Append(log, t)
  /\ LET fans == {p \in Pattern : Subscribed /\ t \in Matched[p]}
         Waiting(p) == p \in fans /\ queue[p] = <<>>
     IN /\ queue' = [p \in Pattern |->
                       IF p \in fans THEN Deliver(queue[p], Len(log) + 1)
                       ELSE queue[p]]
        /\ woken' = woken \o SelectSeq(asked, Waiting)
  /\ UNCHANGED <<asked, since>>

\* The pump tasks run one after the other and register.
Subscribe ==
  /\ ~ Subscribed
  /\ since' = Len(log)
  /\ UNCHANGED <<asked, log, queue, woken>>

\* A woken subscriber takes all it has: get() waits only on an empty queue.
TakeAll(p) ==
  /\ woken # <<>> /\ p = Head(woken)
  /\ woken' = Tail(woken)
  /\ queue' = [queue EXCEPT ![p] = <<>>]
  /\ UNCHANGED <<asked, log, since>>

Unsubscribed ==
  /\ queue' = [p \in Pattern |-> <<>>]
  /\ woken' = <<>>
  /\ since' = -1

\* replay_since, for all patterns of the connection and without duplicates.
ReplaySince(last) ==
  {n \in 1..Len(log) : n > Len(log) - ReplayMax /\ n > last /\ Wanted(n)}
=============================================================================
