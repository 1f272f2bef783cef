-------------------------- MODULE Services_proofs --------------------------
(***************************************************************************)
(* Theorems about three services that run on their own beside the          *)
(* requests; each is a system by itself, with its own variables.           *)
(*                                                                         *)
(* Scheduler, for every number of requests, ids, contents and executions:  *)
(* what APScheduler was told of a job on which requests did not overlap is *)
(* what the table has.                                                     *)
(*                                                                         *)
(* EventStream, for every list of patterns, number of events and queue     *)
(* size: within the limits of the queues nothing is lost, and a client     *)
(* with one pattern discards nothing new.                                  *)
(*                                                                         *)
(* Supervisor, for every number of processes and retries: its variables    *)
(* keep their types, the published handshake is the child's, and no second *)
(* sidecar lives beside the supervised one.                                *)
(***************************************************************************)
EXTENDS Scheduler, EventStream, Supervisor, FiniteSetTheorems,
        WellFoundedInduction, TLAPS

-----------------------------------------------------------------------------
(* The scheduler. *)

Entry == [job : Nat, content : Content]
Table == [Id -> Row \cup {None}]

\* Where a request may be, and what it holds there.
Change == {"update", "pause", "cancel", "resume"}
Adding == [at : {"refresh", "act"}, op : {"add"}, id : Id, row : Row]
Changing ==
  [at : {"commit", "refresh", "act"}, op : Change, id : Id, row : Row,
   content : Content \cup {None}, enabled : BOOLEAN \cup {None}]
Removing ==
  [at : {"commit", "act"}, op : {"remove"}, id : Id, row : Row,
   content : {None}, enabled : {None}]
Triggering ==
  [at : {"execute"}, op : {"trigger"}, id : Id, row : Row,
   content : {None}, enabled : {None}]
Reloading == [at : {"reload"}, op : {"start"}]
Registering == [at : {"register"}, op : {"start"}, found : Table]
Step ==
  [at : {"idle"}] \cup Adding \cup Changing \cup Removing \cup Triggering
    \cup Reloading \cup Registering

TypeInv ==
  /\ rows \in Table /\ aps \in [Id -> Entry \cup {None}]
  /\ request \in [Request -> Step]
  /\ up \in BOOLEAN /\ made \in Nat

\* Without a scheduler nothing is registered.
DownHasNone == ~up => \A id \in Id : aps[id] = None

\* What the properties say of one id.
Agrees(id) ==
  aps[id] # None =>
    /\ rows[id] # None /\ rows[id].enabled
    /\ aps[id] = Registered(rows[id])
Scheduled(id) ==
  id \notin neglected /\ up /\ rows[id] # None =>
    (rows[id].enabled /\ rows[id].content \in Valid => aps[id] # None)

\* What a request that is alone on an id knows of its row and registration.
StartHolds(r, id) ==
  request[r].op = "start" =>
    /\ up /\ aps[id] = None
    /\ request[r].at = "register" =>
         request[r].found[id] =
           IF rows[id] # None /\ rows[id].enabled THEN rows[id] ELSE None
AddHolds(r, id) ==
  request[r].op = "add" => rows[id] = request[r].row /\ aps[id] = None
ReadHolds(r, id) ==
  request[r].at \in {"commit", "execute"} =>
    /\ rows[id] = request[r].row /\ Agrees(id) /\ Scheduled(id)
    /\ request[r].op \in {"pause", "cancel"} => request[r].enabled = FALSE
    /\ request[r].op = "resume" => request[r].enabled = TRUE
ChangeHolds(r, id) ==
  request[r].at \in {"refresh", "act"} /\ request[r].op \in Change =>
    /\ rows[id] # None
    /\ request[r].at = "act" => request[r].row = rows[id]
    /\ request[r].op \in {"pause", "cancel"} => ~rows[id].enabled
    /\ request[r].op = "resume" => rows[id].enabled
    /\ request[r].content = None /\ aps[id] # None =>
         aps[id] = Registered(rows[id])
RemovalHolds(r, id) ==
  request[r].op = "remove" /\ request[r].at = "act" => rows[id] = None
Holds(r, id) ==
  /\ StartHolds(r, id) /\ AddHolds(r, id) /\ ReadHolds(r, id)
  /\ ChangeHolds(r, id) /\ RemovalHolds(r, id)

\* An id without overlap: one request at most, and it knows; or none, and the
\* registration is the table's.
Sound(id) ==
  id \notin crossed =>
    /\ \A r, s \in On(id) : r = s
    /\ \A r \in On(id) : Holds(r, id)
    /\ On(id) = {} => Agrees(id) /\ Scheduled(id)

\* The inductive invariant.
JobsInv == TypeInv /\ DownHasNone /\ \A id \in Id : Sound(id)
-----------------------------------------------------------------------------
(* Ids. *)

\* A finite set of naturals has a largest element, for of the finite sets
\* without one a smallest would have a smaller below it.
LEMMA LargestExists ==
  ASSUME NEW S \in SUBSET Nat, IsFiniteSet(S), S # {}
  PROVE  \E m \in S : \A n \in S : m >= n
<1> DEFINE Good(T) == \E m \in T : \A n \in T : m >= n
           Bad == {T \in FiniteSubsetsOf(Nat) : T # {} /\ ~Good(T)}
<1>1. SUFFICES ASSUME Bad # {} PROVE FALSE
  BY <1>1 DEF FiniteSubsetsOf
<1>2. Bad \subseteq FiniteSubsetsOf(Nat)
  OBVIOUS
<1>3. PICK T \in Bad : \A U \in Bad : <<U, T>> \notin StrictSubsetOrdering(Nat)
  <2> HIDE DEF Bad
  <2> QED BY <1>1, <1>2, FS_StrictSubsetOrderingWellFounded, WFMin
<1>4. PICK x \in T : TRUE
  OBVIOUS
<1> DEFINE U == T \ {x}
<1>5. T \subseteq Nat /\ x \in Nat /\ U # {}
  <2>1. T \subseteq Nat /\ x \in Nat
    BY <1>4 DEF FiniteSubsetsOf
  <2>2. T # {x}
    BY <2>1
  <2> QED BY <1>4, <2>1, <2>2
<1>6. U \in FiniteSubsetsOf(Nat) /\ <<U, T>> \in StrictSubsetOrdering(Nat)
  <2>1. U \in FiniteSubsetsOf(Nat)
    BY <1>5, FS_RemoveElement DEF FiniteSubsetsOf
  <2> QED BY <1>4, <1>5, <2>1 DEF StrictSubsetOrdering
<1>7. PICK m \in U : \A n \in U : m >= n
  BY <1>3, <1>5, <1>6
<1>8. CASE m >= x
  BY <1>5, <1>7, <1>8
<1>9. CASE ~(m >= x)
  <2>1. \A n \in T : x >= n
    BY <1>4, <1>5, <1>7, <1>9
  <2> QED BY <1>4, <2>1
<1> QED BY <1>8, <1>9

\* The id given to a new row is free.
LEMMA NewIdIsFree ==
  ASSUME NewId \in Id PROVE rows[NewId] = None
<1> DEFINE Taken == {0} \cup {i \in Id : rows[i] # None}
<1>1. Taken \in SUBSET Nat /\ Taken # {}
  BY DEF Id
<1>2. IsFiniteSet(Taken)
  <2>1. IsFiniteSet(Id)
    BY SchedulerAssumption, FS_Interval DEF Id
  <2>2. IsFiniteSet({i \in Id : rows[i] # None})
    BY <2>1, FS_Subset
  <2> QED BY <2>2, FS_AddElement
<1> HIDE DEF Taken
<1>3. \E m \in Taken : \A n \in Taken : m >= n
  BY <1>1, <1>2, LargestExists
<1>4. Max(Taken) \in Taken /\ \A n \in Taken : Max(Taken) >= n
  BY <1>3 DEF Max
<1>5. NewId = 1 + Max(Taken)
  BY DEF NewId, Taken
<1>6. NewId \notin Taken
  <2>1. PICK m : m = Max(Taken)
    OBVIOUS
  <2>2. m \in Nat /\ NewId = 1 + m /\ \A n \in Taken : m >= n
    BY <1>1, <1>4, <1>5, <2>1
  <2> QED BY <1>1, <2>2
<1> QED BY <1>6 DEF Taken

-----------------------------------------------------------------------------
(* One request moves at a time. *)

LEMMA OthersStay ==
  ASSUME TypeInv, NEW r \in Request, NEW next, Goes(r, next), NEW id \in Id
  PROVE  /\ request'[r] = next
         /\ \A s \in Request : s # r => request'[s] = request[s]
         /\ r \in On(id)' <=>
              next.at # "idle" /\ (next.op = "start" \/ next.id = id)
         /\ \A s \in Request : s # r => (s \in On(id)' <=> s \in On(id))
         /\ On(id)' \subseteq Request
<1>1. request'[r] = next
  BY DEF TypeInv, Goes
<1>2. ASSUME NEW s \in Request, s # r PROVE request'[s] = request[s]
  BY <1>2 DEF TypeInv, Goes
<1> QED BY <1>1, <1>2 DEF On, UnderWay

\* An id the request does not work on stays sound.
LEMMA Elsewhere ==
  ASSUME TypeInv, NEW r \in Request, NEW next, Goes(r, next), NEW id \in Id,
         Sound(id), r \notin On(id), r \notin On(id)',
         rows'[id] = rows[id], aps'[id] = aps[id], up' = up,
         crossed \subseteq crossed', id \in neglected => id \in neglected'
  PROVE  Sound(id)'
<1>1. On(id)' = On(id)
  BY OthersStay DEF On
<1>2. \A s \in On(id) : request'[s] = request[s]
  BY OthersStay DEF On
<1>3. Agrees(id) => Agrees(id)'
  BY DEF Agrees
<1>4. Scheduled(id) => Scheduled(id)'
  BY DEF Scheduled
<1>5. ASSUME NEW s \in On(id), Holds(s, id) PROVE Holds(s, id)'
  BY <1>2, <1>3, <1>4, <1>5
     DEF Holds, StartHolds, AddHolds, ReadHolds, ChangeHolds, RemovalHolds
<1> QED BY <1>1, <1>3, <1>4, <1>5 DEF Sound

\* An id that only this request works on.
LEMMA Alone ==
  ASSUME TypeInv, NEW r \in Request, NEW next, Goes(r, next), NEW id \in Id,
         On(id) \subseteq {r},
         r \in On(id)' => Holds(r, id)',
         r \notin On(id)' => Agrees(id)' /\ Scheduled(id)'
  PROVE  Sound(id)'
<1>1. On(id)' \subseteq {r}
  BY OthersStay DEF On
<1>2. r \notin On(id)' => On(id)' = {}
  BY <1>1
<1> QED BY <1>1, <1>2 DEF Sound

\* A request that is on an id nobody crossed is alone there.
LEMMA OnlyOne ==
  ASSUME NEW id, id \notin crossed, Sound(id), NEW r \in On(id)
  PROVE  On(id) \subseteq {r} /\ Holds(r, id)
BY DEF Sound

\* A request that begins crosses the ids others work on.
LEMMA NobodyThere ==
  ASSUME NEW ids, Crosses(ids), NEW id \in ids, id \notin crossed'
  PROVE  On(id) = {} /\ id \notin crossed
BY DEF Crosses

LEMMA CrossedGrows ==
  ASSUME NEW ids, Crosses(ids) PROVE crossed \subseteq crossed'
BY DEF Crosses

LEMMA StepOf ==
  ASSUME TypeInv, NEW r \in Request
  PROVE  /\ request[r] \in Step
         /\ request[r].at = "commit" => request[r] \in Changing \cup Removing
         /\ request[r].at = "execute" => request[r] \in Triggering
         /\ request[r].at = "refresh" => request[r] \in Adding \cup Changing
         /\ request[r].at = "act" =>
              request[r] \in Adding \cup Changing \cup Removing
         /\ request[r].at = "reload" => request[r] \in Reloading
         /\ request[r].at = "register" => request[r] \in Registering
BY DEF TypeInv, Step, Adding, Changing, Removing, Triggering, Reloading,
       Registering
-----------------------------------------------------------------------------
(* The beginnings. *)

LEMMA InitJobsInv == ASSUME SchedulerInit PROVE JobsInv
<1>1. TypeInv
  BY SchedulerAssumption DEF SchedulerInit, TypeInv, Table, Step
<1>2. \A id \in Id : On(id) = {}
  BY DEF SchedulerInit, On, UnderWay
<1>3. \A id \in Id : Agrees(id) /\ Scheduled(id)
  BY DEF SchedulerInit, Agrees, Scheduled
<1> QED BY <1>1, <1>2, <1>3 DEF JobsInv, Sound, SchedulerInit, DownHasNone

LEMMA AddJobKeepsJobsInv ==
  ASSUME JobsInv, NEW r \in Request, NEW content \in Content, NEW enabled \in BOOLEAN,
         AddJob(r, content, enabled)
  PROVE  JobsInv'
<1> DEFINE row == [job |-> made + 1, content |-> content, enabled |-> enabled]
           next(n) == [at |-> "refresh", op |-> "add", id |-> n, row |-> row]
<1>0. PICK n \in Id : n = NewId
  BY DEF AddJob
<1>1. TypeInv /\ IsAt(r, "idle")
  BY DEF JobsInv, AddJob, Begins
<1>2. /\ rows' = [rows EXCEPT ![n] = row] /\ Goes(r, next(n)) /\ made' = made + 1
      /\ Crosses({n}) /\ neglected' = neglected \ {n}
      /\ UNCHANGED <<up, aps>>
  BY <1>0 DEF AddJob
<1>3. row \in Row
  BY <1>1 DEF Row, TypeInv
<1>4. next(n) \in Step
  BY <1>3 DEF Step, Adding
<1>5. rows[n] = None /\ rows'[n] = row
  BY <1>0, <1>1, <1>2, NewIdIsFree DEF TypeInv, Table
<1> HIDE DEF row
<1>6. TypeInv'
  BY <1>1, <1>2, <1>3, <1>4 DEF TypeInv, Table, Goes
<1>7. DownHasNone'
  BY <1>2 DEF JobsInv, DownHasNone
<1>8. ASSUME NEW id \in Id PROVE Sound(id)'
  <2>0. r \notin On(id)
    BY <1>1 DEF On, IsAt, UnderWay
  <2>1. CASE id = n
    <3> SUFFICES ASSUME id \notin crossed' PROVE Sound(id)'
      BY DEF Sound
    <3>1. On(id) = {} /\ id \notin crossed
      BY <1>2, <2>1, NobodyThere
    <3>2. aps[id] = None
      BY <1>5, <2>1, <3>1 DEF JobsInv, Sound, Agrees
    <3>3. request'[r] = next(n) /\ r \in On(id)'
      BY <1>1, <1>2, <2>1, OthersStay
    <3>4. Holds(r, id)'
      BY <1>2, <1>5, <2>1, <3>2, <3>3 DEF Holds, StartHolds, AddHolds, ReadHolds,
         ChangeHolds, RemovalHolds, Change
    <3> QED BY <1>1, <1>2, <3>1, <3>3, <3>4, Alone
  <2>2. CASE id # n
    <3>1. r \notin On(id)'
      BY <1>1, <1>2, <2>2, OthersStay
    <3>2. rows'[id] = rows[id]
      BY <1>1, <1>2, <2>2 DEF TypeInv, Table
    <3> HIDE DEF next
    <3> QED BY <1>1, <1>2, <2>0, <2>2, <3>1, <3>2, CrossedGrows, Elsewhere
            DEF JobsInv
  <2> QED BY <2>1, <2>2
<1> QED BY <1>6, <1>7, <1>8 DEF JobsInv

\* The requests that read a row first.
LEMMA ReadKeepsJobsInv ==
  ASSUME JobsInv, NEW r \in Request, NEW op, NEW id \in Id, NEW content, NEW enabled,
         Read(r, op, id, content, enabled),
         \/ /\ op \in Change
            /\ content \in Content \cup {None} /\ enabled \in BOOLEAN \cup {None}
         \/ op \in {"remove", "trigger"} /\ content = None /\ enabled = None,
         op \in {"pause", "cancel"} => enabled = FALSE,
         op = "resume" => enabled = TRUE
  PROVE  JobsInv'
<1> DEFINE at == IF op = "trigger" THEN "execute" ELSE "commit"
           next == IF rows[id] = None THEN Idle
                   ELSE [at |-> at, op |-> op, id |-> id, row |-> rows[id],
                         content |-> content, enabled |-> enabled]
<1>1. TypeInv /\ IsAt(r, "idle")
  BY DEF JobsInv, Read, Begins
<1>2. Goes(r, next) /\ Crosses({id}) /\ UNCHANGED <<rows, up, aps, made, neglected>>
  BY DEF Read
<1>3. next \in Step
  <2>1. CASE rows[id] = None
    BY <2>1 DEF Step, Idle
  <2>2. CASE rows[id] # None
    <3>1. rows[id] \in Row
      BY <1>1, <2>2 DEF TypeInv, Table
    <3> QED BY <2>2, <3>1 DEF Step, Changing, Removing, Triggering, Change
  <2> QED BY <2>1, <2>2
<1>4. next = Idle \/ (next.id = id /\ next.op # "start")
  BY DEF Change
<1>5. TypeInv'
  BY <1>1, <1>2, <1>3 DEF TypeInv, Goes
<1>6. DownHasNone'
  BY <1>2 DEF JobsInv, DownHasNone
<1>7. ASSUME NEW j \in Id PROVE Sound(j)'
  <2>0. r \notin On(j)
    BY <1>1 DEF On, IsAt, UnderWay
  <2>1. CASE j = id
    <3> SUFFICES ASSUME id \notin crossed' PROVE Sound(id)'
      BY <2>1 DEF Sound
    <3>1. On(id) = {} /\ id \notin crossed
      BY <1>2, NobodyThere
    <3>2. Agrees(id) /\ Scheduled(id)
      BY <3>1 DEF JobsInv, Sound
    <3>3. Agrees(id)' /\ Scheduled(id)'
      BY <1>2, <3>2 DEF Agrees, Scheduled
    <3>4. ASSUME r \in On(id)' PROVE Holds(r, id)'
      <4>1. request'[r] = next /\ next.at # "idle"
        BY <1>1, <1>2, <3>4, OthersStay
      <4>2. rows[id] # None
        BY <4>1 DEF Idle
      <4>3. /\ request'[r].at \in {"commit", "execute"} /\ request'[r].op = op
            /\ request'[r].row = rows[id] /\ request'[r].enabled = enabled
        BY <4>1, <4>2
      <4>4. op \notin {"start", "add"}
        BY DEF Change
      <4> HIDE DEF next
      <4> QED BY <1>2, <3>3, <4>3, <4>4 DEF Holds, StartHolds, AddHolds, ReadHolds,
              ChangeHolds, RemovalHolds
    <3> HIDE DEF next
    <3> QED BY <1>1, <1>2, <3>1, <3>3, <3>4, Alone
  <2>2. CASE j # id
    <3>1. r \notin On(j)'
      BY <1>1, <1>2, <1>4, <2>2, OthersStay DEF Idle
    <3> HIDE DEF next
    <3> QED BY <1>1, <1>2, <2>0, <3>1, CrossedGrows, Elsewhere DEF JobsInv
  <2> QED BY <2>1, <2>2
<1> QED BY <1>5, <1>6, <1>7 DEF JobsInv
-----------------------------------------------------------------------------
(* The sessions that write and read again. *)

\* A step of a request that goes on or ends, on its one id.
LEMMA OwnIdKeepsJobsInv ==
  ASSUME JobsInv, NEW r \in Request, NEW next \in Step, Goes(r, next), NEW id \in Id,
         r \in On(id), request[r].op # "start",
         next = Idle \/ (next.id = id /\ next.op # "start"),
         rows' \in Table, aps' \in [Id -> Entry \cup {None}],
         \A j \in Id \ {id} : rows'[j] = rows[j] /\ aps'[j] = aps[j]
                              /\ (j \in neglected => j \in neglected'),
         UNCHANGED <<up, made, crossed>>, ~up => aps'[id] = None,
         /\ Holds(r, id) /\ id \notin crossed /\ On(id) \subseteq {r}
         => /\ next # Idle => Holds(r, id)'
            /\ next = Idle => Agrees(id)' /\ Scheduled(id)'
  PROVE  JobsInv'
<1>1. TypeInv
  BY DEF JobsInv
<1>2. TypeInv'
  BY <1>1 DEF TypeInv, Goes
<1>3. DownHasNone'
  BY <1>1 DEF JobsInv, DownHasNone
<1>4. request[r].id = id /\ request[r].at # "idle"
  BY DEF On, UnderWay
<1>5. ASSUME NEW j \in Id PROVE Sound(j)'
  <2>1. CASE j = id
    <3> SUFFICES ASSUME id \notin crossed PROVE Sound(id)'
      BY <2>1 DEF Sound
    <3>1. On(id) \subseteq {r} /\ Holds(r, id)
      BY OnlyOne DEF JobsInv
    <3>2. r \in On(id)' => next # Idle
      BY <1>1, OthersStay DEF Idle
    <3>3. r \notin On(id)' => next = Idle
      <4>1. next # Idle => next.at # "idle"
        BY DEF Step, Idle, Adding, Changing, Removing, Triggering, Reloading,
               Registering
      <4> QED BY <1>1, <4>1, OthersStay
    <3> QED BY <1>1, <3>1, <3>2, <3>3, Alone
  <2>2. CASE j # id
    <3>1. r \notin On(j)
      BY <1>4, <2>2 DEF On
    <3>2. r \notin On(j)'
      BY <1>1, <2>2, OthersStay DEF Idle
    <3> QED BY <1>1, <2>2, <3>1, <3>2, Elsewhere DEF JobsInv
  <2> QED BY <2>1, <2>2
<1> QED BY <1>2, <1>3, <1>5 DEF JobsInv

\* A request is on the id that its record names.
LEMMA OnItsId ==
  ASSUME TypeInv, NEW r \in Request,
         request[r] \in Adding \cup Changing \cup Removing \cup Triggering
  PROVE  /\ request[r].id \in Id /\ r \in On(request[r].id)
         /\ request[r].op # "start" /\ request[r].row \in Row
BY DEF On, UnderWay, Adding, Changing, Removing, Triggering, Change

LEMMA CommitKeepsJobsInv ==
  ASSUME JobsInv, NEW r \in Request, Commit(r)
  PROVE  JobsInv'
<1>1. TypeInv
  BY DEF JobsInv
<1>2. PICK q : q = request[r]
  OBVIOUS
<1>3. PICK id : id = q.id
  OBVIOUS
<1> DEFINE sets(field) == q[field] # None /\ q[field] # q.row[field]
           changed == sets("content") \/ sets("enabled")
           new == [rows[id] EXCEPT
                     !.content = IF sets("content") THEN q.content ELSE @,
                     !.enabled = IF sets("enabled") THEN q.enabled ELSE @]
           next == IF changed /\ rows[id] = None THEN Idle
                   ELSE [q EXCEPT !.at = "refresh"]
<1>4. /\ q.at = "commit" /\ q \in Changing
  BY <1>1, <1>2, StepOf DEF Commit, Continues, IsAt, Removing
<1>5. id \in Id /\ r \in On(id) /\ q.op # "start" /\ q.row \in Row
  BY <1>1, <1>2, <1>3, <1>4, OnItsId
<1>6. /\ Goes(r, next)
      /\ UNCHANGED <<up, aps, made, crossed, neglected>>
      /\ rows' = IF changed /\ rows[id] # None
                 THEN [rows EXCEPT ![id] = new] ELSE rows
  BY <1>2, <1>3 DEF Commit, ghosts
<1>7. rows[id] # None => new \in Row
  <2> SUFFICES ASSUME rows[id] # None PROVE new \in Row
    OBVIOUS
  <2>1. rows[id] \in Row
    BY <1>1, <1>5 DEF TypeInv, Table
  <2>2. sets("content") => q.content \in Content
    BY <1>4 DEF Changing
  <2>3. sets("enabled") => q.enabled \in BOOLEAN
    BY <1>4 DEF Changing
  <2> HIDE DEF sets
  <2> QED BY <2>1, <2>2, <2>3 DEF Row
<1>8. next \in Step
  BY <1>4 DEF Step, Changing, Idle
<1>9. /\ rows' \in Table /\ \A j \in Id \ {id} : rows'[j] = rows[j]
      /\ rows'[id] = IF changed /\ rows[id] # None THEN new ELSE rows[id]
  <2> HIDE DEF new, changed
  <2> QED BY <1>1, <1>5, <1>6, <1>7 DEF TypeInv, Table
<1>10. /\ aps' \in [Id -> Entry \cup {None}] /\ (~up => aps'[id] = None)
  BY <1>1, <1>5, <1>6 DEF TypeInv, JobsInv, DownHasNone
<1>11. ASSUME Holds(r, id)
       PROVE  next # Idle /\ Holds(r, id)'
  <2>1. /\ rows[id] = q.row /\ Agrees(id)
        /\ q.op \in {"pause", "cancel"} => q.enabled = FALSE
        /\ q.op = "resume" => q.enabled = TRUE
    BY <1>2, <1>4, <1>11 DEF Holds, ReadHolds
  <2>2. rows[id] # None /\ rows[id] \in Row
    BY <1>5, <2>1, NoneAssumption
  <2>3. next = [q EXCEPT !.at = "refresh"] /\ rows'[id] = IF changed THEN new ELSE rows[id]
    BY <1>9, <2>2
  <2>4. /\ request'[r].at = "refresh" /\ request'[r].op = q.op
        /\ request'[r].content = q.content /\ q.op \in Change
    BY <1>1, <1>4, <1>5, <1>6, <2>3, OthersStay DEF Changing
  <2>5. rows'[id] # None
    BY <1>7, <2>2, <2>3, NoneAssumption
  <2>6. q.op \in {"pause", "cancel"} => ~rows'[id].enabled
    BY <2>1, <2>2, <2>3, NoneAssumption DEF Row
  <2>7. q.op = "resume" => rows'[id].enabled
    BY <2>1, <2>2, <2>3, NoneAssumption DEF Row
  <2>8. q.content = None /\ aps'[id] # None => aps'[id] = Registered(rows'[id])
    <3> SUFFICES ASSUME q.content = None, aps'[id] # None
                 PROVE  aps'[id] = Registered(rows'[id])
      OBVIOUS
    <3>1. aps[id] = Registered(rows[id]) /\ aps'[id] = aps[id]
      BY <1>6, <2>1 DEF Agrees
    <3>2. rows'[id].job = rows[id].job /\ rows'[id].content = rows[id].content
      BY <2>2, <2>3 DEF Row
    <3> QED BY <3>1, <3>2 DEF Registered
  <2>9. next # Idle
    BY <1>4, <2>3 DEF Idle, Changing
  <2> HIDE DEF next, new, changed
  <2> QED BY <2>4, <2>5, <2>6, <2>7, <2>8, <2>9 DEF Holds, StartHolds, AddHolds,
          ReadHolds, ChangeHolds, RemovalHolds, Change
<1>12. next = Idle \/ (next.id = id /\ next.op # "start")
  BY <1>3, <1>4, <1>5 DEF Changing
<1>13. request[r].op # "start" /\ Goes(r, next) /\ aps' = aps
  BY <1>2, <1>5, <1>6
<1> HIDE DEF next, new, changed
<1>14. \A j \in Id \ {id} : /\ rows'[j] = rows[j] /\ aps'[j] = aps[j]
                             /\ j \in neglected => j \in neglected'
  BY <1>6, <1>9
<1>15. UNCHANGED <<up, made, crossed>>
  BY <1>6
<1> QED BY <1>5, <1>8, <1>9, <1>10, <1>11, <1>12, <1>13, <1>14, <1>15,
           OwnIdKeepsJobsInv

LEMMA CommitRemovalKeepsJobsInv ==
  ASSUME JobsInv, NEW r \in Request, CommitRemoval(r)
  PROVE  JobsInv'
<1>1. TypeInv
  BY DEF JobsInv
<1>2. PICK q : q = request[r]
  OBVIOUS
<1>3. PICK id : id = q.id
  OBVIOUS
<1>4. q \in Removing /\ q.at = "commit"
  BY <1>1, <1>2, StepOf DEF CommitRemoval, Continues, IsAt, Changing, Change
<1>5. id \in Id /\ r \in On(id) /\ request[r].op # "start"
  BY <1>1, <1>2, <1>3, <1>4, OnItsId
<1> DEFINE next == [q EXCEPT !.at = "act"]
<1>6. /\ Goes(r, next) /\ rows' = [rows EXCEPT ![id] = None]
      /\ UNCHANGED <<up, aps, made, crossed, neglected>>
  BY <1>2, <1>3 DEF CommitRemoval, ghosts
<1>7. /\ next \in Removing /\ next.at = "act" /\ next.id = id
      /\ next.op = "remove"
  BY <1>3, <1>4 DEF Removing
<1>8. rows' \in Table /\ rows'[id] = None /\ \A j \in Id \ {id} : rows'[j] = rows[j]
  BY <1>1, <1>5, <1>6 DEF TypeInv, Table
<1>9. aps' \in [Id -> Entry \cup {None}] /\ (~up => aps'[id] = None)
  BY <1>1, <1>5, <1>6 DEF TypeInv, JobsInv, DownHasNone
<1> HIDE DEF next
<1>10. request'[r] = next
  BY <1>1, <1>5, <1>6, OthersStay
<1>11. Holds(r, id)'
  BY <1>7, <1>8, <1>10 DEF Holds, StartHolds, AddHolds, ReadHolds, ChangeHolds,
     RemovalHolds, Change
<1>12. next \in Step /\ next # Idle
  BY <1>7 DEF Step, Idle
<1>13. \A j \in Id \ {id} : /\ rows'[j] = rows[j] /\ aps'[j] = aps[j]
                             /\ j \in neglected => j \in neglected'
  BY <1>6, <1>8
<1>14. UNCHANGED <<up, made, crossed>>
  BY <1>6
<1> QED BY <1>5, <1>6, <1>7, <1>8, <1>9, <1>11, <1>12, <1>13, <1>14,
           OwnIdKeepsJobsInv

LEMMA RefreshKeepsJobsInv ==
  ASSUME JobsInv, NEW r \in Request, Refresh(r)
  PROVE  JobsInv'
<1>1. TypeInv
  BY DEF JobsInv
<1>2. PICK q : q = request[r]
  OBVIOUS
<1>3. PICK id : id = q.id
  OBVIOUS
<1>4. q \in Adding \cup Changing /\ q.at = "refresh"
  BY <1>1, <1>2, StepOf DEF Refresh, Continues, IsAt
<1>5. id \in Id /\ r \in On(id) /\ request[r].op # "start" /\ q.row \in Row
  BY <1>1, <1>2, <1>3, <1>4, OnItsId
<1> DEFINE acts == [q EXCEPT !.at = "act",
                      !.row = IF q.op = "add" THEN @ ELSE rows[id]]
           next == IF rows[id] = None THEN Idle ELSE acts
<1>6. Goes(r, next) /\ UNCHANGED <<rows, up, aps, made, crossed, neglected>>
  BY <1>2, <1>3 DEF Refresh, ghosts
<1>7. rows[id] # None => acts \in Adding \cup Changing
  BY <1>1, <1>4, <1>5 DEF TypeInv, Table, Adding, Changing
<1>8. /\ acts.at = "act" /\ acts.id = id /\ acts.op = q.op
      /\ acts.row = IF q.op = "add" THEN q.row ELSE rows[id]
      /\ q.op \in Change => acts.content = q.content
  BY <1>3, <1>4 DEF Adding, Changing, Change
<1>9. rows' \in Table /\ aps' \in [Id -> Entry \cup {None}] /\ (~up => aps'[id] = None)
  BY <1>1, <1>5, <1>6 DEF TypeInv, JobsInv, DownHasNone
<1>10. next \in Step /\ (next = Idle \/ (next.id = id /\ next.op # "start"))
  BY <1>2, <1>5, <1>7, <1>8 DEF Step, Idle
<1>11. ASSUME Holds(r, id) PROVE next # Idle /\ Holds(r, id)'
  <2>1. q.op = "add" \/ q.op \in Change
    BY <1>4 DEF Adding, Changing
  <2>2. rows[id] # None
    BY <1>2, <1>4, <1>5, <1>11, <2>1, NoneAssumption
       DEF Holds, AddHolds, ChangeHolds
  <2>3. next = acts
    BY <2>2
  <2> HIDE DEF acts
  <2>4. request'[r] = acts
    BY <1>1, <1>5, <1>6, <2>3, OthersStay
  <2>5. next # Idle
    BY <1>5, <1>8, <2>3 DEF Idle
  <2> QED BY <1>2, <1>4, <1>5, <1>6, <1>8, <1>11, <2>1, <2>2, <2>4, <2>5
          DEF Holds, StartHolds, AddHolds, ReadHolds, ChangeHolds, RemovalHolds,
              Change
<1> HIDE DEF next
<1>12. \A j \in Id \ {id} : /\ rows'[j] = rows[j] /\ aps'[j] = aps[j]
                             /\ j \in neglected => j \in neglected'
  BY <1>6
<1>13. UNCHANGED <<up, made, crossed>>
  BY <1>6
<1> QED BY <1>5, <1>6, <1>9, <1>10, <1>11, <1>12, <1>13, OwnIdKeepsJobsInv
-----------------------------------------------------------------------------
(* What a request tells APScheduler last. *)

LEMMA RegisteredType ==
  ASSUME NEW row \in Row
  PROVE  Registered(row) \in Entry /\ Registered(row) # None
<1>1. Registered(row) \in Entry
  BY DEF Registered, Entry, Row
<1> QED BY <1>1, NoneAssumption DEF Entry

\* A last step leaves `entry` registered under its id.
LEMMA TellKeepsJobsInv ==
  ASSUME JobsInv, NEW r \in Request, NEW op, Acts(r, op), NEW id, id = request[r].id,
         op \in {"add", "remove"} \cup Change,
         NEW entry \in Entry \cup {None}, aps' = [aps EXCEPT ![id] = entry],
         ~up => entry = None,
         \A j \in Id \ {id} : j \in neglected => j \in neglected',
         Holds(r, id) =>
           /\ entry # None => /\ rows[id] # None /\ rows[id].enabled
                              /\ entry = Registered(rows[id])
           /\ /\ up /\ id \notin neglected' /\ rows[id] # None
              /\ rows[id].enabled /\ rows[id].content \in Valid
              => entry # None
  PROVE  JobsInv'
<1>1. TypeInv
  BY DEF JobsInv
<1>2. request[r] \in Adding \cup Changing \cup Removing
  BY <1>1, StepOf DEF Acts, Continues, IsAt
<1>3. id \in Id /\ r \in On(id) /\ request[r].op # "start"
  BY <1>1, <1>2, OnItsId
<1>4. Goes(r, Idle) /\ rows' = rows /\ UNCHANGED <<up, made, crossed>>
  BY DEF Acts
<1>5. /\ aps' \in [Id -> Entry \cup {None}] /\ aps'[id] = entry
      /\ \A j \in Id \ {id} : aps'[j] = aps[j]
  BY <1>1, <1>3 DEF TypeInv
<1>6. ASSUME Holds(r, id) PROVE Agrees(id)' /\ Scheduled(id)'
  BY <1>4, <1>5, <1>6 DEF Agrees, Scheduled
<1>7. \A j \in Id \ {id} : /\ rows'[j] = rows[j] /\ aps'[j] = aps[j]
                            /\ j \in neglected => j \in neglected'
  BY <1>4, <1>5
<1>8. Idle \in Step /\ rows' \in Table /\ (~up => aps'[id] = None)
  BY <1>1, <1>4, <1>5 DEF Step, Idle, TypeInv
<1> QED BY <1>3, <1>4, <1>5, <1>6, <1>7, <1>8, OwnIdKeepsJobsInv

LEMMA SameEntry ==
  ASSUME TypeInv, aps' = aps, NEW id \in Id
  PROVE  aps' = [aps EXCEPT ![id] = aps[id]] /\ aps[id] \in Entry \cup {None}
BY DEF TypeInv

\* Removing a registration is right for a disabled job and for none.
LEMMA UnregisterKeepsJobsInv ==
  ASSUME JobsInv, NEW r \in Request, NEW op, Acts(r, op), NEW id, id = request[r].id,
         op \in {"remove"} \cup Change, Unregister(id),
         Holds(r, id) => rows[id] = None \/ ~rows[id].enabled
  PROVE  JobsInv'
<1>1. aps' = [aps EXCEPT ![id] = None] /\ neglected' = neglected \ {id}
  BY DEF Unregister
<1> QED BY <1>1, TellKeepsJobsInv

\* Registering what the row says is right for an enabled job.
LEMMA RegisterKeepsJobsInv ==
  ASSUME JobsInv, NEW r \in Request, NEW op, Acts(r, op), NEW id, id = request[r].id,
         op \in {"add"} \cup Change, Register(id, request[r].row),
         Holds(r, id) => rows[id] = request[r].row /\ rows[id].enabled
  PROVE  JobsInv'
<1>1. TypeInv
  BY DEF JobsInv
<1>2. request[r] \in Adding \cup Changing \cup Removing
  BY <1>1, StepOf DEF Acts, Continues, IsAt
<1>3. id \in Id /\ request[r].row \in Row
  BY <1>1, <1>2, OnItsId
<1>4. neglected' = neglected \ {id}
  BY DEF Register
<1>5. CASE ~up
  <2>1. aps' = aps /\ aps[id] = None
    BY <1>3, <1>5 DEF Register, JobsInv, DownHasNone
  <2> QED BY <1>1, <1>3, <1>4, <1>5, <2>1, SameEntry, TellKeepsJobsInv
<1>6. CASE up
  <2>1. PICK entry : entry = IF request[r].row.content \in Valid
                             THEN Registered(request[r].row) ELSE None
    OBVIOUS
  <2>2. aps' = [aps EXCEPT ![id] = entry] /\ entry \in Entry \cup {None}
    BY <1>3, <1>6, <2>1, RegisteredType DEF Register
  <2>3. entry # None => entry = Registered(request[r].row)
    BY <2>1
  <2>4. request[r].row.content \in Valid => entry # None
    BY <1>3, <2>1, RegisteredType
  <2>5. rows[id] = request[r].row => rows[id] # None
    BY <1>3, NoneAssumption
  <2> QED BY <1>3, <1>4, <1>6, <2>2, <2>3, <2>4, <2>5, TellKeepsJobsInv
<1> QED BY <1>5, <1>6

LEMMA ActsKeepJobsInv ==
  ASSUME JobsInv, NEW r \in Request,
         \/ AddActs(r) \/ UpdateActs(r) \/ PauseActs(r) \/ CancelActs(r)
         \/ ResumeActs(r) \/ RemoveActs(r)
  PROVE  JobsInv'
<1>1. TypeInv
  BY DEF JobsInv
<1>2. PICK id : id = request[r].id
  OBVIOUS
<1>3. /\ request[r].at = "act"
      /\ request[r] \in Adding \cup Changing \cup Removing
  BY <1>1, StepOf DEF AddActs, UpdateActs, PauseActs, CancelActs, ResumeActs,
     RemoveActs, Acts, Continues, IsAt
<1>4. id \in Id /\ request[r].row \in Row
  BY <1>1, <1>2, <1>3, OnItsId
<1>5. CASE AddActs(r)
  <2>1. Acts(r, "add") /\ request[r].op = "add"
    BY <1>5 DEF AddActs, Acts
  <2>2. Holds(r, id) => rows[id] = request[r].row /\ aps[id] = None
    BY <2>1 DEF Holds, AddHolds
  <2>3. CASE request[r].row.enabled /\ up /\ request[r].row.content \in Valid
    <3>1. Register(id, request[r].row)
      BY <1>2, <1>5, <2>3 DEF AddActs
    <3> QED BY <1>2, <2>1, <2>2, <2>3, <3>1, RegisterKeepsJobsInv
  <2>4. CASE ~(request[r].row.enabled /\ up /\ request[r].row.content \in Valid)
    <3>1. aps' = aps /\ neglected' = neglected
      BY <1>5, <2>4 DEF AddActs
    <3>2. ~up => aps[id] = None
      BY <1>4 DEF JobsInv, DownHasNone
    <3> QED BY <1>1, <1>2, <1>4, <2>1, <2>2, <2>4, <3>1, <3>2, SameEntry,
            TellKeepsJobsInv
  <2> QED BY <2>3, <2>4
<1>6. ASSUME NEW op \in Change, Acts(r, op), Holds(r, id)
      PROVE  /\ rows[id] = request[r].row /\ rows[id] # None
             /\ op \in {"pause", "cancel"} => ~rows[id].enabled
             /\ op = "resume" => rows[id].enabled
             /\ request[r].content = None /\ aps[id] # None =>
                  aps[id] = Registered(rows[id])
  <2>1. request[r].op = op
    BY <1>6 DEF Acts
  <2> QED BY <1>3, <1>6, <2>1 DEF Holds, ChangeHolds
<1>7. CASE UpdateActs(r)
  <2>1. Acts(r, "update") /\ "update" \in Change
    BY <1>7 DEF UpdateActs, Change
  <2>2. CASE ~request[r].row.enabled
    <3>1. Unregister(id)
      BY <1>2, <1>7, <2>2 DEF UpdateActs
    <3> QED BY <1>2, <1>6, <2>1, <2>2, <3>1, UnregisterKeepsJobsInv
  <2>3. CASE request[r].row.enabled /\ request[r].content # None
    <3>1. Register(id, request[r].row)
      BY <1>2, <1>7, <2>3 DEF UpdateActs
    <3> QED BY <1>2, <1>6, <2>1, <2>3, <3>1, RegisterKeepsJobsInv
  <2>4. CASE request[r].row.enabled /\ request[r].content = None
    <3>1. aps' = aps /\ neglected' = IF up /\ aps[id] = None
                                    THEN neglected \cup {id} ELSE neglected
      BY <1>2, <1>7, <2>4 DEF UpdateActs
    <3>2. ~up => aps[id] = None
      BY <1>4 DEF JobsInv, DownHasNone
    <3>3. \A j \in Id \ {id} : j \in neglected => j \in neglected'
      BY <3>1
    <3>4. up /\ id \notin neglected' => aps[id] # None
      BY <3>1
    <3>5. Holds(r, id) /\ aps[id] # None =>
            /\ rows[id] # None /\ rows[id].enabled
            /\ aps[id] = Registered(rows[id])
      BY <1>6, <2>1, <2>4
    <3> QED BY <1>1, <1>2, <1>4, <2>1, <3>1, <3>2, <3>3, <3>4, <3>5, SameEntry,
            TellKeepsJobsInv
  <2> QED BY <2>2, <2>3, <2>4
<1>8. CASE PauseActs(r) \/ CancelActs(r)
  <2>1. PICK op \in {"pause", "cancel"} : Acts(r, op) /\ Unregister(id)
    BY <1>2, <1>8 DEF PauseActs, CancelActs
  <2>2. op \in Change
    BY DEF Change
  <2> QED BY <1>2, <1>6, <2>1, <2>2, UnregisterKeepsJobsInv
<1>9. CASE ResumeActs(r)
  <2>1. Acts(r, "resume") /\ Register(id, request[r].row) /\ "resume" \in Change
    BY <1>2, <1>9 DEF ResumeActs, Change
  <2> QED BY <1>2, <1>6, <2>1, RegisterKeepsJobsInv
<1>10. CASE RemoveActs(r)
  <2>1. Acts(r, "remove") /\ Unregister(id) /\ request[r].op = "remove"
    BY <1>2, <1>10 DEF RemoveActs, Acts
  <2>2. Holds(r, id) => rows[id] = None
    BY <1>3, <2>1 DEF Holds, RemovalHolds
  <2> QED BY <1>2, <2>1, <2>2, UnregisterKeepsJobsInv
<1> QED BY <1>5, <1>7, <1>8, <1>9, <1>10

LEMMA TriggerEndsKeepsJobsInv ==
  ASSUME JobsInv, NEW r \in Request, TriggerEnds(r)
  PROVE  JobsInv'
<1>1. TypeInv
  BY DEF JobsInv
<1>2. PICK id : id = request[r].id
  OBVIOUS
<1>3. request[r] \in Triggering /\ request[r].at = "execute"
  BY <1>1, StepOf DEF TriggerEnds, Continues, IsAt
<1>4. id \in Id /\ r \in On(id) /\ request[r].op # "start"
  BY <1>1, <1>2, <1>3, OnItsId
<1>5. /\ Goes(r, Idle) /\ rows' = rows /\ aps' = aps /\ neglected' = neglected
      /\ UNCHANGED <<up, made, crossed>>
  BY DEF TriggerEnds, ghosts
<1>6. ASSUME Holds(r, id) PROVE Agrees(id)' /\ Scheduled(id)'
  <2>1. Agrees(id) /\ Scheduled(id)
    BY <1>3, <1>6 DEF Holds, ReadHolds
  <2> QED BY <1>5, <2>1 DEF Agrees, Scheduled
<1>7. /\ Idle \in Step /\ rows' \in Table /\ aps' \in [Id -> Entry \cup {None}]
      /\ ~up => aps'[id] = None
  BY <1>1, <1>4, <1>5 DEF Step, Idle, TypeInv, JobsInv, DownHasNone
<1>8. \A j \in Id \ {id} : /\ rows'[j] = rows[j] /\ aps'[j] = aps[j]
                            /\ j \in neglected => j \in neglected'
  BY <1>5
<1> QED BY <1>4, <1>5, <1>6, <1>7, <1>8, OwnIdKeepsJobsInv
-----------------------------------------------------------------------------
(* The scheduler's own life: these requests work on every id. *)

LEMMA StartKeepsJobsInv ==
  ASSUME JobsInv, NEW r \in Request, Start(r)
  PROVE  JobsInv'
<1>1. TypeInv /\ IsAt(r, "idle")
  BY DEF JobsInv, Start, Begins
<1>2. up' = TRUE /\ UNCHANGED <<rows, aps, made, neglected>>
  BY DEF Start
<1>3. DownHasNone'
  BY <1>2 DEF DownHasNone
<1>4. CASE up
  <2>1. Goes(r, Idle) /\ crossed' = crossed /\ up' = up
    BY <1>1, <1>2, <1>4 DEF Start, TypeInv
  <2>2. TypeInv'
    BY <1>1, <1>2, <2>1 DEF TypeInv, Goes, Step, Idle
  <2>3. ASSUME NEW id \in Id PROVE Sound(id)'
    <3>1. r \notin On(id) /\ r \notin On(id)'
      BY <1>1, <2>1, OthersStay DEF On, IsAt, UnderWay, Idle
    <3> QED BY <1>1, <1>2, <2>1, <3>1, Elsewhere DEF JobsInv
  <2> QED BY <1>3, <2>2, <2>3 DEF JobsInv
<1>5. CASE ~up
  <2> DEFINE next == [at |-> "reload", op |-> "start"]
  <2>1. Goes(r, next) /\ Crosses(Id)
    BY <1>5 DEF Start
  <2>2. TypeInv'
    BY <1>1, <1>2, <2>1 DEF TypeInv, Goes, Step, Reloading
  <2>3. ASSUME NEW id \in Id PROVE Sound(id)'
    <3> SUFFICES ASSUME id \notin crossed' PROVE Sound(id)'
      BY DEF Sound
    <3>1. On(id) = {}
      BY <2>1, NobodyThere
    <3>2. request'[r] = next /\ r \in On(id)'
      BY <1>1, <2>1, OthersStay
    <3>3. aps[id] = None
      BY <1>5 DEF JobsInv, DownHasNone
    <3>4. Holds(r, id)'
      BY <1>2, <3>2, <3>3 DEF Holds, StartHolds, AddHolds, ReadHolds,
         ChangeHolds, RemovalHolds
    <3> HIDE DEF next
    <3> QED BY <1>1, <2>1, <3>1, <3>2, <3>4, Alone
  <2> QED BY <1>3, <2>2, <2>3 DEF JobsInv
<1> QED BY <1>4, <1>5

LEMMA ReloadKeepsJobsInv ==
  ASSUME JobsInv, NEW r \in Request, Reload(r)
  PROVE  JobsInv'
<1> DEFINE found == [i \in Id |-> IF rows[i] # None /\ rows[i].enabled
                                 THEN rows[i] ELSE None]
           next == [at |-> "register", op |-> "start", found |-> found]
<1>1. TypeInv /\ request[r] \in Reloading
  BY StepOf DEF JobsInv, Reload, Continues, IsAt
<1>2. Goes(r, next) /\ UNCHANGED <<rows, up, aps, made, crossed, neglected>>
  BY DEF Reload, ghosts
<1>3. found \in Table
  BY <1>1 DEF TypeInv, Table
<1>4. TypeInv'
  <2> HIDE DEF found
  <2>1. next \in Step
    BY <1>3 DEF Step, Registering
  <2> QED BY <1>1, <1>2, <2>1 DEF TypeInv, Goes
<1>5. ASSUME NEW id \in Id PROVE Sound(id)'
  <2> SUFFICES ASSUME id \notin crossed PROVE Sound(id)'
    BY <1>2 DEF Sound
  <2>1. r \in On(id)
    BY <1>1 DEF On, UnderWay, Reloading
  <2>2. On(id) \subseteq {r} /\ Holds(r, id)
    BY <2>1, OnlyOne DEF JobsInv
  <2>3. up /\ aps[id] = None
    BY <1>1, <2>2 DEF Holds, StartHolds, Reloading
  <2>4. request'[r] = next /\ r \in On(id)'
    BY <1>1, <1>2, OthersStay
  <2>5. found[id] = IF rows[id] # None /\ rows[id].enabled THEN rows[id] ELSE None
    OBVIOUS
  <2> HIDE DEF found
  <2>6. Holds(r, id)'
    BY <1>2, <2>3, <2>4, <2>5 DEF Holds, StartHolds, AddHolds, ReadHolds,
       ChangeHolds, RemovalHolds
  <2> HIDE DEF next
  <2> QED BY <1>1, <1>2, <2>2, <2>4, <2>6, Alone
<1>6. DownHasNone'
  BY <1>2 DEF JobsInv, DownHasNone
<1> QED BY <1>4, <1>5, <1>6 DEF JobsInv

LEMMA RegisterAllKeepsJobsInv ==
  ASSUME JobsInv, NEW r \in Request, RegisterAll(r)
  PROVE  JobsInv'
<1>1. PICK found : found = request[r].found
  OBVIOUS
<1>2. TypeInv /\ request[r] \in Registering /\ found \in Table
  BY <1>1, StepOf DEF JobsInv, RegisterAll, Continues, IsAt, Registering
<1> DEFINE reached == {i \in Id : \A j \in 1..i :
                         found[j] = None \/ found[j].content \in Valid}
<1>3. Goes(r, Idle) /\ UNCHANGED <<rows, up, made, crossed>>
  BY DEF RegisterAll
<1>4. CASE up
  <2>1. /\ aps' = [i \in Id |-> IF i \in reached /\ found[i] # None
                                THEN Registered(found[i]) ELSE aps[i]]
        /\ neglected' = neglected \cup
             {i \in Id \ reached : found[i] # None /\ aps[i] = None}
    BY <1>1, <1>4 DEF RegisterAll
  <2> HIDE DEF reached
  <2>2. \A i \in Id : found[i] # None =>
          Registered(found[i]) \in Entry /\ Registered(found[i]) # None
    BY <1>2, RegisteredType DEF Table
  <2>3. TypeInv'
    <3>1. aps' \in [Id -> Entry \cup {None}]
      BY <1>2, <2>1, <2>2 DEF TypeInv
    <3> QED BY <1>2, <1>3, <3>1 DEF TypeInv, Goes, Step, Idle
  <2>4. ASSUME NEW id \in Id PROVE Sound(id)'
    <3> SUFFICES ASSUME id \notin crossed PROVE Sound(id)'
      BY <1>3 DEF Sound
    <3>1. r \in On(id)
      BY <1>2 DEF On, UnderWay, Registering
    <3>2. On(id) \subseteq {r} /\ Holds(r, id)
      BY <3>1, OnlyOne DEF JobsInv
    <3>3. aps[id] = None /\ found[id] =
            IF rows[id] # None /\ rows[id].enabled THEN rows[id] ELSE None
      BY <1>1, <1>2, <3>2 DEF Holds, StartHolds, Registering
    <3>4. aps'[id] = IF id \in reached /\ found[id] # None
                     THEN Registered(found[id]) ELSE None
      BY <2>1, <3>3
    <3>5. Agrees(id)'
      BY <1>3, <3>3, <3>4 DEF Agrees
    <3>6. Scheduled(id)'
      BY <1>3, <2>1, <2>2, <3>3, <3>4 DEF Scheduled
    <3>7. r \notin On(id)'
      BY <1>2, <1>3, OthersStay DEF Idle
    <3> QED BY <1>2, <1>3, <3>2, <3>5, <3>6, <3>7, Alone
  <2>5. DownHasNone'
    BY <1>3, <1>4 DEF DownHasNone
  <2> QED BY <2>3, <2>4, <2>5 DEF JobsInv
<1>5. CASE ~up
  <2>1. aps' = aps /\ neglected' = neglected
    BY <1>5 DEF RegisterAll
  <2>2. TypeInv' /\ DownHasNone'
    BY <1>2, <1>3, <2>1 DEF TypeInv, Goes, Step, Idle, JobsInv, DownHasNone
  <2>3. ASSUME NEW id \in Id, id \notin crossed PROVE FALSE
    <3>1. r \in On(id)
      BY <1>2 DEF On, UnderWay, Registering
    <3>2. Holds(r, id)
      BY <2>3, <3>1, OnlyOne DEF JobsInv
    <3> QED BY <1>2, <1>5, <3>2 DEF Holds, StartHolds, Registering
  <2> QED BY <1>3, <2>2, <2>3 DEF JobsInv, Sound
<1> QED BY <1>4, <1>5

LEMMA StopKeepsJobsInv ==
  ASSUME JobsInv, NEW r \in Request, Stop(r)
  PROVE  JobsInv'
<1>1. TypeInv /\ IsAt(r, "idle")
  BY DEF JobsInv, Stop, Begins
<1>2. /\ up' = FALSE /\ aps' = [i \in Id |-> None] /\ Crosses(Id)
      /\ Goes(r, Idle) /\ UNCHANGED <<rows, made>>
  BY DEF Stop
<1>3. TypeInv' /\ DownHasNone'
  BY <1>1, <1>2 DEF TypeInv, Goes, Step, Idle, DownHasNone
<1>4. ASSUME NEW id \in Id PROVE Sound(id)'
  <2> SUFFICES ASSUME id \notin crossed' PROVE Sound(id)'
    BY DEF Sound
  <2>1. On(id) = {}
    BY <1>2, NobodyThere
  <2>2. r \notin On(id)'
    BY <1>1, <1>2, OthersStay DEF Idle
  <2>3. Agrees(id)' /\ Scheduled(id)'
    BY <1>2 DEF Agrees, Scheduled
  <2> QED BY <1>1, <1>2, <2>1, <2>2, <2>3, Alone
<1> QED BY <1>3, <1>4 DEF JobsInv

\* Executions change neither rows nor registrations nor requests.
LEMMA QuietKeepsJobsInv ==
  ASSUME JobsInv, UNCHANGED <<rows, up, aps, request, made, crossed, neglected>>
  PROVE  JobsInv'
<1>1. \A id : On(id)' = On(id)
  BY DEF On, UnderWay
<1>2. TypeInv' /\ DownHasNone'
  BY DEF JobsInv, TypeInv, DownHasNone
<1>3. ASSUME NEW id \in Id PROVE Sound(id)'
  <2>1. Agrees(id)' = Agrees(id) /\ Scheduled(id)' = Scheduled(id)
    BY DEF Agrees, Scheduled
  <2>2. ASSUME NEW s, Holds(s, id) PROVE Holds(s, id)'
    BY <2>1, <2>2 DEF Holds, StartHolds, AddHolds, ReadHolds, ChangeHolds,
       RemovalHolds
  <2>3. Sound(id)
    BY DEF JobsInv
  <2> QED BY <1>1, <2>1, <2>2, <2>3 DEF Sound
<1> QED BY <1>2, <1>3 DEF JobsInv
-----------------------------------------------------------------------------
LEMMA NextJobsInv == ASSUME JobsInv, [SchedulerNext]_schedulerVars PROVE JobsInv'
<1>1. ASSUME NEW r \in Request, NEW content \in Content, NEW enabled \in BOOLEAN,
             AddJob(r, content, enabled)
      PROVE  JobsInv'
  BY <1>1, AddJobKeepsJobsInv
<1>2. ASSUME NEW r \in Request, NEW id \in Id,
             \/ UpdateJob(r, id) \/ PauseJob(r, id) \/ CancelJob(r, id)
             \/ ResumeJob(r, id) \/ RemoveJob(r, id) \/ TriggerJob(r, id)
      PROVE  JobsInv'
  <2>1. CASE UpdateJob(r, id)
    <3>1. PICK content \in Content \cup {None}, enabled \in BOOLEAN \cup {None} :
            Read(r, "update", id, content, enabled)
      BY <2>1 DEF UpdateJob
    <3> QED BY <3>1, ReadKeepsJobsInv DEF Change
  <2>2. CASE PauseJob(r, id)
    BY <2>2, ReadKeepsJobsInv DEF PauseJob, Change
  <2>3. CASE CancelJob(r, id)
    BY <2>3, ReadKeepsJobsInv DEF CancelJob, Change
  <2>4. CASE ResumeJob(r, id)
    BY <2>4, ReadKeepsJobsInv DEF ResumeJob, Change
  <2>5. CASE RemoveJob(r, id)
    BY <2>5, ReadKeepsJobsInv DEF RemoveJob
  <2>6. CASE TriggerJob(r, id)
    BY <2>6, ReadKeepsJobsInv DEF TriggerJob
  <2> QED BY <1>2, <2>1, <2>2, <2>3, <2>4, <2>5, <2>6
<1>3. ASSUME NEW r \in Request,
             \/ Commit(r) \/ CommitRemoval(r) \/ Refresh(r) \/ TriggerEnds(r)
             \/ Start(r) \/ Reload(r) \/ RegisterAll(r) \/ Stop(r)
      PROVE  JobsInv'
  BY <1>3, CommitKeepsJobsInv, CommitRemovalKeepsJobsInv, RefreshKeepsJobsInv,
     TriggerEndsKeepsJobsInv, StartKeepsJobsInv, ReloadKeepsJobsInv, RegisterAllKeepsJobsInv,
     StopKeepsJobsInv
<1>4. ASSUME NEW r \in Request,
             \/ AddActs(r) \/ UpdateActs(r) \/ PauseActs(r) \/ CancelActs(r)
             \/ ResumeActs(r) \/ RemoveActs(r)
      PROVE  JobsInv'
  BY <1>4, ActsKeepJobsInv
<1>5. ASSUME NEW id \in Id, Fire(id) \/ ExecutionEnds(id) PROVE JobsInv'
  BY <1>5, QuietKeepsJobsInv DEF Fire, ExecutionEnds, ghosts
<1>6. CASE UNCHANGED schedulerVars
  BY <1>6, QuietKeepsJobsInv DEF schedulerVars, ghosts
<1> QED BY <1>1, <1>2, <1>3, <1>4, <1>5, <1>6 DEF SchedulerNext

LEMMA AlwaysJobsInv == SchedulerSpec => []JobsInv
BY InitJobsInv, NextJobsInv, PTL DEF SchedulerSpec

\* A job on which requests did not overlap is registered only as the table has
\* it and only while it is enabled: after any number of requests, starts and
\* stops, no deleted, paused or outdated job fires, also under an id that was
\* given out again.
THEOREM QuietJobsAlwaysAgree == SchedulerSpec => []QuietJobsAgree
<1>1. JobsInv => QuietJobsAgree
  BY DEF JobsInv, Sound, QuietJobsAgree, Quiet, Agrees
<1> QED BY <1>1, AlwaysJobsInv, PTL

\* A job on which requests did not overlap, enabled and with an expression
\* that APScheduler accepts, is registered while there is a scheduler, but for
\* the two ways in which the code leaves one out.
THEOREM EnabledJobsAreAlwaysScheduled == SchedulerSpec => []EnabledJobsAreScheduled
<1>1. JobsInv => EnabledJobsAreScheduled
  BY DEF JobsInv, Sound, EnabledJobsAreScheduled, Quiet, Scheduled
<1> QED BY <1>1, AlwaysJobsInv, PTL
-----------------------------------------------------------------------------
(* The event stream. *)

Rising(s) == \A i, j \in 1..Len(s) : i < j => s[i] < s[j]

\* The places in the queues q of the subscribers P that hold an event.
Slots(P, q) == {slot \in P \X Nat : slot[2] \in 1..Len(q[slot[1]])}

StreamTypes ==
  /\ asked \in PatternLists
  /\ log \in Seq(Type)
  /\ queue \in [Pattern -> Seq(Nat)]
  /\ since \in Int /\ since >= -1 /\ since <= Len(log)
  /\ merged \in Seq(Nat) /\ toReplay \in Seq(Nat) /\ lastSeq \in Nat

\* A connection's events are gone with it, and each stage has its own.
StagesHold ==
  /\ Subscribed <=> stage = "live"
  /\ stage # "live" => merged = <<>> /\ \A p \in Pattern : queue[p] = <<>>
  /\ stage # "replay" => toReplay = <<>>
  /\ client = "retry" => stage = "none"

\* No subscriber, and not all of them together, hold more than was published.
NoMoreThanPublished ==
  Subscribed =>
    /\ \A p \in Pattern : Len(queue[p]) <= Len(log) - since
    /\ Len(merged) + Cardinality(Slots(Pattern, queue)) <= Len(asked) * (Len(log) - since)

\* For one pattern everything is in the order of seq, and beyond what the
\* client has seen.
InOrder ==
  Len(asked) = 1 /\ ~restarted =>
    /\ ignored = {}
    /\ lastSeq <= Len(log)
    /\ Rising(toReplay)
    /\ \A i \in 1..Len(toReplay) : lastSeq < toReplay[i] /\ toReplay[i] <= Len(log)
    /\ Rising(merged)
    /\ \A i \in 1..Len(merged) : lastSeq < merged[i] /\ merged[i] <= Len(log)
    /\ \A p \in Pattern :
         /\ Rising(queue[p])
         /\ \A i \in 1..Len(queue[p]) :
              /\ lastSeq < queue[p][i] /\ queue[p][i] <= Len(log)
              /\ \A j \in 1..Len(merged) : merged[j] < queue[p][i]

\* The inductive invariant.
StreamInv ==
  /\ StreamTypes /\ StagesHold /\ NoMoreThanPublished /\ InOrder
  /\ NothingIsLostWithinLimits
-----------------------------------------------------------------------------
(* Sequences. *)

LEMMA LastNIs ==
  ASSUME NEW S, NEW s \in Seq(S), NEW k \in Nat
  PROVE  /\ LastN(s, k) \in Seq(S)
         /\ Len(LastN(s, k)) = IF Len(s) <= k THEN Len(s) ELSE k
         /\ \A i \in 1..Len(LastN(s, k)) :
              LastN(s, k)[i] = s[i + (Len(s) - Len(LastN(s, k)))]
<1>1. CASE Len(s) <= k
  BY <1>1 DEF LastN
<1>2. CASE ~(Len(s) <= k)
  BY <1>2 DEF LastN
<1> QED BY <1>1, <1>2

LEMMA LastNRises ==
  ASSUME NEW s \in Seq(Nat), NEW k \in Nat, Rising(s)
  PROVE  Rising(LastN(s, k))
<1> DEFINE t == LastN(s, k)  d == Len(s) - Len(t)
<1>1. /\ t \in Seq(Nat) /\ Len(t) <= Len(s)
      /\ \A i \in 1..Len(t) : t[i] = s[i + d]
  BY LastNIs
<1> HIDE DEF t
<1>2. \A i \in 1..Len(t) : i + d \in 1..Len(s)
  BY <1>1
<1>3. SUFFICES ASSUME NEW i \in 1..Len(t), NEW j \in 1..Len(t), i < j
               PROVE  t[i] < t[j]
  BY DEF Rising, t
<1>4. d \in Nat
  BY <1>1
<1> HIDE DEF d
<1>5. /\ i + d \in 1..Len(s) /\ j + d \in 1..Len(s)
      /\ t[i] = s[i + d] /\ t[j] = s[j + d]
  BY <1>1, <1>2 DEF d
<1>6. i + d < j + d
  BY <1>3, <1>4
<1> QED BY <1>5, <1>6 DEF Rising

\* What the end of a sequence holds, the sequence held.
LEMMA LastNHas ==
  ASSUME NEW S, NEW s \in Seq(S), NEW k \in Nat, NEW i \in 1..Len(LastN(s, k))
  PROVE  \E j \in 1..Len(s) : LastN(s, k)[i] = s[j]
<1> DEFINE t == LastN(s, k)  d == Len(s) - Len(t)
<1>1. /\ t \in Seq(S) /\ Len(t) <= Len(s)
      /\ \A n \in 1..Len(t) : t[n] = s[n + d]
  BY LastNIs
<1> HIDE DEF t
<1>2. i + d \in 1..Len(s)
  BY <1>1 DEF t
<1> QED BY <1>1, <1>2 DEF t

LEMMA AscendingExists ==
  ASSUME NEW S \in SUBSET Nat, IsFiniteSet(S)
  PROVE  \E s \in [1..Cardinality(S) -> S] :
           \A i, j \in DOMAIN s : i < j => s[i] < s[j]
<1> DEFINE Good(T) ==
             \E s \in [1..Cardinality(T) -> T] :
               \A i, j \in DOMAIN s : i < j => s[i] < s[j]
           Bad == {T \in FiniteSubsetsOf(Nat) : ~Good(T)}
<1>1. SUFFICES ASSUME Bad # {} PROVE FALSE
  BY <1>1 DEF FiniteSubsetsOf
<1>2. Bad \subseteq FiniteSubsetsOf(Nat)
  OBVIOUS
<1>3. PICK T \in Bad : \A U \in Bad : <<U, T>> \notin StrictSubsetOrdering(Nat)
  <2> HIDE DEF Bad
  <2> QED BY <1>1, <1>2, FS_StrictSubsetOrderingWellFounded, WFMin
<1>4. T \in SUBSET Nat /\ IsFiniteSet(T)
  BY <1>3 DEF FiniteSubsetsOf
<1>5. T # {}
  <2>1. SUFFICES ASSUME T = {} PROVE Good(T)
    BY <1>3
  <2>2. Cardinality(T) = 0
    BY <2>1, FS_EmptySet
  <2> DEFINE s == [i \in 1..Cardinality(T) |-> 0]
  <2>3. s \in [1..Cardinality(T) -> T] /\ DOMAIN s = {}
    BY <2>2
  <2> QED BY <2>3
<1>6. PICK m \in T : \A n \in T : m >= n
  BY <1>4, <1>5, LargestExists
<1> DEFINE U == T \ {m}
<1>7. /\ U \in SUBSET Nat /\ IsFiniteSet(U)
      /\ Cardinality(U) \in Nat /\ Cardinality(T) = Cardinality(U) + 1
  <2>1. IsFiniteSet(U) /\ Cardinality(U) = Cardinality(T) - 1
    BY <1>4, <1>6, FS_RemoveElement
  <2>2. Cardinality(T) \in Nat /\ Cardinality(U) \in Nat
    BY <1>4, <2>1, FS_CardinalityType
  <2> QED BY <1>4, <2>1, <2>2
<1>8. Good(U)
  <2>1. U \in FiniteSubsetsOf(Nat)
    BY <1>7 DEF FiniteSubsetsOf
  <2>2. <<U, T>> \in StrictSubsetOrdering(Nat)
    BY <1>4, <1>6, <1>7 DEF StrictSubsetOrdering
  <2> QED BY <1>3, <2>1, <2>2
<1>9. PICK s \in [1..Cardinality(U) -> U] :
        \A i, j \in DOMAIN s : i < j => s[i] < s[j]
  BY <1>8
<1> DEFINE n == Cardinality(T)
           t == [i \in 1..n |-> IF i = n THEN m ELSE s[i]]
<1>10. \A i \in 1..n : i # n => i \in 1..Cardinality(U)
  BY <1>7
<1>11. t \in [1..n -> T]
  BY <1>6, <1>9, <1>10
<1>12. \A i, j \in DOMAIN t : i < j => t[i] < t[j]
  <2>1. SUFFICES ASSUME NEW i \in 1..n, NEW j \in 1..n, i < j
                 PROVE  t[i] < t[j]
    OBVIOUS
  <2>a. n \in Nat
    BY <1>7
  <2>b. i # n
    BY <2>1, <2>a
  <2>2. i \in 1..Cardinality(U) /\ t[i] = s[i] /\ s[i] \in U
    BY <1>9, <1>10, <2>b
  <2>3. CASE j = n
    <3>1. t[j] = m /\ m \in Nat /\ s[i] \in Nat
      BY <1>4, <1>6, <2>2, <2>3
    <3>2. m >= s[i] /\ m # s[i]
      BY <1>6, <2>2
    <3> QED BY <2>2, <3>1, <3>2
  <2>4. CASE j # n
    BY <1>9, <1>10, <2>1, <2>2, <2>4
  <2> QED BY <2>3, <2>4
<1> QED BY <1>3, <1>11, <1>12

LEMMA AscendingRises ==
  ASSUME NEW S \in SUBSET Nat, IsFiniteSet(S)
  PROVE  /\ Ascending(S) \in Seq(S)
         /\ Rising(Ascending(S))
         /\ \A i \in 1..Len(Ascending(S)) : Ascending(S)[i] \in S
<1>1. /\ Ascending(S) \in [1..Cardinality(S) -> S]
      /\ \A i, j \in DOMAIN Ascending(S) :
           i < j => Ascending(S)[i] < Ascending(S)[j]
  BY AscendingExists DEF Ascending
<1>2. Cardinality(S) \in Nat
  BY FS_CardinalityType
<1> HIDE DEF Ascending
<1> QED BY <1>1, <1>2 DEF Rising
-----------------------------------------------------------------------------
(* Counting what the queues hold. *)

LEMMA UpTo ==
  ASSUME NEW n \in Nat
  PROVE  IsFiniteSet(1..n) /\ Cardinality(1..n) = n
<1>1. /\ IsFiniteSet(1..n)
      /\ Cardinality(1..n) = IF 1 > n THEN 0 ELSE n - 1 + 1
  BY FS_Interval
<1> QED BY <1>1

LEMMA PatternsAreCounted ==
  ASSUME StreamTypes
  PROVE  /\ Len(asked) \in Nat /\ Pattern # {} => Len(asked) > 0
         /\ IsFiniteSet(Pattern) /\ Cardinality(Pattern) \in Nat
         /\ Cardinality(Pattern) <= Len(asked)
<1>1. asked \in Seq(DOMAIN Matched)
  BY BusAssumption DEF StreamTypes
<1>2. asked \in Surjection(1..Len(asked), Pattern)
  BY <1>1 DEF Surjection, Pattern, ToSet
<1>3. IsFiniteSet(1..Len(asked)) /\ Cardinality(1..Len(asked)) = Len(asked)
  BY <1>1, UpTo
<1>4. IsFiniteSet(Pattern) /\ Cardinality(Pattern) <= Len(asked)
  BY <1>2, <1>3, FS_Surjection
<1>5. Cardinality(Pattern) \in Nat
  BY <1>4, FS_CardinalityType
<1>6. Pattern # {} => Len(asked) > 0
  BY <1>1 DEF Pattern, ToSet
<1> QED BY <1>1, <1>4, <1>5, <1>6

LEMMA SlotsAreFinite ==
  ASSUME NEW P, IsFiniteSet(P), NEW q \in [P -> Seq(Nat)], NEW n \in Nat,
         \A p \in P : Len(q[p]) <= n
  PROVE  IsFiniteSet(Slots(P, q)) /\ Cardinality(Slots(P, q)) \in Nat
<1>1. IsFiniteSet(1..n)
  BY FS_Interval
<1>2. IsFiniteSet(P \X (1..n))
  BY <1>1, FS_Product
<1>3. Slots(P, q) \in SUBSET (P \X (1..n))
  <2>1. SUFFICES ASSUME NEW slot \in Slots(P, q) PROVE slot \in P \X (1..n)
    OBVIOUS
  <2>2. slot \in P \X Nat /\ slot[2] \in 1..Len(q[slot[1]])
    BY <2>1 DEF Slots
  <2>3. PICK p \in P, i \in Nat : slot = <<p, i>>
    BY <2>2
  <2>4. i \in 1..Len(q[p]) /\ Len(q[p]) \in Nat /\ Len(q[p]) <= n
    BY <2>2, <2>3
  <2> QED BY <2>3, <2>4
<1>4. IsFiniteSet(Slots(P, q))
  BY <1>2, <1>3, FS_Subset
<1> QED BY <1>4, FS_CardinalityType

\* One more event for every subscriber takes one more place in each queue.
LEMMA SlotsAdded ==
  ASSUME NEW P, IsFiniteSet(P), NEW n \in Nat,
         NEW q \in [P -> Seq(Nat)], \A p \in P : Len(q[p]) <= n,
         NEW r \in [P -> Seq(Nat)], \A p \in P : Len(r[p]) <= Len(q[p]) + 1
  PROVE  Cardinality(Slots(P, r)) <= Cardinality(Slots(P, q)) + Cardinality(P)
<1> DEFINE f == [p \in P |-> <<p, Len(q[p]) + 1>>]
           New == {<<p, Len(q[p]) + 1>> : p \in P}
<1>1. f \in Surjection(P, New)
  BY DEF Surjection
<1>2. IsFiniteSet(New) /\ Cardinality(New) <= Cardinality(P)
  <2> HIDE DEF f, New
  <2> QED BY <1>1, FS_Surjection
<1>3. IsFiniteSet(Slots(P, q)) /\ Cardinality(Slots(P, q)) \in Nat
  BY SlotsAreFinite
<1>4. Slots(P, r) \in SUBSET (Slots(P, q) \cup New)
  <2>1. SUFFICES ASSUME NEW slot \in Slots(P, r)
                 PROVE  slot \in Slots(P, q) \cup New
    OBVIOUS
  <2>2. slot \in P \X Nat /\ slot[2] \in 1..Len(r[slot[1]])
    BY <2>1 DEF Slots
  <2>3. PICK p \in P, i \in Nat : slot = <<p, i>>
    BY <2>2
  <2>4. /\ i \in 1..Len(r[p]) /\ Len(r[p]) \in Nat /\ Len(q[p]) \in Nat
        /\ Len(r[p]) <= Len(q[p]) + 1
    BY <2>2, <2>3
  <2>5. CASE i = Len(q[p]) + 1
    BY <2>3, <2>5
  <2>6. CASE i # Len(q[p]) + 1
    <3>1. i \in 1..Len(q[p])
      BY <2>4, <2>6
    <3> QED BY <2>3, <3>1 DEF Slots
  <2> QED BY <2>5, <2>6
<1> HIDE DEF New, f
<1>5. /\ IsFiniteSet(Slots(P, q) \cup New)
      /\ Cardinality(Slots(P, q) \cup New) =
           Cardinality(Slots(P, q)) + Cardinality(New)
             - Cardinality(Slots(P, q) \cap New)
  BY <1>2, <1>3, FS_Union
<1>6. Cardinality(Slots(P, r)) <= Cardinality(Slots(P, q) \cup New)
  BY <1>4, <1>5, FS_Subset
<1>7. /\ Cardinality(Slots(P, q) \cap New) \in Nat
      /\ Cardinality(Slots(P, q) \cup New) \in Nat
      /\ Cardinality(New) \in Nat /\ Cardinality(P) \in Nat
      /\ Cardinality(Slots(P, r)) \in Nat
  <2>1. IsFiniteSet(Slots(P, q) \cap New)
    BY <1>3, FS_Intersection
  <2>2. IsFiniteSet(Slots(P, r))
    BY <1>4, <1>5, FS_Subset
  <2> QED BY <1>2, <1>5, <2>1, <2>2, FS_CardinalityType
<1> QED BY <1>2, <1>3, <1>5, <1>6, <1>7

\* A subscriber that takes all it has frees its places and no others.
LEMMA SlotsTaken ==
  ASSUME NEW P, IsFiniteSet(P), NEW n \in Nat,
         NEW q \in [P -> Seq(Nat)], \A p \in P : Len(q[p]) <= n,
         NEW p \in P
  PROVE  Cardinality(Slots(P, [q EXCEPT ![p] = <<>>])) + Len(q[p])
           = Cardinality(Slots(P, q))
<1> DEFINE r == [q EXCEPT ![p] = <<>>]
           Taken == {p} \X (1..Len(q[p]))
           f == [i \in 1..Len(q[p]) |-> <<p, i>>]
<1>1. Len(q[p]) \in Nat
  OBVIOUS
<1>2. f \in Bijection(1..Len(q[p]), Taken)
  <2>1. f \in [1..Len(q[p]) -> Taken]
    OBVIOUS
  <2>2. \A i, j \in 1..Len(q[p]) : f[i] = f[j] => i = j
    OBVIOUS
  <2>3. \A t \in Taken : \E i \in 1..Len(q[p]) : f[i] = t
    OBVIOUS
  <2> QED BY <2>1, <2>2, <2>3 DEF Bijection, Injection, Surjection, IsInjective
<1>3. IsFiniteSet(Taken) /\ Cardinality(Taken) = Len(q[p])
  <2>1. /\ IsFiniteSet(1..Len(q[p]))
        /\ Cardinality(1..Len(q[p])) = Len(q[p])
    BY <1>1, UpTo
  <2>2. ExistsBijection(1..Len(q[p]), Taken)
    BY <1>2 DEF ExistsBijection
  <2> HIDE DEF Taken
  <2> QED BY <2>1, <2>2, FS_Bijection
<1>4. IsFiniteSet(Slots(P, q)) /\ Cardinality(Slots(P, q)) \in Nat
  BY SlotsAreFinite
<1>5. Slots(P, r) = Slots(P, q) \ Taken
  <2>1. ASSUME NEW o \in P, NEW i \in Nat
        PROVE  <<o, i>> \in Slots(P, r) <=> <<o, i>> \in Slots(P, q) \ Taken
    <3>1. <<o, i>> \in Slots(P, r) <=> i \in 1..Len(r[o])
      BY <2>1 DEF Slots
    <3>2. <<o, i>> \in Slots(P, q) <=> i \in 1..Len(q[o])
      BY <2>1 DEF Slots
    <3>3. CASE o = p
      BY <3>1, <3>2, <3>3
    <3>4. CASE o # p
      BY <3>1, <3>2, <3>4
    <3> QED BY <3>3, <3>4
  <2>2. Slots(P, r) \subseteq P \X Nat /\ Slots(P, q) \subseteq P \X Nat
    BY DEF Slots
  <2>3. ASSUME NEW x
        PROVE  x \in Slots(P, r) <=> x \in Slots(P, q) \ Taken
    <3>1. CASE x \in P \X Nat
      <4>1. PICK o \in P, i \in Nat : x = <<o, i>>
        BY <3>1
      <4> QED BY <2>1, <4>1
    <3>2. CASE x \notin P \X Nat
      BY <2>2, <3>2
    <3> QED BY <3>1, <3>2
  <2> HIDE DEF r, Taken
  <2> QED BY <2>3
<1>6. Slots(P, q) \cap Taken = Taken
  <2>1. ASSUME NEW i \in 1..Len(q[p]) PROVE <<p, i>> \in Slots(P, q)
    BY <1>1, <2>1 DEF Slots
  <2> QED BY <2>1
<1> HIDE DEF r, Taken, f
<1>7. Cardinality(Slots(P, r)) = Cardinality(Slots(P, q)) - Cardinality(Taken)
  BY <1>4, <1>5, <1>6, FS_Difference
<1>8. Cardinality(Slots(P, r)) + Len(q[p]) = Cardinality(Slots(P, q))
  BY <1>1, <1>3, <1>4, <1>7
<1> QED BY <1>8 DEF r
-----------------------------------------------------------------------------
(* The inductive invariant, action by action. *)

LEMMA InitStreamInv == ASSUME StreamInit PROVE StreamInv
<1>1. /\ asked \in PatternLists /\ log = <<>> /\ since = -1
      /\ queue = [p \in Pattern |-> <<>>]
      /\ stage = "none" /\ toReplay = <<>> /\ merged = <<>>
      /\ lastSeq = 0 /\ ignored = {}
  BY DEF StreamInit, BusInit
<1>2. StreamTypes
  BY <1>1 DEF StreamTypes
<1>3. ~Subscribed
  BY <1>1 DEF Subscribed
<1>4. StagesHold /\ NoMoreThanPublished /\ NothingIsLostWithinLimits
  BY <1>1, <1>3 DEF StagesHold, NoMoreThanPublished, NothingIsLostWithinLimits
<1>5. InOrder
  BY <1>1 DEF InOrder, Rising
<1> QED BY <1>2, <1>4, <1>5 DEF StreamInv

LEMMA PublishIs ==
  ASSUME NEW t \in Type, Publish(t)
  PROVE  /\ log' = Append(log, t) /\ UNCHANGED <<asked, since>>
         /\ queue' = [p \in Pattern |->
                        IF Subscribed /\ t \in Matched[p]
                        THEN Deliver(queue[p], Len(log) + 1)
                        ELSE queue[p]]
BY DEF Publish

\* What publishing does to one subscriber.
LEMMA PublishDelivers ==
  ASSUME StreamTypes, NEW t \in Type, Publish(t), NEW p \in Pattern
  PROVE  /\ \/ queue'[p] = queue[p]
            \/ Subscribed /\ queue'[p] = LastN(Append(queue[p], Len(log) + 1), QueueMax)
         /\ queue'[p] \in Seq(Nat)
         /\ Len(queue'[p]) <= Len(queue[p]) + 1
         /\ Subscribed /\ t \in Matched[p] /\ Len(queue[p]) < QueueMax =>
              queue'[p] = Append(queue[p], Len(log) + 1)
<1> DEFINE N == Len(log) + 1  s == Append(queue[p], N)
<1>1. queue'[p] = IF Subscribed /\ t \in Matched[p]
                  THEN LastN(s, QueueMax) ELSE queue[p]
  BY PublishIs DEF Deliver
<1>2. /\ queue[p] \in Seq(Nat) /\ N \in Nat /\ s \in Seq(Nat)
      /\ Len(s) = Len(queue[p]) + 1 /\ QueueMax \in Nat
  BY BusAssumption DEF StreamTypes
<1>3. /\ LastN(s, QueueMax) \in Seq(Nat)
      /\ Len(LastN(s, QueueMax)) = IF Len(s) <= QueueMax THEN Len(s) ELSE QueueMax
  BY <1>2, LastNIs
<1>4. Len(queue[p]) < QueueMax => LastN(s, QueueMax) = s
  BY <1>2 DEF LastN
<1> HIDE DEF s
<1> QED
  <2>1. CASE Subscribed /\ t \in Matched[p]
    BY <1>1, <1>2, <1>3, <1>4, <2>1 DEF s
  <2>2. CASE ~(Subscribed /\ t \in Matched[p])
    BY <1>1, <1>2, <2>2
  <2> QED BY <2>1, <2>2

LEMMA PublishKeepsStreamInv ==
  ASSUME StreamInv, PublishEvent
  PROVE  StreamInv'
<1> USE DEF StreamInv
<1>1. PICK t \in Type : Publish(t)
  BY DEF PublishEvent
<1>2. UNCHANGED <<asked, since, stage, toReplay, merged, client, lastSeq, shown,
                  ignored, split, restarted>>
  BY <1>1, PublishIs DEF PublishEvent, gateway, reader
<1>3. /\ log \in Seq(Type) /\ log' = Append(log, t) /\ Len(log) \in Nat
      /\ log' \in Seq(Type) /\ Len(log') = Len(log) + 1
      /\ \A n \in 1..Len(log) : log'[n] = log[n]
      /\ log'[Len(log) + 1] = t
  <2>1. log \in Seq(Type) /\ log' = Append(log, t)
    BY <1>1, PublishIs DEF StreamTypes
  <2> QED BY <2>1
<1>4. Pattern' = Pattern /\ Subscribed' = Subscribed
  BY <1>2 DEF Pattern, Subscribed
<1>5. /\ queue \in [Pattern -> Seq(Nat)] /\ DOMAIN queue' = Pattern
      /\ \A p \in Pattern :
           /\ \/ queue'[p] = queue[p]
              \/ /\ Subscribed
                 /\ queue'[p] = LastN(Append(queue[p], Len(log) + 1), QueueMax)
           /\ queue'[p] \in Seq(Nat)
           /\ Len(queue'[p]) <= Len(queue[p]) + 1
           /\ Subscribed /\ t \in Matched[p] /\ Len(queue[p]) < QueueMax =>
                queue'[p] = Append(queue[p], Len(log) + 1)
  BY <1>1, PublishDelivers, PublishIs DEF StreamTypes
<1>5a. queue' \in [Pattern -> Seq(Nat)]
  <2>1. queue' = [p \in Pattern |-> queue'[p]]
    BY <1>1, PublishIs
  <2> QED BY <1>5, <2>1
<1>6. StreamTypes'
  BY <1>2, <1>3, <1>4, <1>5a DEF StreamTypes
<1>7. StagesHold'
  BY <1>2, <1>4, <1>5 DEF StagesHold
<1>8. NoMoreThanPublished'
  <2>1. SUFFICES ASSUME Subscribed
                 PROVE  /\ \A p \in Pattern : Len(queue'[p]) <= Len(log') - since
                        /\ Len(merged) + Cardinality(Slots(Pattern, queue'))
                             <= Len(asked) * (Len(log') - since)
    BY <1>2, <1>4 DEF NoMoreThanPublished
  <2>2. /\ \A p \in Pattern : Len(queue[p]) <= Len(log) - since
        /\ Len(merged) + Cardinality(Slots(Pattern, queue))
             <= Len(asked) * (Len(log) - since)
    BY <2>1 DEF NoMoreThanPublished
  <2>3. since \in Int /\ since <= Len(log) /\ Len(merged) \in Nat
    BY DEF StreamTypes
  <2>4. Len(log) - since \in Nat /\ Len(log') - since = (Len(log) - since) + 1
    BY <1>3, <2>3
  <2>5. \A p \in Pattern : Len(queue[p]) \in Nat /\ Len(queue'[p]) \in Nat
    BY <1>5
  <2>6. \A p \in Pattern : Len(queue'[p]) <= Len(log') - since
    BY <1>5, <2>2, <2>4, <2>5
  <2>7. /\ Len(asked) \in Nat /\ IsFiniteSet(Pattern)
        /\ Cardinality(Pattern) \in Nat /\ Cardinality(Pattern) <= Len(asked)
    BY PatternsAreCounted
  <2>8. Cardinality(Slots(Pattern, queue'))
          <= Cardinality(Slots(Pattern, queue)) + Cardinality(Pattern)
    BY <1>5, <1>5a, <2>2, <2>4, <2>7, SlotsAdded
  <2>9. /\ Cardinality(Slots(Pattern, queue)) \in Nat
        /\ Cardinality(Slots(Pattern, queue')) \in Nat
    <3>1. Len(log') - since \in Nat
      BY <2>4
    <3> QED BY <1>5, <1>5a, <2>2, <2>4, <2>6, <2>7, <3>1, SlotsAreFinite
  <2>10. Len(asked) * (Len(log') - since)
           = Len(asked) * (Len(log) - since) + Len(asked)
    BY <2>4, <2>7
  <2>11. Len(asked) * (Len(log) - since) \in Nat
    BY <2>4, <2>7
  <2> QED BY <2>2, <2>3, <2>6, <2>7, <2>8, <2>9, <2>10, <2>11
<1>9. InOrder'
  <2>1. SUFFICES ASSUME Len(asked) = 1, ~restarted PROVE InOrder'
    BY <1>2 DEF InOrder
  <2>2. /\ ignored = {}
        /\ lastSeq <= Len(log)
        /\ Rising(toReplay)
        /\ \A i \in 1..Len(toReplay) :
             lastSeq < toReplay[i] /\ toReplay[i] <= Len(log)
        /\ Rising(merged)
        /\ \A i \in 1..Len(merged) : lastSeq < merged[i] /\ merged[i] <= Len(log)
        /\ \A p \in Pattern :
             /\ Rising(queue[p])
             /\ \A i \in 1..Len(queue[p]) :
                  /\ lastSeq < queue[p][i] /\ queue[p][i] <= Len(log)
                  /\ \A j \in 1..Len(merged) : merged[j] < queue[p][i]
    BY <2>1 DEF InOrder
  <2>3. lastSeq \in Nat /\ toReplay \in Seq(Nat) /\ merged \in Seq(Nat)
    BY DEF StreamTypes
  <2>4. ASSUME NEW p \in Pattern
        PROVE  /\ Rising(queue'[p])
               /\ \A i \in 1..Len(queue'[p]) :
                    /\ lastSeq < queue'[p][i] /\ queue'[p][i] <= Len(log')
                    /\ \A j \in 1..Len(merged) : merged[j] < queue'[p][i]
    <3> DEFINE s == Append(queue[p], Len(log) + 1)
    <3>1. /\ queue[p] \in Seq(Nat) /\ s \in Seq(Nat)
          /\ Len(s) = Len(queue[p]) + 1 /\ Len(queue[p]) \in Nat
          /\ \A i \in 1..Len(queue[p]) : s[i] = queue[p][i]
          /\ s[Len(queue[p]) + 1] = Len(log) + 1
      BY <1>3, <1>5, <2>4
    <3>2. /\ Rising(queue[p])
          /\ \A i \in 1..Len(queue[p]) :
               /\ queue[p][i] \in Nat
               /\ lastSeq < queue[p][i] /\ queue[p][i] <= Len(log)
               /\ \A j \in 1..Len(merged) : merged[j] < queue[p][i]
      BY <2>2, <2>4, <3>1
    <3> HIDE DEF s
    <3>3. \A i \in 1..Len(s) : i # Len(queue[p]) + 1 => i \in 1..Len(queue[p])
      BY <3>1
    <3>4. Rising(s)
      <4>1. SUFFICES ASSUME NEW i \in 1..Len(s), NEW j \in 1..Len(s), i < j
                     PROVE  s[i] < s[j]
        BY DEF Rising
      <4>2. i \in 1..Len(queue[p]) /\ s[i] = queue[p][i]
        BY <3>1, <3>3, <4>1
      <4>3. CASE j = Len(queue[p]) + 1
        BY <1>3, <3>1, <3>2, <4>2, <4>3
      <4>4. CASE j # Len(queue[p]) + 1
        BY <3>1, <3>2, <3>3, <4>1, <4>2, <4>4 DEF Rising
      <4> QED BY <4>3, <4>4
    <3>5. \A i \in 1..Len(s) :
            /\ lastSeq < s[i] /\ s[i] <= Len(log')
            /\ \A j \in 1..Len(merged) : merged[j] < s[i]
      <4>1. ASSUME NEW i \in 1..Len(s)
            PROVE  /\ lastSeq < s[i] /\ s[i] <= Len(log')
                   /\ \A j \in 1..Len(merged) : merged[j] < s[i]
        <5>1. CASE i = Len(queue[p]) + 1
          <6>1. s[i] = Len(log) + 1
            BY <3>1, <5>1
          <6>2. \A j \in 1..Len(merged) : merged[j] \in Nat
            BY <2>3
          <6> QED BY <1>3, <2>2, <2>3, <6>1, <6>2
        <5>2. CASE i # Len(queue[p]) + 1
          <6>1. i \in 1..Len(queue[p]) /\ s[i] = queue[p][i]
            BY <3>1, <3>3, <4>1, <5>2
          <6> QED BY <1>3, <3>2, <6>1
        <5> QED BY <5>1, <5>2
      <4> QED BY <4>1
    <3>6. CASE queue'[p] = LastN(s, QueueMax)
      <4>1. QueueMax \in Nat
        BY BusAssumption
      <4>2. Rising(queue'[p])
        BY <3>1, <3>4, <3>6, <4>1, LastNRises
      <4>3. \A i \in 1..Len(queue'[p]) : \E j \in 1..Len(s) : queue'[p][i] = s[j]
        BY <3>1, <3>6, <4>1, LastNHas
      <4> QED BY <3>5, <4>2, <4>3
    <3>7. CASE queue'[p] = queue[p]
      BY <1>3, <3>2, <3>7
    <3> QED BY <1>5, <2>4, <3>6, <3>7 DEF s
  <2>5. /\ lastSeq <= Len(log')
        /\ \A i \in 1..Len(toReplay) : toReplay[i] <= Len(log')
        /\ \A i \in 1..Len(merged) : merged[i] <= Len(log')
    <3>1. /\ \A i \in 1..Len(toReplay) : toReplay[i] \in Nat
          /\ \A i \in 1..Len(merged) : merged[i] \in Nat
      BY <2>3
    <3>2. \A n \in Nat : n <= Len(log) => n <= Len(log')
      BY <1>3
    <3>3. lastSeq <= Len(log')
      BY <2>2, <2>3, <3>2
    <3>4. \A i \in 1..Len(toReplay) : toReplay[i] <= Len(log')
      BY <2>2, <3>1, <3>2
    <3>5. \A i \in 1..Len(merged) : merged[i] <= Len(log')
      BY <2>2, <3>1, <3>2
    <3> QED BY <3>3, <3>4, <3>5
  <2> QED BY <1>2, <1>4, <2>2, <2>4, <2>5 DEF InOrder, Rising
<1>10. NothingIsLostWithinLimits'
  <2>1. SUFFICES ASSUME Subscribed, Len(log') - since <= QueueMax,
                        Len(asked) * (Len(log') - since) <= MergedMax,
                        NEW n \in since + 1..Len(log'), Wanted(n)'
                 PROVE  n \in Known' \cup split'
    BY <1>2, <1>4 DEF NothingIsLostWithinLimits
  <2>2. /\ since \in Int /\ since <= Len(log) /\ since >= 0
        /\ Len(asked) \in Nat /\ QueueMax \in Nat /\ MergedMax \in Nat
    BY <2>1, PatternsAreCounted, BusAssumption, StreamAssumption
       DEF StreamTypes, Subscribed
  <2>3. /\ Len(log) - since \in Nat
        /\ Len(log') - since = (Len(log) - since) + 1
    BY <1>3, <2>2
  <2>4. /\ Len(log) - since <= QueueMax
        /\ Len(asked) * (Len(log) - since) <= MergedMax
    <3>1. Len(asked) * (Len(log') - since)
            = Len(asked) * (Len(log) - since) + Len(asked)
      BY <2>2, <2>3
    <3>2. Len(asked) * (Len(log) - since) \in Nat
      BY <2>2, <2>3
    <3> QED BY <2>1, <2>2, <2>3, <3>1, <3>2
  <2>5. \A p \in Pattern : Len(queue[p]) < QueueMax /\ Len(queue[p]) \in Nat
    <3>1. \A p \in Pattern : Len(queue[p]) <= Len(log) - since
      BY <2>1 DEF NoMoreThanPublished
    <3>2. \A p \in Pattern : Len(queue[p]) \in Nat
      BY <1>5
    <3> QED BY <2>1, <2>2, <2>3, <3>1, <3>2
  <2>6. \A p \in Pattern :
          \/ queue'[p] = queue[p]
          \/ queue'[p] = Append(queue[p], Len(log) + 1)
    <3>1. SUFFICES ASSUME NEW p \in Pattern,
                          queue'[p] = LastN(Append(queue[p], Len(log) + 1), QueueMax)
                   PROVE  queue'[p] = Append(queue[p], Len(log) + 1)
      BY <1>5
    <3>2. Len(Append(queue[p], Len(log) + 1)) <= QueueMax
      BY <1>3, <1>5, <2>2, <2>5
    <3> QED BY <3>1, <3>2 DEF LastN
  <2>7. \A p \in Pattern : ToSet(queue[p]) \subseteq ToSet(queue'[p])
    <3>1. SUFFICES ASSUME NEW p \in Pattern,
                          queue'[p] = Append(queue[p], Len(log) + 1)
                   PROVE  ToSet(queue[p]) \subseteq ToSet(queue'[p])
      BY <2>6
    <3>2. queue[p] \in Seq(Nat)
      BY <1>5
    <3>3. /\ Len(queue'[p]) = Len(queue[p]) + 1 /\ Len(queue[p]) \in Nat
          /\ queue'[p] \in Seq(Nat)
          /\ \A i \in 1..Len(queue[p]) : queue'[p][i] = queue[p][i]
      BY <1>3, <3>1, <3>2
    <3>4. /\ DOMAIN queue[p] = 1..Len(queue[p])
          /\ DOMAIN queue'[p] = 1..Len(queue'[p])
      BY <3>2, <3>3
    <3>5. SUFFICES ASSUME NEW i \in 1..Len(queue[p])
                   PROVE  queue[p][i] \in ToSet(queue'[p])
      BY <3>4 DEF ToSet
    <3>6. i \in DOMAIN queue'[p] /\ queue'[p][i] = queue[p][i]
      BY <3>3, <3>4
    <3> QED BY <3>6 DEF ToSet
  <2>8. Known \subseteq Known'
    BY <1>2, <1>4, <2>7 DEF Known, Arriving
  <2>9. PICK p \in Pattern : log'[n] \in Matched[p]
    BY <1>4, <2>1 DEF Wanted, Matches
  <2>10. CASE n = Len(log) + 1
    <3>1. queue'[p] = Append(queue[p], n)
      BY <1>3, <1>5, <2>1, <2>5, <2>9, <2>10
    <3>2. n \in ToSet(queue'[p])
      BY <1>3, <1>5, <2>10, <3>1 DEF ToSet
    <3> QED BY <1>4, <3>2 DEF Known, Arriving
  <2>11. CASE n # Len(log) + 1
    <3>1. n \in since + 1..Len(log)
      BY <1>3, <2>1, <2>2, <2>11
    <3>2. n \in 1..Len(log)
      BY <2>2, <3>1
    <3>3. Wanted(n)
      BY <1>3, <2>9, <3>2 DEF Wanted, Matches
    <3>4. n \in Known \cup split
      BY <2>1, <2>4, <3>1, <3>3 DEF NothingIsLostWithinLimits
    <3> QED BY <1>2, <2>8, <3>4
  <2> QED BY <2>10, <2>11
<1> QED BY <1>6, <1>7, <1>8, <1>9, <1>10

LEMMA ConnectKeepsStreamInv ==
  ASSUME StreamInv, Connect
  PROVE  StreamInv'
<1> USE DEF StreamInv
<1>1. /\ client = "retry" /\ stage' = "replay" /\ client' = "reading"
      /\ UNCHANGED <<asked, log, queue, since, merged, lastSeq, shown, ignored,
                     split, restarted>>
      /\ toReplay' = <<>> \/ toReplay' = Ascending(ReplaySince(lastSeq))
  BY DEF Connect, bus
<1>2. /\ stage = "none" /\ ~Subscribed /\ merged = <<>>
      /\ \A p \in Pattern : queue[p] = <<>>
  BY <1>1 DEF StagesHold
<1>3. Pattern' = Pattern /\ ~Subscribed'
  BY <1>1, <1>2 DEF Pattern, Subscribed
<1>4. /\ ReplaySince(lastSeq) \in SUBSET Nat
      /\ IsFiniteSet(ReplaySince(lastSeq))
      /\ \A n \in ReplaySince(lastSeq) : lastSeq < n /\ n <= Len(log)
  <2>1. Len(log) \in Nat /\ lastSeq \in Nat
    BY DEF StreamTypes
  <2>2. ReplaySince(lastSeq) \in SUBSET (1..Len(log))
    BY DEF ReplaySince
  <2>3. IsFiniteSet(1..Len(log))
    BY <2>1, UpTo
  <2>4. IsFiniteSet(ReplaySince(lastSeq))
    BY <2>2, <2>3, FS_Subset
  <2> QED BY <2>1, <2>2, <2>4 DEF ReplaySince
<1>5. /\ toReplay' \in Seq(Nat) /\ Rising(toReplay')
      /\ \A i \in 1..Len(toReplay') :
           lastSeq < toReplay'[i] /\ toReplay'[i] <= Len(log)
  <2>1. CASE toReplay' = <<>>
    BY <2>1 DEF Rising
  <2>2. CASE toReplay' = Ascending(ReplaySince(lastSeq))
    <3>1. /\ toReplay' \in Seq(ReplaySince(lastSeq))
          /\ Rising(toReplay')
          /\ \A i \in 1..Len(toReplay') : toReplay'[i] \in ReplaySince(lastSeq)
      BY <1>4, <2>2, AscendingRises
    <3> HIDE DEF ReplaySince
    <3> QED BY <1>4, <3>1
  <2> QED BY <1>1, <2>1, <2>2
<1>6. StreamTypes'
  BY <1>1, <1>3, <1>5 DEF StreamTypes
<1>7. StagesHold'
  BY <1>1, <1>2, <1>3 DEF StagesHold
<1>8. NoMoreThanPublished' /\ NothingIsLostWithinLimits'
  BY <1>3 DEF NoMoreThanPublished, NothingIsLostWithinLimits
<1>9. InOrder'
  BY <1>1, <1>2, <1>3, <1>5 DEF InOrder, Rising
<1> QED BY <1>6, <1>7, <1>8, <1>9

\* Reading the first of a rising sequence leaves one that rises beyond it.
LEMMA HeadIsSmallest ==
  ASSUME NEW s \in Seq(Nat), s # <<>>
  PROVE  /\ Head(s) \in Nat /\ Head(s) = s[1] /\ Tail(s) \in Seq(Nat)
         /\ Len(Tail(s)) = Len(s) - 1 /\ Len(s) \in Nat \ {0}
         /\ \A i \in 1..Len(Tail(s)) : i + 1 \in 1..Len(s) /\ Tail(s)[i] = s[i + 1]
         /\ Rising(s) =>
              /\ Rising(Tail(s))
              /\ \A i \in 1..Len(Tail(s)) : Head(s) < Tail(s)[i]
<1>1. /\ Head(s) \in Nat /\ Head(s) = s[1] /\ Tail(s) \in Seq(Nat)
      /\ Len(Tail(s)) = Len(s) - 1 /\ Len(s) \in Nat \ {0}
  OBVIOUS
<1>2. \A i \in 1..Len(Tail(s)) : i + 1 \in 1..Len(s) /\ Tail(s)[i] = s[i + 1]
  BY <1>1
<1>3. ASSUME Rising(s)
      PROVE  /\ Rising(Tail(s))
             /\ \A i \in 1..Len(Tail(s)) : Head(s) < Tail(s)[i]
  <2>1. \A i, j \in 1..Len(Tail(s)) : i < j => Tail(s)[i] < Tail(s)[j]
    BY <1>1, <1>2, <1>3 DEF Rising
  <2>2. \A i \in 1..Len(Tail(s)) : Head(s) < Tail(s)[i]
    BY <1>1, <1>2, <1>3 DEF Rising
  <2> QED BY <2>1, <2>2 DEF Rising
<1> QED BY <1>1, <1>2, <1>3

LEMMA SendReplayedKeepsStreamInv ==
  ASSUME StreamInv, SendReplayed
  PROVE  StreamInv'
<1> USE DEF StreamInv
<1> DEFINE n == Head(toReplay)
<1>1. /\ stage = "replay" /\ toReplay # <<>> /\ toReplay' = Tail(toReplay)
      /\ UNCHANGED <<asked, log, queue, since, stage, merged, client, restarted>>
      /\ \/ n > lastSeq /\ lastSeq' = n /\ ignored' = ignored
         \/ n <= lastSeq /\ lastSeq' = lastSeq /\ ignored' = ignored \cup {n}
         \/ lastSeq' = lastSeq /\ ignored' = ignored
  BY DEF SendReplayed, ReadEvent, bus
<1>2. /\ ~Subscribed /\ merged = <<>> /\ \A p \in Pattern : queue[p] = <<>>
  BY <1>1 DEF StagesHold
<1>3. Pattern' = Pattern /\ ~Subscribed'
  BY <1>1, <1>2 DEF Pattern, Subscribed
<1>4. /\ toReplay \in Seq(Nat) /\ lastSeq \in Nat /\ Len(log) \in Nat
  BY DEF StreamTypes
<1>5. /\ n \in Nat /\ n = toReplay[1] /\ Tail(toReplay) \in Seq(Nat)
      /\ Len(toReplay) \in Nat \ {0}
      /\ \A i \in 1..Len(Tail(toReplay)) :
           i + 1 \in 1..Len(toReplay) /\ Tail(toReplay)[i] = toReplay[i + 1]
      /\ Rising(toReplay) =>
           /\ Rising(Tail(toReplay))
           /\ \A i \in 1..Len(Tail(toReplay)) : n < Tail(toReplay)[i]
  BY <1>1, <1>4, HeadIsSmallest
<1> HIDE DEF n
<1>6. StreamTypes'
  BY <1>1, <1>3, <1>4, <1>5 DEF StreamTypes
<1>7. StagesHold'
  BY <1>1, <1>2, <1>3 DEF StagesHold
<1>8. NoMoreThanPublished' /\ NothingIsLostWithinLimits'
  BY <1>3 DEF NoMoreThanPublished, NothingIsLostWithinLimits
<1>9. InOrder'
  <2>1. SUFFICES ASSUME Len(asked) = 1, ~restarted PROVE InOrder'
    BY <1>1 DEF InOrder
  <2>2. /\ ignored = {} /\ lastSeq <= Len(log) /\ Rising(toReplay)
        /\ \A i \in 1..Len(toReplay) :
             lastSeq < toReplay[i] /\ toReplay[i] <= Len(log)
    BY <2>1 DEF InOrder
  <2>3. lastSeq < n /\ n <= Len(log)
    BY <1>5, <2>2
  <2>4. lastSeq' \in Nat /\ lastSeq' <= n /\ ignored' = {}
    BY <1>1, <1>4, <1>5, <2>2, <2>3
  <2>5. \A i \in 1..Len(toReplay') : n < toReplay'[i] /\ toReplay'[i] <= Len(log)
    BY <1>1, <1>5, <2>2
  <2>5a. /\ lastSeq' <= Len(log)
         /\ \A i \in 1..Len(toReplay') :
              lastSeq' < toReplay'[i] /\ toReplay'[i] <= Len(log)
    <3>1. \A i \in 1..Len(toReplay') : toReplay'[i] \in Nat
      BY <1>1, <1>5
    <3> QED BY <1>4, <1>5, <2>3, <2>4, <2>5, <3>1
  <2>6. Rising(toReplay')
    BY <1>1, <1>5, <2>2
  <2> QED
    BY <1>1, <1>2, <1>3, <2>4, <2>5a, <2>6 DEF InOrder, Rising
<1> QED BY <1>6, <1>7, <1>8, <1>9

LEMMA ReplayDoneKeepsStreamInv ==
  ASSUME StreamInv, ReplayDone
  PROVE  StreamInv'
<1> USE DEF StreamInv
<1>1. /\ stage = "replay" /\ toReplay = <<>> /\ stage' = "subscribe"
      /\ UNCHANGED <<asked, log, queue, since, toReplay, merged, client, lastSeq,
                     shown, ignored, split, restarted>>
  BY DEF ReplayDone, bus, reader
<1>2. /\ ~Subscribed /\ merged = <<>> /\ \A p \in Pattern : queue[p] = <<>>
      /\ client # "retry"
  BY <1>1 DEF StagesHold
<1>3. Pattern' = Pattern /\ ~Subscribed'
  BY <1>1, <1>2 DEF Pattern, Subscribed
<1>4. StreamTypes'
  BY <1>1, <1>3 DEF StreamTypes
<1>5. StagesHold'
  BY <1>1, <1>2, <1>3 DEF StagesHold
<1>6. NoMoreThanPublished' /\ NothingIsLostWithinLimits'
  BY <1>3 DEF NoMoreThanPublished, NothingIsLostWithinLimits
<1>7. InOrder'
  BY <1>1, <1>3 DEF InOrder, Rising
<1> QED BY <1>4, <1>5, <1>6, <1>7

LEMMA PumpsRegisterKeepsStreamInv ==
  ASSUME StreamInv, PumpsRegister
  PROVE  StreamInv'
<1> USE DEF StreamInv
<1>1. /\ stage = "subscribe" /\ stage' = "live" /\ since' = Len(log)
      /\ UNCHANGED <<asked, log, queue, toReplay, merged, client, lastSeq, shown,
                     ignored, split, restarted>>
  BY DEF PumpsRegister, Subscribe, reader
<1>2. /\ toReplay = <<>> /\ merged = <<>> /\ \A p \in Pattern : queue[p] = <<>>
      /\ client # "retry"
  BY <1>1 DEF StagesHold
<1>3. Len(log) \in Nat /\ queue \in [Pattern -> Seq(Nat)]
  BY DEF StreamTypes
<1>4. Pattern' = Pattern /\ Subscribed'
  BY <1>1, <1>3 DEF Pattern, Subscribed
<1>5. StreamTypes'
  BY <1>1, <1>3, <1>4 DEF StreamTypes
<1>6. StagesHold'
  BY <1>1, <1>2, <1>4 DEF StagesHold
<1>7. NoMoreThanPublished'
  <2>1. Slots(Pattern, queue) = {}
    <3>1. \A slot \in Pattern \X Nat : slot[1] \in Pattern
      OBVIOUS
    <3>2. \A p \in Pattern : 1..Len(queue[p]) = {}
      BY <1>2
    <3> QED BY <3>1, <3>2 DEF Slots
  <2>2. Cardinality(Slots(Pattern, queue)) = 0
    BY <2>1, FS_EmptySet
  <2>3. Len(asked) \in Nat
    BY PatternsAreCounted
  <2>4. Len(asked) * (Len(log) - Len(log)) = 0 /\ Len(log) - Len(log) = 0
    BY <1>3, <2>3
  <2> QED BY <1>1, <1>2, <1>4, <2>2, <2>4 DEF NoMoreThanPublished
<1>8. NothingIsLostWithinLimits'
  <2>1. since' + 1..Len(log') = {}
    BY <1>1, <1>3
  <2> QED BY <2>1 DEF NothingIsLostWithinLimits
<1>9. InOrder'
  BY <1>1, <1>4 DEF InOrder, Rising
<1> QED BY <1>5, <1>6, <1>7, <1>8, <1>9

\* A stream that ends takes what it held with it.
LEMMA StreamGoneKeepsStreamInv ==
  ASSUME StreamInv, Unsubscribed, StreamGone, UNCHANGED <<asked, lastSeq>>,
         \/ UNCHANGED <<log, ignored, restarted>>
         \/ log' = <<>> /\ restarted'
  PROVE  StreamInv'
<1> USE DEF StreamInv
<1>1. /\ since' = -1 /\ queue' = [p \in Pattern |-> <<>>]
      /\ stage' = "none" /\ toReplay' = <<>> /\ merged' = <<>>
  BY DEF Unsubscribed, StreamGone
<1>2. Pattern' = Pattern /\ ~Subscribed'
  BY <1>1 DEF Pattern, Subscribed
<1>3. log' \in Seq(Type) /\ Len(log') \in Nat
  <2>1. log \in Seq(Type) /\ (log' = log \/ log' = <<>>)
    BY DEF StreamTypes
  <2>2. <<>> \in Seq(Type) /\ \A s \in Seq(Type) : Len(s) \in Nat
    OBVIOUS
  <2>3. log' \in Seq(Type)
    BY <2>1, <2>2
  <2> QED BY <2>2, <2>3
<1>4. StreamTypes'
  BY <1>1, <1>2, <1>3 DEF StreamTypes
<1>5. StagesHold'
  BY <1>1, <1>2 DEF StagesHold
<1>6. NoMoreThanPublished' /\ NothingIsLostWithinLimits'
  BY <1>2 DEF NoMoreThanPublished, NothingIsLostWithinLimits
<1>7. InOrder'
  BY <1>1, <1>2 DEF InOrder, Rising
<1> QED BY <1>4, <1>5, <1>6, <1>7

\* A client that reads what it has not seen yet, discards what it has, or loses
\* an event between two reads, accounts for it either way.
LEMMA SendLiveKeepsStreamInv ==
  ASSUME StreamInv, SendLive
  PROVE  StreamInv'
<1> USE DEF StreamInv
<1> DEFINE n == Head(merged)
<1>1. /\ stage = "live" /\ merged # <<>> /\ merged' = Tail(merged)
      /\ UNCHANGED <<asked, log, queue, since, stage, toReplay, client, restarted>>
      /\ \/ n > lastSeq /\ lastSeq' = n /\ shown' = shown \cup {n}
            /\ ignored' = ignored /\ split' = split
         \/ n <= lastSeq /\ lastSeq' = lastSeq /\ shown' = shown
            /\ ignored' = ignored \cup {n} /\ split' = split
         \/ split' = split \cup {n} /\ lastSeq' = lastSeq /\ shown' = shown
            /\ ignored' = ignored
  BY DEF SendLive, ReadEvent, bus
<1>2. Subscribed /\ toReplay = <<>>
  BY <1>1 DEF StagesHold
<1>3. Pattern' = Pattern /\ Subscribed'
  BY <1>1, <1>2 DEF Pattern, Subscribed
<1>4. /\ merged \in Seq(Nat) /\ lastSeq \in Nat /\ Len(log) \in Nat
      /\ queue \in [Pattern -> Seq(Nat)] /\ since \in Int /\ since <= Len(log)
  BY DEF StreamTypes
<1>5. /\ n \in Nat /\ n = merged[1] /\ merged' \in Seq(Nat)
      /\ Len(merged) \in Nat \ {0} /\ Len(merged') = Len(merged) - 1
      /\ \A i \in 1..Len(merged') :
           i + 1 \in 1..Len(merged) /\ merged'[i] = merged[i + 1]
      /\ Rising(merged) =>
           Rising(merged') /\ \A i \in 1..Len(merged') : n < merged'[i]
  <2>1. /\ n \in Nat /\ n = merged[1] /\ Tail(merged) \in Seq(Nat)
        /\ Len(merged) \in Nat \ {0} /\ Len(Tail(merged)) = Len(merged) - 1
        /\ \A i \in 1..Len(Tail(merged)) :
             i + 1 \in 1..Len(merged) /\ Tail(merged)[i] = merged[i + 1]
        /\ Rising(merged) =>
             /\ Rising(Tail(merged))
             /\ \A i \in 1..Len(Tail(merged)) : n < Tail(merged)[i]
    BY <1>1, <1>4, HeadIsSmallest
  <2> QED BY <1>1, <2>1
<1> HIDE DEF n
<1>6. StreamTypes'
  BY <1>1, <1>3, <1>4, <1>5 DEF StreamTypes
<1>7. StagesHold'
  BY <1>1, <1>2, <1>3 DEF StagesHold
<1>8. NoMoreThanPublished'
  <2>1. /\ \A p \in Pattern : Len(queue[p]) <= Len(log) - since
        /\ Len(merged) + Cardinality(Slots(Pattern, queue))
             <= Len(asked) * (Len(log) - since)
    BY <1>2 DEF NoMoreThanPublished
  <2>2. /\ Len(asked) \in Nat /\ IsFiniteSet(Pattern)
        /\ Len(log) - since \in Nat /\ Len(asked) * (Len(log) - since) \in Nat
    BY <1>4, PatternsAreCounted
  <2>3. Cardinality(Slots(Pattern, queue)) \in Nat
    BY <1>4, <2>1, <2>2, SlotsAreFinite
  <2>4. Len(merged') + Cardinality(Slots(Pattern, queue))
          <= Len(asked) * (Len(log) - since)
    BY <1>5, <2>1, <2>2, <2>3
  <2> QED BY <1>1, <1>3, <2>1, <2>4 DEF NoMoreThanPublished
<1>9. InOrder'
  <2>1. SUFFICES ASSUME Len(asked) = 1, ~restarted PROVE InOrder'
    BY <1>1 DEF InOrder
  <2>2. /\ ignored = {} /\ lastSeq <= Len(log)
        /\ Rising(merged)
        /\ \A i \in 1..Len(merged) : lastSeq < merged[i] /\ merged[i] <= Len(log)
        /\ \A p \in Pattern :
             /\ Rising(queue[p])
             /\ \A i \in 1..Len(queue[p]) :
                  /\ lastSeq < queue[p][i] /\ queue[p][i] <= Len(log)
                  /\ \A j \in 1..Len(merged) : merged[j] < queue[p][i]
    BY <2>1 DEF InOrder
  <2>3. 1 \in 1..Len(merged)
    BY <1>5
  <2>4. lastSeq < n /\ n <= Len(log)
    BY <1>5, <2>2, <2>3
  <2>5. lastSeq' \in Nat /\ lastSeq' <= n /\ ignored' = {}
    BY <1>1, <1>4, <1>5, <2>2, <2>4
  <2>6. /\ Rising(merged')
        /\ \A i \in 1..Len(merged') : n < merged'[i] /\ merged'[i] <= Len(log)
    BY <1>5, <2>2
  <2>7. ASSUME NEW p \in Pattern, NEW i \in 1..Len(queue[p])
        PROVE  /\ n < queue[p][i]
               /\ \A j \in 1..Len(merged') : merged'[j] < queue[p][i]
    <3>1. \A j \in 1..Len(merged) : merged[j] < queue[p][i]
      BY <2>2, <2>7
    <3> QED BY <1>5, <2>3, <3>1
  <2>8. /\ lastSeq' <= Len(log)
        /\ \A i \in 1..Len(merged') : lastSeq' < merged'[i]
        /\ \A p \in Pattern : \A i \in 1..Len(queue[p]) : lastSeq' < queue[p][i]
    <3>1. \A s \in Seq(Nat) : \A i \in 1..Len(s) : s[i] \in Nat
      OBVIOUS
    <3>2. /\ \A i \in 1..Len(merged') : merged'[i] \in Nat
          /\ \A p \in Pattern : \A i \in 1..Len(queue[p]) : queue[p][i] \in Nat
      BY <1>4, <1>5, <3>1
    <3>3. \A m \in Nat : n < m => lastSeq' < m
      BY <1>5, <2>5
    <3>4. lastSeq' <= Len(log)
      BY <1>4, <1>5, <2>4, <2>5
    <3> QED BY <2>6, <2>7, <3>2, <3>3, <3>4
  <2> QED
    BY <1>1, <1>2, <1>3, <2>2, <2>5, <2>6, <2>7, <2>8 DEF InOrder, Rising
<1>10. NothingIsLostWithinLimits'
  <2>1. ToSet(merged) \subseteq ToSet(merged') \cup {n}
    <3>1. DOMAIN merged = 1..Len(merged) /\ DOMAIN merged' = 1..Len(merged')
      BY <1>4, <1>5
    <3>2. SUFFICES ASSUME NEW i \in 1..Len(merged), merged[i] # n
                   PROVE  merged[i] \in ToSet(merged')
      BY <3>1 DEF ToSet
    <3>3. i # 1
      BY <1>5, <3>2
    <3>4. i - 1 \in 1..Len(merged')
      BY <1>5, <3>3
    <3>5. merged'[i - 1] = merged[i - 1 + 1] /\ i - 1 + 1 = i
      BY <1>5, <3>4
    <3> QED BY <3>1, <3>4, <3>5 DEF ToSet
  <2>2. Known \cup split \subseteq (Known \cup split)'
    BY <1>1, <1>3, <2>1 DEF Known, Arriving
  <2>3. \A m : Wanted(m)' <=> Wanted(m)
    BY <1>1, <1>3 DEF Wanted, Matches
  <2> QED BY <1>1, <1>2, <2>2, <2>3 DEF NothingIsLostWithinLimits
<1> QED BY <1>6, <1>7, <1>8, <1>9, <1>10

\* What a pump takes goes to the merged queue, which holds it all within the
\* limits.
LEMMA PumpKeepsStreamInv ==
  ASSUME StreamInv, Pump
  PROVE  StreamInv'
<1> USE DEF StreamInv
<1>1. PICK p \in Pattern :
        /\ TakeAll(p)
        /\ merged' = LastN(merged \o queue[p], MergedMax)
  BY DEF Pump
<1>2. /\ stage = "live" /\ queue' = [queue EXCEPT ![p] = <<>>]
      /\ UNCHANGED <<asked, log, since, stage, toReplay, client, lastSeq, shown,
                     ignored, split, restarted>>
  BY <1>1 DEF Pump, TakeAll, reader
<1>3. Subscribed /\ toReplay = <<>>
  BY <1>2 DEF StagesHold
<1>4. Pattern' = Pattern /\ Subscribed'
  BY <1>2, <1>3 DEF Pattern, Subscribed
<1> DEFINE all == merged \o queue[p]
<1>5. /\ merged \in Seq(Nat) /\ lastSeq \in Nat /\ Len(log) \in Nat
      /\ queue \in [Pattern -> Seq(Nat)] /\ since \in Int /\ since <= Len(log)
      /\ MergedMax \in Nat
  BY StreamAssumption DEF StreamTypes
<1>6. /\ all \in Seq(Nat) /\ Len(all) = Len(merged) + Len(queue[p])
      /\ Len(merged) \in Nat /\ Len(queue[p]) \in Nat
      /\ \A i \in 1..Len(merged) : all[i] = merged[i]
      /\ \A i \in 1..Len(queue[p]) : all[Len(merged) + i] = queue[p][i]
  BY <1>5
<1>7. /\ merged' \in Seq(Nat) /\ Len(merged') \in Nat /\ Len(merged') <= Len(all)
      /\ Len(all) <= MergedMax => merged' = all
      /\ \A i \in 1..Len(merged') : \E j \in 1..Len(all) : merged'[i] = all[j]
      /\ Rising(all) => Rising(merged')
  <2> HIDE DEF all
  <2>1. merged' = LastN(all, MergedMax)
    BY <1>1 DEF all
  <2>2. /\ merged' \in Seq(Nat)
        /\ Len(merged') = IF Len(all) <= MergedMax THEN Len(all) ELSE MergedMax
    BY <1>5, <1>6, <2>1, LastNIs
  <2>3. \A i \in 1..Len(merged') : \E j \in 1..Len(all) : merged'[i] = all[j]
    <3>1. all \in Seq(Nat) /\ MergedMax \in Nat
      BY <1>5, <1>6
    <3>2. \A i \in 1..Len(LastN(all, MergedMax)) :
            \E j \in 1..Len(all) : LastN(all, MergedMax)[i] = all[j]
      BY <3>1, LastNHas
    <3> QED BY <2>1, <3>2
  <2>4. Rising(all) => Rising(merged')
    BY <1>5, <1>6, <2>1, LastNRises
  <2>5. Len(all) <= MergedMax => merged' = all
    BY <2>1 DEF LastN
  <2> QED BY <1>5, <1>6, <2>2, <2>3, <2>4, <2>5
<1>8. \A i \in 1..Len(all) :
        \/ i \in 1..Len(merged) /\ all[i] = merged[i]
        \/ i - Len(merged) \in 1..Len(queue[p])
           /\ all[i] = queue[p][i - Len(merged)]
  BY <1>6
<1>9. /\ queue' \in [Pattern -> Seq(Nat)] /\ queue'[p] = <<>>
      /\ \A q \in Pattern : q # p => queue'[q] = queue[q]
  BY <1>2, <1>5
<1>10. StreamTypes'
  <2> HIDE DEF all
  <2> QED BY <1>2, <1>4, <1>7, <1>9 DEF StreamTypes
<1>11. StagesHold'
  BY <1>2, <1>3, <1>4 DEF StagesHold
<1>12. /\ \A q \in Pattern : Len(queue[q]) <= Len(log) - since
       /\ Len(all) + Cardinality(Slots(Pattern, queue'))
            <= Len(asked) * (Len(log) - since)
       /\ Cardinality(Slots(Pattern, queue')) \in Nat
       /\ Len(asked) \in Nat /\ Len(log) - since \in Nat
       /\ Len(asked) * (Len(log) - since) \in Nat
  <2> HIDE DEF all
  <2>1. /\ \A q \in Pattern : Len(queue[q]) <= Len(log) - since
        /\ Len(merged) + Cardinality(Slots(Pattern, queue))
             <= Len(asked) * (Len(log) - since)
    BY <1>3 DEF NoMoreThanPublished
  <2>2. /\ Len(asked) \in Nat /\ IsFiniteSet(Pattern)
        /\ Len(log) - since \in Nat /\ Len(asked) * (Len(log) - since) \in Nat
    BY <1>5, PatternsAreCounted
  <2>3. Cardinality(Slots(Pattern, queue')) + Len(queue[p])
          = Cardinality(Slots(Pattern, queue))
    BY <1>2, <1>5, <2>1, <2>2, SlotsTaken
  <2>4. \A q \in Pattern : Len(queue'[q]) <= Len(log) - since
    <3>1. Len(queue'[p]) = 0
      BY <1>9
    <3> QED BY <1>9, <2>1, <2>2, <3>1
  <2>5. Cardinality(Slots(Pattern, queue')) \in Nat
    BY <1>9, <2>2, <2>4, SlotsAreFinite
  <2>6. Cardinality(Slots(Pattern, queue)) \in Nat
    BY <1>5, <2>1, <2>2, SlotsAreFinite
  <2> QED BY <1>6, <2>1, <2>2, <2>3, <2>5, <2>6
<1>13. NoMoreThanPublished'
  <2> HIDE DEF all
  <2>1. \A q \in Pattern : Len(queue'[q]) <= Len(log) - since
    <3>1. Len(queue'[p]) = 0
      BY <1>9
    <3>2. \A q \in Pattern : Len(queue[q]) <= Len(log) - since
      BY <1>12
    <3>3. Len(log) - since \in Nat
      BY <1>12
    <3>4. ASSUME NEW q \in Pattern PROVE Len(queue'[q]) <= Len(log) - since
      <4>1. CASE q = p
        BY <3>1, <3>3, <4>1
      <4>2. CASE q # p
        BY <1>9, <3>2, <4>2
      <4> QED BY <4>1, <4>2
    <3> QED BY <3>4
  <2>2. Len(merged') + Cardinality(Slots(Pattern, queue'))
          <= Len(asked) * (Len(log) - since)
    BY <1>6, <1>7, <1>12
  <2> QED BY <1>2, <1>4, <2>1, <2>2 DEF NoMoreThanPublished
<1>14. InOrder'
  <2>1. SUFFICES ASSUME Len(asked) = 1, ~restarted PROVE InOrder'
    BY <1>2 DEF InOrder
  <2>2. /\ ignored = {} /\ lastSeq <= Len(log)
        /\ Rising(merged)
        /\ \A i \in 1..Len(merged) : lastSeq < merged[i] /\ merged[i] <= Len(log)
        /\ \A q \in Pattern :
             /\ Rising(queue[q])
             /\ \A i \in 1..Len(queue[q]) :
                  /\ lastSeq < queue[q][i] /\ queue[q][i] <= Len(log)
                  /\ \A j \in 1..Len(merged) : merged[j] < queue[q][i]
    BY <2>1 DEF InOrder
  <2>3. \A q \in Pattern : q = p
    <3>1. asked \in Seq(DOMAIN Matched)
      BY BusAssumption DEF StreamTypes
    <3>2. DOMAIN asked = {1}
      BY <2>1, <3>1
    <3>3. Pattern = {asked[1]}
      BY <3>2 DEF Pattern, ToSet
    <3> QED BY <3>3
  <2>4. Rising(all)
    <3> HIDE DEF all
    <3>1. SUFFICES ASSUME NEW i \in 1..Len(all), NEW j \in 1..Len(all), i < j
                   PROVE  all[i] < all[j]
      BY DEF Rising
    <3>2. CASE j \in 1..Len(merged)
      <4>1. i \in 1..Len(merged)
        BY <1>6, <3>1, <3>2
      <4> QED BY <1>6, <2>2, <3>1, <3>2, <4>1 DEF Rising
    <3>3. CASE j \notin 1..Len(merged)
      <4>1. /\ j - Len(merged) \in 1..Len(queue[p])
            /\ all[j] = queue[p][j - Len(merged)]
        BY <1>8, <3>3
      <4>2. CASE i \in 1..Len(merged)
        BY <1>6, <2>2, <4>1, <4>2
      <4>3. CASE i \notin 1..Len(merged)
        <5>1. /\ i - Len(merged) \in 1..Len(queue[p])
              /\ all[i] = queue[p][i - Len(merged)]
          BY <1>8, <4>3
        <5>2. i - Len(merged) < j - Len(merged)
          BY <1>6, <3>1
        <5> QED BY <2>2, <4>1, <5>1, <5>2 DEF Rising
      <4> QED BY <4>2, <4>3
    <3> QED BY <3>2, <3>3
  <2>5. \A i \in 1..Len(all) : lastSeq < all[i] /\ all[i] <= Len(log)
    <3> HIDE DEF all
    <3> QED BY <1>8, <2>2
  <2> HIDE DEF all
  <2>6. /\ Rising(merged')
        /\ \A i \in 1..Len(merged') : lastSeq < merged'[i] /\ merged'[i] <= Len(log)
    BY <1>7, <2>4, <2>5
  <2>7. \A q \in Pattern : queue'[q] = <<>>
    BY <1>9, <2>3
  <2> QED
    BY <1>2, <1>3, <1>4, <2>2, <2>6, <2>7 DEF InOrder, Rising
<1>15. NothingIsLostWithinLimits'
  <2>1. SUFFICES ASSUME Len(log) - since <= QueueMax,
                        Len(asked) * (Len(log) - since) <= MergedMax,
                        NEW n \in since + 1..Len(log), Wanted(n)
                 PROVE  n \in Known' \cup split'
    BY <1>2, <1>4 DEF NothingIsLostWithinLimits, Wanted, Matches
  <2>2. n \in Known \cup split
    BY <1>3, <2>1 DEF NothingIsLostWithinLimits
  <2>3. merged' = all
    <3> HIDE DEF all
    <3>1. Len(all) <= MergedMax
      BY <1>5, <1>6, <1>12, <2>1
    <3> QED BY <1>7, <3>1
  <2>4. ToSet(merged) \subseteq ToSet(merged') /\ ToSet(queue[p]) \subseteq ToSet(merged')
    <3> HIDE DEF all
    <3>1. /\ DOMAIN merged = 1..Len(merged) /\ DOMAIN all = 1..Len(all)
          /\ DOMAIN queue[p] = 1..Len(queue[p])
      BY <1>5, <1>6
    <3>2. \A i \in 1..Len(merged) : i \in 1..Len(all) /\ merged[i] = all[i]
      BY <1>6
    <3>3. \A i \in 1..Len(queue[p]) :
            Len(merged) + i \in 1..Len(all) /\ queue[p][i] = all[Len(merged) + i]
      BY <1>6
    <3> QED BY <2>3, <3>1, <3>2, <3>3 DEF ToSet
  <2>5. \A q \in Pattern : q # p => ToSet(queue[q]) \subseteq ToSet(queue'[q])
    BY <1>9
  <2> QED BY <1>2, <1>4, <2>2, <2>4, <2>5 DEF Known, Arriving
<1> QED BY <1>10, <1>11, <1>13, <1>14, <1>15

LEMMA NextKeepsStreamInv ==
  ASSUME StreamInv, [StreamNext]_streamVars
  PROVE  StreamInv'
<1>1. CASE PublishEvent BY <1>1, PublishKeepsStreamInv
<1>2. CASE Connect BY <1>2, ConnectKeepsStreamInv
<1>3. CASE SendReplayed BY <1>3, SendReplayedKeepsStreamInv
<1>4. CASE ReplayDone BY <1>4, ReplayDoneKeepsStreamInv
<1>5. CASE PumpsRegister BY <1>5, PumpsRegisterKeepsStreamInv
<1>6. CASE Pump BY <1>6, PumpKeepsStreamInv
<1>7. CASE SendLive BY <1>7, SendLiveKeepsStreamInv
<1>8. CASE ConnectionFails
  BY <1>8, StreamGoneKeepsStreamInv DEF ConnectionFails
<1>9. CASE Restart
  BY <1>9, StreamGoneKeepsStreamInv DEF Restart
<1>10. CASE UNCHANGED streamVars
  <2> USE DEF streamVars, bus, gateway, reader
  <2>1. Pattern' = Pattern /\ Subscribed' = Subscribed
    BY <1>10 DEF Pattern, Subscribed
  <2>2. StreamTypes' /\ StagesHold'
    BY <1>10, <2>1 DEF StreamInv, StreamTypes, StagesHold
  <2>3. NoMoreThanPublished'
    BY <1>10, <2>1 DEF StreamInv, NoMoreThanPublished, Slots
  <2>4. InOrder'
    BY <1>10, <2>1 DEF StreamInv, InOrder, Rising
  <2>5. NothingIsLostWithinLimits'
    BY <1>10, <2>1
       DEF StreamInv, NothingIsLostWithinLimits, Known, Arriving, Wanted, Matches
  <2> QED BY <2>2, <2>3, <2>4, <2>5 DEF StreamInv
<1> QED
  BY <1>1, <1>2, <1>3, <1>4, <1>5, <1>6, <1>7, <1>8, <1>9, <1>10
     DEF StreamNext, Serve

LEMMA AlwaysStreamInv == StreamSpec => []StreamInv
BY InitStreamInv, NextKeepsStreamInv, PTL DEF StreamSpec

\* With one pattern and one server process the client discards nothing it has
\* not shown: replay, queues and overflow keep the order of seq.
THEOREM OnlyDuplicatesAreEverIgnored == StreamSpec => []OnlyDuplicatesAreIgnored
<1>1. StreamInv => OnlyDuplicatesAreIgnored
  BY DEF StreamInv, InOrder, OnlyDuplicatesAreIgnored
<1> QED BY <1>1, AlwaysStreamInv, PTL

\* While no more was published since the subscription than the queues hold,
\* whatever the client asked for is seen or on its way, or was split by two reads.
THEOREM NothingIsEverLostWithinLimits == StreamSpec => []NothingIsLostWithinLimits
<1>1. StreamInv => NothingIsLostWithinLimits
  BY DEF StreamInv
<1> QED BY <1>1, AlwaysStreamInv, PTL
-----------------------------------------------------------------------------
(* The supervisor. *)

\* The points of spawn_and_wait_ready between Command::spawn and the moment the
\* child is in its slot.
Starting == {"handshake", "store_handshake", "store_child"}

\* A process that is being started, and the child, were spawned; no number
\* beyond the newest was.
SpawnedAreCounted ==
  /\ pc \in Starting => spawned # 0
  /\ child # NoProcess => child <= spawned
  /\ \A p \in Proc : p > spawned => proc[p] = "none"

\* Nothing is spawned over a child: the slot was emptied, or was never filled.
SlotIsEmpty == pc \in Starting \cup {"spawn"} => child = NoProcess

\* Between the two mutexes the handshake is the new process's already.
HandshakeIsStored == pc = "store_child" => handshake = spawned

\* A live process is the child or the one that is being started.
AliveIsSupervised ==
  "handshake" \notin faults =>
    \A p \in Proc : Alive(p) =>
      \/ p = child
      \/ p = spawned /\ pc \in Starting

\* The inductive invariant.
SupervisorInv ==
  /\ TypeOK /\ SpawnedAreCounted /\ SlotIsEmpty /\ HandshakeIsStored
  /\ HandshakeIsTheChilds /\ AliveIsSupervised
-----------------------------------------------------------------------------
LEMMA ProcIsNotNone == ASSUME NEW p \in Proc PROVE p # NoProcess /\ p \in Nat
BY SupervisorAssumption DEF Proc

LEMMA InitSupervisorInv == ASSUME Init PROVE SupervisorInv
<1>1. TypeOK
  <2>1. proc \in [Proc -> ProcState] BY DEF Init, ProcState
  <2>2. spawned \in 0..MaxProc /\ retry \in 0..MaxRetries
    BY SupervisorAssumption DEF Init
  <2> QED BY <2>1, <2>2 DEF Init, TypeOK, MonitorPC
<1>2. SpawnedAreCounted /\ AliveIsSupervised
  BY DEF Init, SpawnedAreCounted, AliveIsSupervised, Starting, Alive
<1> QED
  BY <1>1, <1>2 DEF Init, SupervisorInv, SlotIsEmpty, HandshakeIsStored,
                    HandshakeIsTheChilds

\* Each action of the monitoring task keeps the types.
LEMMA MonitorKeepsTypes ==
  ASSUME SupervisorInv, Monitor
  PROVE  TypeOK'
<1> USE SupervisorAssumption DEF SupervisorInv, TypeOK, At, shell, Proc, MonitorPC,
        ProcState
<1>1. CASE Spawn BY <1>1 DEF Spawn
<1>2. CASE SpawnFails BY <1>2 DEF SpawnFails, SpawnErr
<1>3. CASE HandshakeRead BY <1>3 DEF HandshakeRead
<1>4. CASE HandshakeFails BY <1>4 DEF HandshakeFails, SpawnErr
<1>5. CASE StoreHandshake
  BY <1>5 DEF StoreHandshake, SpawnedAreCounted, Starting
<1>6. CASE StoreChild BY <1>6 DEF StoreChild, SpawnedAreCounted, Starting
<1>7. CASE EmitFails BY <1>7 DEF EmitFails, SpawnErr
<1>8. CASE Restarted
  <2>1. retry' \in 0..MaxRetries BY <1>8 DEF Restarted
  <2> QED BY <1>8, <2>1 DEF Restarted
<1>9. CASE LoopTop BY <1>9 DEF LoopTop
<1>10. CASE ChildRuns BY <1>10 DEF ChildRuns
<1>11. CASE ChargeRetry BY <1>11 DEF ChargeRetry
<1>12. CASE TakeOldChild BY <1>12 DEF TakeOldChild
<1>13. CASE RestartFailed BY <1>13 DEF RestartFailed
<1> QED BY <1>1, <1>2, <1>3, <1>4, <1>5, <1>6, <1>7, <1>8, <1>9, <1>10,
           <1>11, <1>12, <1>13 DEF Monitor

\* Each action of the monitoring task keeps the slot, the handshake and the
\* count of processes together.
LEMMA MonitorKeepsSlot ==
  ASSUME SupervisorInv, Monitor
  PROVE  /\ SpawnedAreCounted' /\ SlotIsEmpty' /\ HandshakeIsStored'
         /\ HandshakeIsTheChilds'
<1> USE SupervisorAssumption, ProcIsNotNone
    DEF SupervisorInv, TypeOK, SpawnedAreCounted, SlotIsEmpty, HandshakeIsStored,
        HandshakeIsTheChilds, Starting, At, shell, Proc
<1>1. CASE Spawn BY <1>1 DEF Spawn
<1>2. CASE SpawnFails BY <1>2 DEF SpawnFails, SpawnErr
<1>3. CASE HandshakeRead BY <1>3 DEF HandshakeRead
<1>4. CASE HandshakeFails BY <1>4 DEF HandshakeFails, SpawnErr
<1>5. CASE StoreHandshake BY <1>5 DEF StoreHandshake
<1>6. CASE StoreChild BY <1>6 DEF StoreChild
<1>7. CASE EmitFails BY <1>7 DEF EmitFails, SpawnErr
<1>8. CASE Restarted BY <1>8 DEF Restarted
<1>9. CASE LoopTop BY <1>9 DEF LoopTop
<1>10. CASE ChildRuns BY <1>10 DEF ChildRuns
<1>11. CASE ChargeRetry BY <1>11 DEF ChargeRetry
<1>12. CASE TakeOldChild
  <2>1. \A p \in Proc : p > spawned => proc'[p] = proc[p]
    BY <1>12 DEF TakeOldChild
  <2> QED BY <1>12, <2>1 DEF TakeOldChild
<1>13. CASE RestartFailed BY <1>13 DEF RestartFailed
<1> QED BY <1>1, <1>2, <1>3, <1>4, <1>5, <1>6, <1>7, <1>8, <1>9, <1>10,
           <1>11, <1>12, <1>13 DEF Monitor

\* Each action of the monitoring task leaves one sidecar: what is spawned finds
\* the slot empty and every earlier process dead, for the old child was killed.
LEMMA MonitorKeepsOneSidecar ==
  ASSUME SupervisorInv, Monitor
  PROVE  AliveIsSupervised'
<1> SUFFICES ASSUME "handshake" \notin faults, NEW p \in Proc, Alive(p)'
             PROVE  \/ p = child'
                    \/ p = spawned' /\ pc' \in Starting
  BY DEF AliveIsSupervised, Starting, Monitor, Spawn, SpawnFails, HandshakeRead,
         HandshakeFails, StoreHandshake, StoreChild, EmitFails, Restarted,
         LoopTop, ChildRuns, ChargeRetry, TakeOldChild, RestartFailed, shell
<1> USE SupervisorAssumption, ProcIsNotNone
    DEF SupervisorInv, TypeOK, SlotIsEmpty, AliveIsSupervised, Starting, Alive, At, shell
<1>1. CASE Spawn BY <1>1 DEF Spawn, Proc
<1>2. CASE SpawnFails BY <1>2 DEF SpawnFails
<1>3. CASE HandshakeRead BY <1>3 DEF HandshakeRead
<1>4. CASE HandshakeFails BY <1>4 DEF HandshakeFails
<1>5. CASE StoreHandshake BY <1>5 DEF StoreHandshake
<1>6. CASE StoreChild BY <1>6 DEF StoreChild
<1>7. CASE EmitFails BY <1>7 DEF EmitFails
<1>8. CASE Restarted BY <1>8 DEF Restarted
<1>9. CASE LoopTop BY <1>9 DEF LoopTop
<1>10. CASE ChildRuns BY <1>10 DEF ChildRuns
<1>11. CASE ChargeRetry BY <1>11 DEF ChargeRetry
<1>12. CASE TakeOldChild BY <1>12 DEF TakeOldChild
<1>13. CASE RestartFailed BY <1>13 DEF RestartFailed
<1> QED BY <1>1, <1>2, <1>3, <1>4, <1>5, <1>6, <1>7, <1>8, <1>9, <1>10,
           <1>11, <1>12, <1>13 DEF Monitor

\* Quitting spawns nothing: it only ends processes and empties the slot.
LEMMA ShutdownKeepsSupervisorInv ==
  ASSUME SupervisorInv, UserQuits \/ Shutdown
  PROVE  SupervisorInv'
<1> USE SupervisorAssumption, ProcIsNotNone
    DEF SupervisorInv, TypeOK, SpawnedAreCounted, SlotIsEmpty, HandshakeIsStored,
        HandshakeIsTheChilds, AliveIsSupervised, Starting, Alive, QuitTo,
        MonitorSame, shell, ProcState
<1>1. CASE UserQuits BY <1>1 DEF UserQuits
<1>2. CASE NobodyToAsk BY <1>2 DEF NobodyToAsk
<1>3. CASE PostShutdown
  <2>1. \A p \in Proc : \/ proc'[p] = proc[p]
                        \/ proc[p] = "serving" /\ proc'[p] = "exiting"
    BY <1>3 DEF PostShutdown
  <2> QED BY <1>3, <2>1 DEF PostShutdown, Proc
<1>4. CASE Wait BY <1>4 DEF Wait
<1>5. CASE KillChild
  <2>1. \A p \in Proc : \/ proc'[p] = proc[p] /\ p # child
                        \/ proc'[p] = "dead" /\ p = child
    BY <1>5 DEF KillChild
  <2>2. \A p \in Proc : p > spawned => proc'[p] = "none"
    BY <1>5, <2>1 DEF KillChild, Proc
  <2> QED BY <1>5, <2>1, <2>2 DEF KillChild
<1> QED BY <1>1, <1>2, <1>3, <1>4, <1>5 DEF Shutdown

\* A process comes to life by Spawn only.
LEMMA ProcessKeepsSupervisorInv ==
  ASSUME SupervisorInv, NEW p \in Proc, Process(p)
  PROVE  SupervisorInv'
<1>1. /\ UNCHANGED <<spawned, shell, pc, booting, quit>>
      /\ \E from \in {"starting", "serving", "stuck", "exiting"},
            to \in ProcState \ {"none"} :
           proc[p] = from /\ proc' = [proc EXCEPT ![p] = to]
  BY DEF Process, PrintsReady, Exits, Aborts, Crashes, GetsStuck, ProcStep,
         ProcState
<1> USE DEF SupervisorInv, TypeOK
<1>2. TypeOK' BY <1>1 DEF shell
<1>3. \A q \in Proc : Alive(q)' => Alive(q) BY <1>1 DEF Alive
<1>4. \A q \in Proc : proc[q] = "none" => proc'[q] = "none" BY <1>1
<1>5. AliveIsSupervised' BY <1>1, <1>3 DEF AliveIsSupervised, shell
<1>6. SpawnedAreCounted' BY <1>1, <1>4 DEF SpawnedAreCounted, shell
<1> QED
  BY <1>1, <1>2, <1>5, <1>6
     DEF SlotIsEmpty, HandshakeIsStored, HandshakeIsTheChilds, shell

LEMMA NextSupervisorInv == ASSUME SupervisorInv, [Next]_vars PROVE SupervisorInv'
<1>1. CASE Monitor
  BY <1>1, MonitorKeepsTypes, MonitorKeepsSlot, MonitorKeepsOneSidecar DEF SupervisorInv
<1>2. CASE UserQuits \/ Shutdown BY <1>2, ShutdownKeepsSupervisorInv
<1>3. ASSUME NEW p \in Proc, Process(p) PROVE SupervisorInv'
  BY <1>3, ProcessKeepsSupervisorInv
<1>4. CASE UNCHANGED vars
  BY <1>4 DEF vars, shell, SupervisorInv, TypeOK, SpawnedAreCounted, SlotIsEmpty,
              HandshakeIsStored, HandshakeIsTheChilds, AliveIsSupervised, Alive
<1> QED BY <1>1, <1>2, <1>3, <1>4 DEF Next

LEMMA AlwaysSupervisorInv == Spec => []SupervisorInv
BY InitSupervisorInv, NextSupervisorInv, PTL DEF Spec

\* Every variable keeps its type, and no more retries are charged than
\* MAX_RESTART_RETRIES, whatever goes wrong in whatever order.
THEOREM TypeCorrect == Spec => []TypeOK
BY AlwaysSupervisorInv, PTL DEF SupervisorInv

\* The port and token that the front end and POST /shutdown use are those of
\* the supervised child: spawn_and_wait_ready stores the handshake of a process
\* while the slot is empty, and fills it with that process.
THEOREM HandshakeCorrect == Spec => []HandshakeIsTheChilds
BY AlwaysSupervisorInv, PTL DEF SupervisorInv

\* However crashes, children that cannot be probed, failed attempts and quitting
\* interleave, no two sidecars live at once, as long as no live process's
\* handshake fails: while one is being started there is no child (SlotIsEmpty).
THEOREM OneSidecar == Spec => []NoSecondSidecar
<1>1. SupervisorInv => NoSecondSidecar
  BY ProcIsNotNone DEF SupervisorInv, AliveIsSupervised, SlotIsEmpty, NoSecondSidecar
<1> QED BY <1>1, AlwaysSupervisorInv, PTL
=============================================================================
