---------------------- MODULE SwarmOrchestrator_proofs ----------------------
(***************************************************************************)
(* Theorems about SwarmOrchestrator, for any number of streams, subtasks,  *)
(* answers and worker rows: what a row and a report may say of the work,   *)
(* what a client was told of it, and what a vote over answers decides.     *)
(***************************************************************************)
EXTENDS SwarmOrchestrator, FiniteSetTheorems, WellFoundedInduction, TLAPS

USE DEF Gone, SetStatus, memo

-----------------------------------------------------------------------------
(* Facts about the operators the actions are built from. *)

\* A non-empty finite set of naturals has a largest element: a smallest
\* counterexample, less one of its elements, would be a smaller one.
LEMMA FiniteSetHasLargest ==
  ASSUME NEW S \in SUBSET Nat, IsFiniteSet(S), S # {}
  PROVE  \E m \in S : \A n \in S : n <= m
<1> DEFINE Largest(T) == \E m \in T : \A n \in T : n <= m
           Bad == {T \in FiniteSubsetsOf(Nat) : T # {} /\ ~ Largest(T)}
<1>1. SUFFICES Bad = {}
  BY <1>1 DEF FiniteSubsetsOf
<1>2. SUFFICES ASSUME Bad # {} PROVE FALSE
  OBVIOUS
<1>3. PICK T \in Bad : \A U \in Bad : <<U, T>> \notin StrictSubsetOrdering(Nat)
  <2> HIDE DEF Bad
  <2>1. Bad \subseteq FiniteSubsetsOf(Nat)
    BY DEF Bad
  <2> QED BY <1>2, <2>1, FS_StrictSubsetOrderingWellFounded, WFMin
<1>4. PICK x \in T : TRUE
  OBVIOUS
<1>5. T \subseteq Nat /\ x \in Nat
  BY <1>4 DEF FiniteSubsetsOf
<1> DEFINE U == T \ {x}
<1>6. U # {}
  <2>1. T # {x}
    BY <1>5
  <2> QED BY <2>1, <1>4
<1>7. U \in FiniteSubsetsOf(Nat)
  BY <1>5, FS_RemoveElement DEF FiniteSubsetsOf
<1>8. <<U, T>> \in StrictSubsetOrdering(Nat)
  BY <1>4, <1>5 DEF StrictSubsetOrdering
<1>9. PICK m \in U : \A n \in U : n <= m
  BY <1>3, <1>6, <1>7, <1>8
<1>10. Largest(T)
  <2>1. CASE x <= m
    BY <2>1, <1>9
  <2>2. CASE ~ (x <= m)
    BY <2>2, <1>4, <1>5, <1>9
  <2> QED BY <2>1, <2>2
<1> QED BY <1>10

\* A clamp below and above stays within the clamp.
LEMMA ClampType ==
  ASSUME NEW a \in Nat, NEW b \in Nat, NEW c \in Nat
  PROVE  /\ Greater(a, Lesser(b, c)) \in Nat
         /\ Greater(a, Lesser(b, c)) >= a
BY DEF Greater, Lesser

\* The indices of a stored group are naturals, so the next one is.
LEMMA NextIndexType ==
  ASSUME SwarmAssumption, TypeOK, resizing # NoReport, NEW s \in ReadSubtasks
  PROVE  NextIndex(s) \in Nat
<1> DEFINE G == Group(resizing.read, s)
           I == {resizing.read[w].index : w \in G}
<1>1. resizing.read \in Table /\ NoRow \notin Row
  BY NoRowAssumption DEF TypeOK
<1>2. I \subseteq Nat
  BY <1>1 DEF Group, Table, Row
<1>3. I # {}
  BY DEF ReadSubtasks, ReadRows, Group
<1>4. IsFiniteSet(I)
  <2>1. IsFiniteSet(WorkerId)
    BY FS_Interval DEF WorkerId, SwarmAssumption
  <2>2. IsFiniteSet(G)
    BY <2>1, FS_Subset DEF Group
  <2>3. [w \in G |-> resizing.read[w].index] \in Surjection(G, I)
    BY DEF Surjection
  <2> QED BY <2>2, <2>3, FS_Surjection
<1>5. PICK m \in I : \A n \in I : n <= m
  BY <1>2, <1>3, <1>4, FiniteSetHasLargest
<1> DEFINE largest == CHOOSE i \in I : \A w \in G : resizing.read[w].index <= i
<1>6. largest \in I
  BY <1>5
<1>7. NextIndex(s) = 1 + largest
  BY Zenon DEF NextIndex
<1> HIDE DEF largest, I
<1> QED BY <1>2, <1>6, <1>7

LEMMA EarlierType ==
  ASSUME NEW i \in Nat \ {0}, NEW owner
  PROVE  Earlier(owner, i) \in Nat
<1>1. IsFiniteSet(1..(i - 1))
  BY FS_Interval
<1>2. IsFiniteSet({j \in 1..(i - 1) : owner[j] = owner[i]})
  BY <1>1, FS_Subset
<1> QED BY <1>2, FS_CardinalityType DEF Earlier

LEMMA StoredType == WorkerId \subseteq Nat /\ Stored \subseteq WorkerId
BY DEF WorkerId, Stored

-----------------------------------------------------------------------------
(* Type correctness. *)

LEMMA NewRowType ==
  ASSUME NEW sw \in Swarm, NEW s \in Subtask, NEW i \in Nat
  PROVE  NewRow(sw, s, i) \in Row
BY DEF NewRow, Row, WorkerStatus, Text

LEMMA SelectType ==
  ASSUME worker \in Table, NEW s PROVE Select(s) \in Table
BY DEF Select, Table

LEMMA InsertType ==
  ASSUME worker \in Table, NEW n \in Nat, NEW rows \in [1..n -> Row],
         NEW top \in Nat, Insert(top, rows)
  PROVE  worker' \in Table
<1>1. ASSUME NEW w \in WorkerId PROVE worker'[w] \in Row \cup {NoRow}
  BY DEF Insert, Table
<1> QED BY <1>1 DEF Insert, Table

\* New rows are rows: what dispatch_workers inserts ...
LEMMA DispatchType ==
  ASSUME SwarmAssumption, TypeOK, NEW r \in Run, DispatchWorkers(r)
  PROVE  worker' \in Table
<1> DEFINE Rows(n, owner) ==
             [i \in 1..n |-> NewRow(swarm[r], owner[i], Earlier(owner, i))]
<1>1. PICK top \in 0..MaxRow : \E n \in 1..(MaxRow - top) :
        \E owner \in [1..n -> plan[r]] : Insert(top, Rows(n, owner))
  BY Zenon DEF DispatchWorkers
<1>a. PICK n \in 1..(MaxRow - top) :
        \E owner \in [1..n -> plan[r]] : Insert(top, Rows(n, owner))
  BY <1>1
<1>b. PICK owner \in [1..n -> plan[r]] : Insert(top, Rows(n, owner))
  BY <1>a
<1>2. plan[r] \subseteq Subtask /\ top \in Nat /\ n \in Nat /\ worker \in Table
  BY DEF TypeOK, SwarmAssumption
<1>3. ASSUME NEW i \in 1..n
      PROVE  NewRow(swarm[r], owner[i], Earlier(owner, i)) \in Row
  <2>1. /\ owner[i] \in Subtask /\ Earlier(owner, i) \in Nat
        /\ swarm[r] \in Swarm
    BY <1>2, EarlierType DEF TypeOK
  <2> QED BY <2>1, NewRowType
<1>4. Rows(n, owner) \in [1..n -> Row]
  BY <1>3
<1> QED BY <1>b, <1>2, <1>4, InsertType

\* ... and what resize_workers inserts.
LEMMA ScaleUpType ==
  ASSUME SwarmAssumption, TypeOK, ScaleUp
  PROVE  worker' \in Table
<1> DEFINE New(owner, i) == NewRow(resizing.swarm, owner[i],
                                   NextIndex(owner[i]) + Earlier(owner, i))
           Rows(n, owner) == [i \in 1..n |-> New(owner, i)]
<1>1. PICK top \in 0..MaxRow : \E n \in 0..(MaxRow - top) :
        \E owner \in [1..n -> ReadSubtasks] : Insert(top, Rows(n, owner))
  BY Zenon DEF ScaleUp
<1>a. PICK n \in 0..(MaxRow - top) :
        \E owner \in [1..n -> ReadSubtasks] : Insert(top, Rows(n, owner))
  BY <1>1
<1>b. PICK owner \in [1..n -> ReadSubtasks] : Insert(top, Rows(n, owner))
  BY <1>a
<1>2. top \in Nat /\ n \in Nat /\ worker \in Table /\ resizing # NoReport
  BY DEF ScaleUp, TypeOK, SwarmAssumption
<1>3. ReadSubtasks \subseteq Subtask
  BY <1>2, NoRowAssumption DEF ReadSubtasks, ReadRows, TypeOK, Table, Row
<1>4. ASSUME NEW i \in 1..n PROVE New(owner, i) \in Row
  <2>1. owner[i] \in ReadSubtasks /\ Earlier(owner, i) \in Nat
    BY EarlierType
  <2>2. NextIndex(owner[i]) \in Nat
    BY <1>2, <2>1, NextIndexType
  <2>3. owner[i] \in Subtask
    BY <1>3, <2>1
  <2>4. \A a, b \in Nat : a + b \in Nat
    OBVIOUS
  <2>5. NextIndex(owner[i]) + Earlier(owner, i) \in Nat
    BY ONLY <2>1, <2>2, <2>4, Zenon
  <2>6. resizing.swarm \in Swarm
    BY <1>2 DEF TypeOK
  <2> QED BY <2>3, <2>5, <2>6, NewRowType
<1>5. Rows(n, owner) \in [1..n -> Row]
  BY <1>4
<1> QED BY <1>b, <1>2, <1>5, InsertType

LEMMA TypeInit == SwarmAssumption /\ Init => TypeOK
BY DEF Init, TypeOK, SwarmStatus, Table, PC, Stage, Swarm, SwarmAssumption

\* A stream's own steps keep the types.
LEMMA TypeStream ==
  ASSUME SwarmAssumption, TypeOK, NEW r \in Run,
         Stream(r) \/ Request(r) \/ Disconnect(r) \/ DisconnectEarly(r)
  PROVE  TypeOK'
<1> USE DEF TypeOK, PC, Stage, Goto, Raise
<1>0. ASSUME NEW v \in SwarmStatus
      PROVE  [status EXCEPT ![swarm[r]] = v] \in [Swarm -> SwarmStatus]
  OBVIOUS
<1>1. CASE \/ RejectRun(r) \/ DecomposeFails(r) \/ DispatchFails(r) \/ SwarmGone(r)
           \/ AggregateFails(r) \/ Deliver(r)
           \/ Request(r) \/ Disconnect(r) \/ DisconnectEarly(r)
  BY <1>1 DEF RejectRun, DecomposeFails, DispatchFails, SwarmGone,
              AggregateFails, Deliver, Request, Disconnect, DisconnectEarly
<1>2. CASE StartRun(r) \/ MarkRunning(r) \/ AggregateResults(r)
  BY <1>0, <1>2 DEF StartRun, MarkRunning, AggregateResults, SwarmStatus
<1>3. CASE DecomposeTask(r)
  BY <1>3 DEF DecomposeTask
<1>4. CASE DispatchWorkers(r)
  <2>1. worker' \in Table
    BY <1>4, DispatchType
  <2> QED BY <1>4, <2>1 DEF DispatchWorkers
<1>5. CASE LoadWorkers(r)
  BY <1>5 DEF LoadWorkers
<1>6. CASE Gather(r)
  <2>1. Select(swarm[r]) \in Table
    BY SelectType
  <2> QED BY <1>6, <2>1 DEF Gather
<1> DEFINE Terminal == {"completed", "failed", "stream_ended"}
<1>7. ASSUME NEW e \in Terminal
      PROVE  [published EXCEPT ![r] = @ \cup {e}] \in [Run -> SUBSET Terminal]
  OBVIOUS
<1>8. CASE PublishCompleted(r) \/ CloseStream(r)
  BY <1>7, <1>8 DEF PublishCompleted, CloseStream
<1>9. CASE RecordFailure(r)
  <2>1. status' \in [Swarm -> SwarmStatus]
    BY <1>0, <1>9 DEF RecordFailure, SwarmStatus
  <2> QED BY <1>7, <1>9, <2>1 DEF RecordFailure
<1> QED BY <1>1, <1>2, <1>3, <1>4, <1>5, <1>6, <1>8, <1>9 DEF Stream

\* A worker task writes its own row and its own stage.
LEMMA TypeWorker ==
  ASSUME TypeOK, NEW r \in Run, NEW w \in WorkerId, Worker(r, w)
  PROVE  TypeOK'
<1>0. worker \in Table /\ task \in [Run -> [WorkerId -> Stage]]
  BY DEF TypeOK
<1>1. ASSUME worker[w] # NoRow, NEW s \in WorkerStatus
      PROVE  [worker EXCEPT ![w].status = s] \in Table
  <2>1. [worker[w] EXCEPT !.status = s] \in Row
    BY <1>0, <1>1 DEF Table, Row
  <2> QED BY <1>0, <2>1 DEF Table
<1>2. CASE BeginWorker(r, w) \/ StrandWorker(r, w)
  <2>1. worker' \in Table
    BY <1>1, <1>2, Zenon DEF BeginWorker, StrandWorker, WorkerStatus
  <2>2. CASE BeginWorker(r, w)
    BY <2>1, <2>2 DEF BeginWorker, TypeOK, Stage, SetTask, OnlyTask
  <2>3. CASE StrandWorker(r, w)
    BY <2>1, <2>3 DEF StrandWorker, TypeOK, Stage, SetTask, OnlyTask
  <2> QED BY <1>2, <2>2, <2>3
<1>3. CASE FinishWorker(r, w)
  <2>1. PICK t \in Text :
          worker' = [worker EXCEPT ![w].status = "completed", ![w].result = t]
    BY <1>3 DEF FinishWorker
  <2>2. [worker[w] EXCEPT !.status = "completed", !.result = t] \in Row
    BY <1>0, <1>3 DEF FinishWorker, Table, Row, WorkerStatus
  <2>3. worker' \in Table
    BY <1>0, <2>1, <2>2 DEF Table
  <2> QED BY <1>3, <2>3 DEF FinishWorker, TypeOK, Stage, SetTask, OnlyTask
<1>4. CASE FailWorker(r, w)
  <2>1. worker' \in Table
    BY <1>1, <1>4, Zenon DEF FailWorker, WorkerStatus
  <2> QED BY <1>4, <2>1 DEF FailWorker, TypeOK, Stage, SetTask, OnlyTask
<1>5. CASE LoseWorker(r, w)
  BY <1>5 DEF LoseWorker, TypeOK, Stage, SetTask, OnlyTask
<1> QED BY <1>2, <1>3, <1>4, <1>5 DEF Worker

\* The other requests.
OtherRequest ==
  \/ \E s \in Swarm : CreateSwarm(s) \/ DeleteSwarm(s)
  \/ \E s \in Swarm, v \in ClientStatuses : UpdateStatus(s, v)
  \/ \E s \in Swarm, c \in ResizeCounts : ResizeRead(s, c)
  \/ ScaleUp
  \/ ScaleDown

LEMMA DeleteType ==
  ASSUME TypeOK, NEW rows, Delete(rows)
  PROVE  /\ worker' \in Table /\ orphan' \subseteq Run \X WorkerId
         /\ swarm' = swarm /\ renewed' = renewed
BY DEF TypeOK, Delete, Table, Stored

LEMMA TypeClient ==
  ASSUME SwarmAssumption, TypeOK, OtherRequest
  PROVE  TypeOK'
<1> USE DEF TypeOK, StreamsUnchanged
<1>0. ASSUME NEW s \in Swarm, NEW v \in SwarmStatus
      PROVE  [status EXCEPT ![s] = v] \in [Swarm -> SwarmStatus]
  OBVIOUS
<1>1. CASE \E s \in Swarm, v \in ClientStatuses : UpdateStatus(s, v)
  BY <1>0, <1>1 DEF UpdateStatus, SwarmStatus
<1>2. CASE \E s \in Swarm : CreateSwarm(s)
  BY <1>0, <1>2 DEF CreateSwarm, SwarmStatus
<1>3. CASE \E s \in Swarm : DeleteSwarm(s)
  BY <1>0, <1>3, DeleteType DEF DeleteSwarm, SwarmStatus
<1>4. CASE \E s \in Swarm, c \in ResizeCounts : ResizeRead(s, c)
  <2>1. PICK s \in Swarm, c \in ResizeCounts : ResizeRead(s, c)
    BY <1>4
  <2>2. Greater(MinWorkers, Lesser(MaxWorkers, c)) \in Nat
    BY ClampType DEF SwarmAssumption
  <2>3. Select(s) \in Table
    BY SelectType
  <2> QED BY <2>1, <2>2, <2>3 DEF ResizeRead
<1>5. CASE ScaleUp
  <2>1. worker' \in Table
    BY <1>5, ScaleUpType
  <2> QED BY <1>5, <2>1 DEF ScaleUp
<1>6. CASE ScaleDown
  BY <1>6, DeleteType DEF ScaleDown
<1> QED BY <1>1, <1>2, <1>3, <1>4, <1>5, <1>6 DEF OtherRequest

\* Every step is one of these.
LEMMA Steps ==
  ASSUME [Next]_vars
  PROVE  \/ \E r \in Run : Stream(r) \/ Request(r) \/ Disconnect(r)
                            \/ DisconnectEarly(r)
         \/ \E r \in Run, w \in WorkerId : Worker(r, w)
         \/ OtherRequest
         \/ UNCHANGED vars
BY DEF Next, Client, OtherRequest

LEMMA TypeStep ==
  ASSUME SwarmAssumption, TypeOK, [Next]_vars
  PROVE  TypeOK'
<1>1. CASE \E r \in Run : Stream(r) \/ Request(r) \/ Disconnect(r) \/ DisconnectEarly(r)
  BY <1>1, TypeStream
<1>2. CASE \E r \in Run, w \in WorkerId : Worker(r, w)
  BY <1>2, TypeWorker
<1>3. CASE UNCHANGED vars
  BY <1>3 DEF vars, TypeOK
<1> QED BY <1>1, <1>2, <1>3, Steps, TypeClient

\* Rows stay rows of planned subtasks, and every stream and task stays at one
\* of the points of run_swarm and execute_worker.
THEOREM TypeCorrect == Spec => []TypeOK
<1>1. Init => TypeOK
  BY SwarmAssumption, TypeInit
<1>2. TypeOK /\ [Next]_vars => TypeOK'
  BY SwarmAssumption, TypeStep
<1> QED BY <1>1, <1>2, PTL DEF Spec

-----------------------------------------------------------------------------
(* What a step does to a row and to the tasks that are at work on it. *)

\* A new row takes a free id, waits and holds no answer.
Fresh(w) ==
  /\ worker[w] = NoRow
  /\ worker'[w].status = "pending" /\ worker'[w].result = NoText

\* Rows are inserted after every stored one: no stored row is overwritten.
LEMMA InsertedRows ==
  ASSUME NEW n \in Nat, NEW rows, DOMAIN rows = 1..n, NEW top \in Nat,
         \A i \in 1..n : rows[i].status = "pending" /\ rows[i].result = NoText,
         IsLastId(top), Insert(top, rows), NEW w \in WorkerId
  PROVE  worker'[w] = worker[w] \/ Fresh(w)
<1>1. CASE worker[w] # NoRow
  <2>1. w <= top /\ w \in Nat
    BY <1>1 DEF IsLastId, Stored, WorkerId
  <2>2. w - top \notin 1..n
    BY <2>1
  <2> QED BY <2>2 DEF Insert
<1>2. CASE worker[w] = NoRow
  BY <1>2 DEF Insert, Fresh
<1> QED BY <1>1, <1>2

LEMMA DispatchedRows ==
  ASSUME SwarmAssumption, NEW r \in Run, DispatchWorkers(r), NEW w \in WorkerId
  PROVE  worker'[w] = worker[w] \/ Fresh(w)
<1> DEFINE Rows(n, owner) ==
             [i \in 1..n |-> NewRow(swarm[r], owner[i], Earlier(owner, i))]
<1>1. PICK top \in 0..MaxRow : \E n \in 1..(MaxRow - top) :
        \E owner \in [1..n -> plan[r]] : IsLastId(top) /\ Insert(top, Rows(n, owner))
  BY Zenon DEF DispatchWorkers
<1>2. PICK n \in 1..(MaxRow - top) :
        \E owner \in [1..n -> plan[r]] : IsLastId(top) /\ Insert(top, Rows(n, owner))
  BY <1>1
<1>3. PICK owner \in [1..n -> plan[r]] : IsLastId(top) /\ Insert(top, Rows(n, owner))
  BY <1>2
<1>4. top \in Nat /\ n \in Nat
  BY DEF SwarmAssumption
<1>5. \A i \in 1..n : /\ Rows(n, owner)[i].status = "pending"
                      /\ Rows(n, owner)[i].result = NoText
  BY DEF NewRow
<1>6. DOMAIN Rows(n, owner) = 1..n
  OBVIOUS
<1> HIDE DEF Rows
<1> QED BY <1>3, <1>4, <1>5, <1>6, InsertedRows

LEMMA ScaledUpRows ==
  ASSUME SwarmAssumption, ScaleUp, NEW w \in WorkerId
  PROVE  worker'[w] = worker[w] \/ Fresh(w)
<1> DEFINE Rows(n, owner) ==
             [i \in 1..n |->
                NewRow(resizing.swarm, owner[i],
                       NextIndex(owner[i]) + Earlier(owner, i))]
<1>1. PICK top \in 0..MaxRow : \E n \in 0..(MaxRow - top) :
        \E owner \in [1..n -> ReadSubtasks] :
          IsLastId(top) /\ Insert(top, Rows(n, owner))
  BY Zenon DEF ScaleUp
<1>2. PICK n \in 0..(MaxRow - top) :
        \E owner \in [1..n -> ReadSubtasks] :
          IsLastId(top) /\ Insert(top, Rows(n, owner))
  BY <1>1
<1>3. PICK owner \in [1..n -> ReadSubtasks] :
        IsLastId(top) /\ Insert(top, Rows(n, owner))
  BY <1>2
<1>4. top \in Nat /\ n \in Nat
  BY DEF SwarmAssumption
<1>5. \A i \in 1..n : /\ Rows(n, owner)[i].status = "pending"
                      /\ Rows(n, owner)[i].result = NoText
  BY DEF NewRow
<1>6. DOMAIN Rows(n, owner) = 1..n
  OBVIOUS
<1> HIDE DEF Rows
<1> QED BY <1>3, <1>4, <1>5, <1>6, InsertedRows

\* A step of a stream that inserts no row and starts no task leaves both alone.
LEMMA QuietStream ==
  ASSUME NEW r \in Run, Stream(r), ~ DispatchWorkers(r), ~ LoadWorkers(r)
  PROVE  worker' = worker /\ task' = task /\ orphan' = orphan
BY DEF Stream, RejectRun, StartRun, DecomposeFails, DecomposeTask,
   DispatchFails, MarkRunning, SwarmGone, Gather, AggregateResults,
   AggregateFails, PublishCompleted, Deliver, RecordFailure, CloseStream

\* A task that works on its row leaves the row's swarm and subtask alone.
LEMMA WorkedRow ==
  ASSUME TypeOK, NEW r \in Run, NEW w \in WorkerId,
         Worker(r, w), ~ LoseWorker(r, w)
  PROVE  /\ worker[w] \in Row /\ worker'[w] \in Row
         /\ worker'[w].swarm = worker[w].swarm
         /\ worker'[w].subtask = worker[w].subtask
         /\ worker'[w].status # "pending"
         /\ \/ worker'[w].result = worker[w].result
               /\ ~ FinishWorker(r, w) /\ task'[r][w] # "done"
            \/ FinishWorker(r, w) /\ worker'[w].status = "completed"
         /\ worker'[w].status = "running"
              => task'[r][w] \in {"generate", "stranded"}
<1>0. /\ worker \in Table /\ NoRow \notin Row
      /\ task \in [Run -> [WorkerId -> Stage]]
  BY NoRowAssumption DEF TypeOK
<1>1. worker[w] \in Row
  BY <1>0 DEF Worker, BeginWorker, StrandWorker, FinishWorker, FailWorker, Table
<1> DEFINE Set(x) == [worker[w] EXCEPT !.status = x]
           Answered(t) == [worker[w] EXCEPT !.status = "completed", !.result = t]
<1>2. ASSUME NEW x \in WorkerStatus
      PROVE  /\ Set(x) \in Row /\ Set(x).swarm = worker[w].swarm
             /\ Set(x).subtask = worker[w].subtask /\ Set(x).status = x
             /\ Set(x).result = worker[w].result
  BY <1>1 DEF Row
<1>3. ASSUME NEW t \in Text
      PROVE  /\ Answered(t) \in Row /\ Answered(t).swarm = worker[w].swarm
             /\ Answered(t).subtask = worker[w].subtask
             /\ Answered(t).status = "completed"
  BY <1>1 DEF Row, WorkerStatus
<1>4. CASE BeginWorker(r, w)
  <2>1. worker'[w] = Set("running") /\ task'[r][w] = "generate"
    BY <1>0, <1>4 DEF BeginWorker, SetTask, Table
  <2>2. ~ FinishWorker(r, w)
    BY <1>4 DEF BeginWorker, FinishWorker
  <2> HIDE DEF Set
  <2> QED BY <1>1, <1>2, <2>1, <2>2 DEF WorkerStatus
<1>5. CASE StrandWorker(r, w)
  <2>1. worker'[w] = Set("running") /\ task'[r][w] = "stranded"
    BY <1>0, <1>5 DEF StrandWorker, SetTask, Table
  <2>2. ~ FinishWorker(r, w)
    BY <1>5 DEF StrandWorker, FinishWorker
  <2> HIDE DEF Set
  <2> QED BY <1>1, <1>2, <2>1, <2>2 DEF WorkerStatus
<1>6. CASE FinishWorker(r, w)
  <2>1. PICK t \in Text : worker' =
          [worker EXCEPT ![w].status = "completed", ![w].result = t]
    BY <1>6 DEF FinishWorker
  <2>2. worker'[w] = Answered(t)
    BY <1>0, <2>1 DEF Table
  <2> HIDE DEF Answered
  <2> QED BY <1>1, <1>3, <1>6, <2>2
<1>7. CASE FailWorker(r, w)
  <2>1. worker'[w] = Set("failed") /\ task'[r][w] = "failed"
    BY <1>0, <1>7 DEF FailWorker, SetTask, Table
  <2>2. CASE ~ FinishWorker(r, w)
    <3> HIDE DEF Set
    <3> QED BY <1>1, <1>2, <2>1, <2>2 DEF WorkerStatus
  <2> QED BY <1>6, <2>2
<1> QED BY <1>4, <1>5, <1>6, <1>7 DEF Worker

\* The tasks a step leaves at what they do.
SameTasks(w) == \A q \in Run : task'[q][w] = task[q][w]

\* A deletion takes the row of every task it orphans.
Deleted(w) ==
  /\ worker[w] # NoRow /\ worker'[w] = NoRow
  /\ \A q \in Run : task[q][w] # "none" => <<q, w>> \in orphan'
  /\ ScaleDown \/ \E s \in Swarm : DeleteSwarm(s) /\ worker[w].swarm = s

LEMMA DeletedRows ==
  ASSUME NEW rows, Delete(rows), NEW w \in WorkerId
  PROVE  \/ worker'[w] = worker[w]
         \/ /\ w \in rows
            /\ worker[w] # NoRow /\ worker'[w] = NoRow
            /\ \A q \in Run : task[q][w] # "none" => <<q, w>> \in orphan'
BY DEF Delete, Stored

LEMMA OrphansStay ==
  ASSUME [Next]_vars PROVE orphan \subseteq orphan' /\ swarm' = swarm
<1>1. CASE \E r \in Run : Stream(r) \/ Request(r) \/ Disconnect(r) \/ DisconnectEarly(r)
  BY <1>1 DEF Request, Disconnect, DisconnectEarly, Stream, RejectRun, StartRun,
     DecomposeFails, DecomposeTask, DispatchWorkers, DispatchFails, MarkRunning,
     SwarmGone, LoadWorkers, Gather, AggregateResults, AggregateFails,
     PublishCompleted, Deliver, RecordFailure, CloseStream
<1>2. CASE \E r \in Run, w \in WorkerId : Worker(r, w)
  BY <1>2 DEF Worker, BeginWorker, StrandWorker, FinishWorker, FailWorker,
     LoseWorker, OnlyTask
<1>3. CASE OtherRequest
  BY <1>3 DEF OtherRequest, CreateSwarm, DeleteSwarm, UpdateStatus, ResizeRead,
     ScaleUp, ScaleDown, Delete
<1>4. CASE UNCHANGED vars
  BY <1>4 DEF vars
<1> QED BY <1>1, <1>2, <1>3, <1>4, Steps

\* For a row and its tasks a step is one of five.
LEMMA RowSteps ==
  ASSUME SwarmAssumption, TypeOK, [Next]_vars, NEW w \in WorkerId
  PROVE  \/ worker'[w] = worker[w] /\ SameTasks(w)
         \/ Fresh(w) /\ SameTasks(w)
         \/ Deleted(w) /\ SameTasks(w)
         \/ \E r \in Run : LoadWorkers(r)
         \/ \E r \in Run : Worker(r, w)
<1>0. worker \in Table /\ task \in [Run -> [WorkerId -> Stage]]
  BY DEF TypeOK
<1>1. ASSUME NEW r \in Run, DispatchWorkers(r)
      PROVE  SameTasks(w) /\ (worker'[w] = worker[w] \/ Fresh(w))
  <2>1. task' = task
    BY <1>1 DEF DispatchWorkers
  <2> QED BY <1>1, <2>1, DispatchedRows DEF SameTasks
<1>2. ASSUME NEW r \in Run, Stream(r), ~ DispatchWorkers(r), ~ LoadWorkers(r)
      PROVE  SameTasks(w) /\ worker'[w] = worker[w]
  BY <1>2, QuietStream DEF SameTasks
<1>3. ASSUME NEW r \in Run, Request(r) \/ Disconnect(r) \/ DisconnectEarly(r)
      PROVE  SameTasks(w) /\ worker'[w] = worker[w]
  BY <1>3 DEF Request, Disconnect, DisconnectEarly, SameTasks
<1>4. ASSUME NEW r \in Run, NEW v \in WorkerId, Worker(r, v), v # w
      PROVE  SameTasks(w) /\ worker'[w] = worker[w]
  BY <1>0, <1>4 DEF Worker, BeginWorker, StrandWorker, FinishWorker, FailWorker,
     LoseWorker, SetTask, SameTasks, Table
<1>5. CASE OtherRequest
  <2>1. SameTasks(w)
    BY <1>5 DEF OtherRequest, CreateSwarm, DeleteSwarm, UpdateStatus,
       ResizeRead, ScaleUp, ScaleDown, StreamsUnchanged, SameTasks
  <2>2. CASE ScaleUp
    BY <2>1, <2>2, ScaledUpRows
  <2>3. CASE ScaleDown
    <3>1. Delete(Removed)
      BY <2>3 DEF ScaleDown
    <3> QED BY <2>1, <2>3, <3>1, DeletedRows DEF Deleted
  <2>4. ASSUME NEW s \in Swarm, DeleteSwarm(s)
        PROVE  worker'[w] = worker[w] \/ Deleted(w)
    <3>1. Delete(RowsOf(s))
      BY <2>4 DEF DeleteSwarm
    <3>2. w \in RowsOf(s) => worker[w].swarm = s
      BY DEF RowsOf
    <3> QED BY <2>4, <3>1, <3>2, DeletedRows DEF Deleted
  <2>5. CASE \/ \E s \in Swarm : CreateSwarm(s)
             \/ \E s \in Swarm, v \in ClientStatuses : UpdateStatus(s, v)
             \/ \E s \in Swarm, c \in ResizeCounts : ResizeRead(s, c)
    BY <2>1, <2>5 DEF CreateSwarm, UpdateStatus, ResizeRead
  <2> QED BY <1>5, <2>1, <2>2, <2>3, <2>4, <2>5 DEF OtherRequest
<1>6. CASE UNCHANGED vars
  BY <1>6 DEF vars, SameTasks
<1> QED BY <1>1, <1>2, <1>3, <1>4, <1>5, <1>6, Steps

\* Loading starts tasks of one stream, for rows that are there.
LEMMA LoadedTasks ==
  ASSUME TypeOK, NEW r \in Run, LoadWorkers(r), NEW w \in WorkerId
  PROVE  /\ worker' = worker /\ orphan' = orphan
         /\ \A q \in Run \ {r} : task'[q][w] = task[q][w]
         /\ task'[r][w] \in {"start", "none"}
         /\ task'[r][w] = "start" => worker[w] # NoRow
BY DEF TypeOK, LoadWorkers, RowsOf, Stored

\* A task moves alone.
LEMMA MovedTask ==
  ASSUME TypeOK, NEW r \in Run, NEW w \in WorkerId, Worker(r, w)
  PROVE  /\ \A q \in Run \ {r} : task'[q][w] = task[q][w]
         /\ task[r][w] \in {"start", "generate"} /\ task'[r][w] # "none"
         /\ orphan' = orphan
         /\ LoseWorker(r, w) => /\ worker' = worker /\ worker[w] = NoRow
                                /\ task'[r][w] # "done"
BY DEF TypeOK, Worker, BeginWorker, StrandWorker, FinishWorker, FailWorker,
   LoseWorker, SetTask, OnlyTask

-----------------------------------------------------------------------------
(* A row that says "running" is being executed, or was given up. *)

\* Until a stream loads its workers it has no task: LoadWorkers overwrites
\* nothing that runs.
TasksAwaitLoad ==
  \A r \in Run :
    pc[r] \in {"idle", "start", "decompose", "dispatch", "mark", "load"} =>
      \A w \in WorkerId : task[r][w] = "none"

RunningInv == TypeOK /\ TasksAwaitLoad /\ RunningRowsAreExecuted

LEMMA TasksAwaitLoadStep ==
  ASSUME TypeOK, TasksAwaitLoad, [Next]_vars
  PROVE  TasksAwaitLoad'
<1> USE DEF TasksAwaitLoad, Goto, Raise
<1>0. task \in [Run -> [WorkerId -> Stage]] /\ pc \in [Run -> PC]
  BY DEF TypeOK
<1>1. ASSUME NEW r \in Run, LoadWorkers(r) PROVE TasksAwaitLoad'
  BY <1>0, <1>1 DEF LoadWorkers
<1>2. ASSUME NEW r \in Run, Stream(r), ~ LoadWorkers(r) PROVE TasksAwaitLoad'
  BY <1>0, <1>2 DEF Stream, RejectRun, StartRun, DecomposeFails, DecomposeTask,
     DispatchWorkers, DispatchFails, MarkRunning, SwarmGone, Gather,
     AggregateResults, AggregateFails, PublishCompleted, Deliver, RecordFailure,
     CloseStream
<1>3. ASSUME NEW r \in Run, NEW w \in WorkerId, Worker(r, w)
      PROVE  TasksAwaitLoad'
  <2>1. task[r][w] # "none" /\ pc' = pc
    BY <1>3 DEF Worker, BeginWorker, StrandWorker, FinishWorker, FailWorker,
       LoseWorker, OnlyTask
  <2>2. \A q \in Run : q # r => task'[q] = task[q]
    BY <1>0, <1>3 DEF Worker, BeginWorker, StrandWorker, FinishWorker,
       FailWorker, LoseWorker, SetTask
  <2> QED BY <2>1, <2>2
<1>4. ASSUME NEW r \in Run, Request(r) \/ Disconnect(r) \/ DisconnectEarly(r)
      PROVE  TasksAwaitLoad'
  BY <1>0, <1>4 DEF Request, Disconnect, DisconnectEarly
<1>5. CASE OtherRequest
  BY <1>0, <1>5 DEF OtherRequest, CreateSwarm, DeleteSwarm, UpdateStatus,
     ResizeRead, ScaleUp, ScaleDown, StreamsUnchanged
<1>6. CASE UNCHANGED vars
  BY <1>6 DEF vars
<1> QED BY <1>1, <1>2, <1>3, <1>4, <1>5, <1>6, Steps

\* A row keeps its task while the task generates: the three sessions of
\* execute_worker are the only ones to set or leave "running".
LEMMA RunningStep ==
  ASSUME SwarmAssumption, RunningInv, [Next]_vars
  PROVE  RunningRowsAreExecuted'
<1> DEFINE Held(w) == \E q \in Run : task[q][w] \in {"generate", "stranded"}
<1>0. TypeOK /\ TasksAwaitLoad
  BY DEF RunningInv
<1>1. SUFFICES ASSUME NEW w \in WorkerId,
                      worker'[w] # NoRow, worker'[w].status = "running"
               PROVE  Held(w)'
  BY DEF RunningRowsAreExecuted, Stored
<1>2. worker[w] # NoRow /\ worker[w].status = "running" => Held(w)
  BY DEF RunningInv, RunningRowsAreExecuted, Stored
<1>3. CASE worker'[w] = worker[w] /\ SameTasks(w)
  BY <1>1, <1>2, <1>3 DEF SameTasks
<1>4. CASE Fresh(w) \/ Deleted(w)
  BY <1>1, <1>4 DEF Fresh, Deleted
<1>5. ASSUME NEW r \in Run, LoadWorkers(r) PROVE Held(w)'
  <2>1. worker' = worker /\ \A q \in Run \ {r} : task'[q][w] = task[q][w]
    BY <1>0, <1>5, LoadedTasks
  <2>2. PICK q \in Run : task[q][w] \in {"generate", "stranded"}
    BY <1>1, <1>2, <2>1
  <2>3. q # r
    BY <1>0, <1>5, <2>2 DEF LoadWorkers, TasksAwaitLoad
  <2> QED BY <2>1, <2>2, <2>3
<1>6. ASSUME NEW r \in Run, Worker(r, w) PROVE Held(w)'
  BY <1>0, <1>1, <1>6, WorkedRow, MovedTask
<1> QED BY <1>0, <1>3, <1>4, <1>5, <1>6, RowSteps

\* Whatever clients do (leave, resize, delete, create, run a swarm again), a
\* row that says "running" has a task that generates for it, or was given up by
\* a task that found no provider.
THEOREM RunningCorrect == Spec => []RunningRowsAreExecuted
<1>1. Init => RunningInv
  <2>1. Init => TasksAwaitLoad /\ RunningRowsAreExecuted
    BY DEF Init, TasksAwaitLoad, RunningRowsAreExecuted, Stored
  <2> QED BY <2>1, SwarmAssumption, TypeInit DEF RunningInv
<1>2. RunningInv /\ [Next]_vars => RunningInv'
  BY SwarmAssumption, TypeStep, TasksAwaitLoadStep, RunningStep DEF RunningInv
<1>3. RunningInv => RunningRowsAreExecuted
  BY DEF RunningInv
<1> QED BY <1>1, <1>2, <1>3, PTL DEF Spec

-----------------------------------------------------------------------------
(* A row that waits was begun by none but an orphaned task. *)

\* Only a deletion parts a task from its row, and it is remembered.
TasksHaveRows ==
  \A r \in Run, w \in WorkerId :
    task[r][w] # "none" => worker[w] # NoRow \/ <<r, w>> \in orphan

PendingInv == TypeOK /\ TasksHaveRows /\ PendingRowsAreUntouched

\* Rows and tasks stay together, and a task moves its own row.
LEMMA PendingStep ==
  ASSUME SwarmAssumption, PendingInv, [Next]_vars
  PROVE  TasksHaveRows' /\ PendingRowsAreUntouched'
<1> DEFINE Kept(r, w) ==
             \/ <<r, w>> \in orphan
             \/ /\ task[r][w] # "none" => worker[w] # NoRow
                /\ worker[w] # NoRow /\ worker[w].status = "pending"
                     => task[r][w] \in {"none", "start"}
<1>0. TypeOK /\ NoRow \notin Row
  BY NoRowAssumption DEF PendingInv
<1>1. SUFFICES ASSUME NEW r \in Run, NEW w \in WorkerId PROVE Kept(r, w)'
  BY DEF TasksHaveRows, PendingRowsAreUntouched, Stored
<1>2. Kept(r, w)
  BY DEF PendingInv, TasksHaveRows, PendingRowsAreUntouched, Stored
<1>3. orphan \subseteq orphan'
  BY OrphansStay
<1>4. CASE <<r, w>> \in orphan
  BY <1>3, <1>4
<1>5. CASE <<r, w>> \notin orphan
  <2>1. CASE worker'[w] = worker[w] /\ SameTasks(w)
    BY <1>2, <1>5, <2>1 DEF SameTasks
  <2>2. CASE Fresh(w) /\ SameTasks(w)
    BY <1>2, <1>5, <2>2 DEF Fresh, SameTasks
  <2>3. CASE Deleted(w) /\ SameTasks(w)
    BY <2>3 DEF Deleted, SameTasks
  <2>4. ASSUME NEW q \in Run, LoadWorkers(q) PROVE Kept(r, w)'
    BY <1>0, <1>2, <1>5, <2>4, LoadedTasks
  <2>5. ASSUME NEW q \in Run, Worker(q, w), ~ LoseWorker(q, w)
        PROVE  Kept(r, w)'
    <3>1. worker'[w] \in Row /\ worker'[w].status # "pending"
      BY <1>0, <2>5, WorkedRow
    <3> QED BY <1>0, <3>1
  <2>6. ASSUME NEW q \in Run, LoseWorker(q, w) PROVE Kept(r, w)'
    <3>1. Worker(q, w)
      BY <2>6 DEF Worker
    <3>2. /\ worker' = worker /\ worker[w] = NoRow /\ task[q][w] # "none"
          /\ \A p \in Run \ {q} : task'[p][w] = task[p][w]
      BY <1>0, <2>6, <3>1, MovedTask
    <3>3. q # r
      BY <1>2, <1>5, <3>2
    <3> QED BY <1>2, <1>5, <3>2, <3>3
  <2> QED BY <1>0, <2>1, <2>2, <2>3, <2>4, <2>5, <2>6, RowSteps
<1> QED BY <1>4, <1>5

\* A row that waits was begun by no task of any stream, except by one whose own
\* row was deleted, however many streams run, whatever swarms are resized,
\* deleted and created, and whatever ids are given out again.
THEOREM PendingCorrect == Spec => []PendingRowsAreUntouched
<1>1. Init => PendingInv
  <2>1. Init => TasksHaveRows /\ PendingRowsAreUntouched
    BY DEF Init, TasksHaveRows, PendingRowsAreUntouched, Stored
  <2> QED BY <2>1, SwarmAssumption, TypeInit DEF PendingInv
<1>2. PendingInv /\ [Next]_vars => PendingInv'
  BY SwarmAssumption, TypeStep, PendingStep DEF PendingInv
<1>3. PendingInv => PendingRowsAreUntouched
  BY DEF PendingInv
<1> QED BY <1>1, <1>2, <1>3, PTL DEF Spec


-----------------------------------------------------------------------------
(* What a report says of the plan. *)

Unresized == resizing = NoReport

HasRow(t, s) ==
  \E w \in WorkerId :
    worker[w] # NoRow /\ worker[w].swarm = t /\ worker[w].subtask = s

\* From dispatch_workers to verify_results every planned subtask has a row,
\* and from there on the report has an entry for it.
RowsCoverPlan ==
  \A r \in Run :
    pc[r] \in {"mark", "load", "gather"} /\ ~ Gone(r) /\ r \notin renewed =>
      \A s \in plan[r] : HasRow(swarm[r], s)
ReportCoversPlan ==
  \A r \in Run :
    /\ \/ pc[r] = "aggregate" /\ ~ Gone(r)
       \/ pc[r] \in {"announce", "deliver"}
    /\ r \notin renewed
    => plan[r] \subseteq DOMAIN report[r]
CompletedIsLast ==
  \A r \in Run :
    "completed" \in published[r] => pc[r] \in {"deliver", "closing", "ended"}

PlanInv ==
  /\ TypeOK /\ Unresized
  /\ DOMAIN report = Run
  /\ RowsCoverPlan /\ ReportCoversPlan /\ CompletedIsLast
  /\ CompletedReportCoversPlan

\* A subtask's clamped count is at least MinGroup, so it gets a row.
LEMMA DispatchCoversPlan ==
  ASSUME SwarmAssumption, TypeOK, NEW r \in Run, DispatchWorkers(r),
         NEW s \in plan[r]
  PROVE  HasRow(swarm[r], s)'
<1> DEFINE Rows(n, owner) ==
             [i \in 1..n |-> NewRow(swarm[r], owner[i], Earlier(owner, i))]
           Done(top, n, owner) ==
             /\ Cardinality({i \in 1..n : owner[i] = s}) \in GroupSizes
             /\ Insert(top, Rows(n, owner))
<1>1. PICK top \in 0..MaxRow : \E n \in 1..(MaxRow - top) :
        \E owner \in [1..n -> plan[r]] : Done(top, n, owner)
  BY Zenon DEF DispatchWorkers
<1>2. PICK n \in 1..(MaxRow - top) :
        \E owner \in [1..n -> plan[r]] : Done(top, n, owner)
  BY <1>1
<1>3. PICK owner \in [1..n -> plan[r]] : Done(top, n, owner)
  BY <1>2
<1>4. {i \in 1..n : owner[i] = s} # {}
  <2>1. \A c \in GroupSizes : c >= 1
    <3>1. ASSUME NEW a \in AskedCounts
          PROVE  Greater(MinGroup, Lesser(MaxGroup, a)) >= MinGroup
      BY ClampType DEF SwarmAssumption
    <3>2. ASSUME NEW a \in AskedCounts
          PROVE  Greater(MinGroup, Lesser(MaxGroup, a)) \in Nat
      BY ClampType DEF SwarmAssumption
    <3> QED BY <3>1, <3>2 DEF GroupSizes, SwarmAssumption
  <2> DEFINE Mine == {i \in 1..n : owner[i] = s}
  <2>2. Cardinality(Mine) >= 1
    BY <1>3, <2>1
  <2>3. \A S : S = {} => Cardinality(S) = 0
    BY FS_EmptySet
  <2> HIDE DEF Mine
  <2>4. Mine # {}
    BY <2>2, <2>3
  <2> QED BY <2>4 DEF Mine
<1>5. PICK i \in 1..n : owner[i] = s
  BY <1>4
<1>6. top \in Nat /\ n \in Nat /\ MaxRow \in Nat /\ n <= MaxRow - top
  BY DEF SwarmAssumption
<1>7. top + i \in WorkerId /\ (top + i) - top = i
  BY <1>5, <1>6 DEF WorkerId
<1>8. worker'[top + i] = Rows(n, owner)[i]
  BY <1>3, <1>5, <1>7 DEF Insert
<1>9. Rows(n, owner)[i] = NewRow(swarm[r], s, Earlier(owner, i))
  BY <1>5
<1>10. NewRow(swarm[r], s, Earlier(owner, i)) \in Row
  BY <1>5, EarlierType, NewRowType DEF TypeOK
<1>11. /\ NewRow(swarm[r], s, Earlier(owner, i)).subtask = s
       /\ NewRow(swarm[r], s, Earlier(owner, i)).swarm = swarm[r]
  BY DEF NewRow
<1>12. swarm' = swarm
  BY DEF DispatchWorkers
<1> QED BY <1>7, <1>8, <1>9, <1>10, <1>11, <1>12, NoRowAssumption DEF HasRow

\* Nothing resizes a swarm.
LEMMA UnresizedStep ==
  ASSUME ResizeCounts = {}, Unresized, [Next]_vars
  PROVE  Unresized'
<1> USE DEF Unresized
<1>1. CASE \E r \in Run : Stream(r) \/ Request(r) \/ Disconnect(r) \/ DisconnectEarly(r)
  BY <1>1 DEF Request, Disconnect, DisconnectEarly, Stream, RejectRun, StartRun,
     DecomposeFails, DecomposeTask, DispatchWorkers, DispatchFails, MarkRunning,
     SwarmGone, LoadWorkers, Gather, AggregateResults, AggregateFails,
     PublishCompleted, Deliver, RecordFailure, CloseStream
<1>2. CASE \E r \in Run, w \in WorkerId : Worker(r, w)
  BY <1>2 DEF Worker, BeginWorker, StrandWorker, FinishWorker, FailWorker,
     LoseWorker, OnlyTask
<1>3. CASE OtherRequest
  BY <1>3 DEF OtherRequest, CreateSwarm, DeleteSwarm, UpdateStatus, ScaleUp,
     ScaleDown
<1>4. CASE UNCHANGED vars
  BY <1>4 DEF vars
<1> QED BY <1>1, <1>2, <1>3, <1>4, Steps

\* No step but the deletion of its swarm drops a row, and none moves one to
\* another subtask.
LEMMA RowsStay ==
  ASSUME SwarmAssumption, TypeOK, Unresized, [Next]_vars,
         NEW t \in Swarm, status'[t] # "gone", NEW s, HasRow(t, s)
  PROVE  HasRow(t, s)'
<1>0. NoRow \notin Row /\ status \in [Swarm -> SwarmStatus]
  BY NoRowAssumption DEF TypeOK
<1>1. PICK w \in WorkerId :
        worker[w] # NoRow /\ worker[w].swarm = t /\ worker[w].subtask = s
  BY DEF HasRow
<1>2. CASE worker'[w] = worker[w]
  BY <1>1, <1>2 DEF HasRow
<1>3. CASE Deleted(w)
  <2>1. ~ ScaleDown
    BY DEF ScaleDown, Unresized
  <2>2. DeleteSwarm(t)
    BY <1>1, <1>3, <2>1 DEF Deleted
  <2> QED BY <1>0, <2>2 DEF DeleteSwarm
<1>4. ASSUME NEW q \in Run, LoadWorkers(q) PROVE worker' = worker
  BY <1>4 DEF LoadWorkers
<1>5. ASSUME NEW q \in Run, Worker(q, w), ~ LoseWorker(q, w)
      PROVE  HasRow(t, s)'
  <2>1. worker'[w] \in Row /\ worker'[w].swarm = t /\ worker'[w].subtask = s
    BY <1>1, <1>5, WorkedRow
  <2> QED BY <1>0, <2>1 DEF HasRow
<1>6. ASSUME NEW q \in Run, LoseWorker(q, w) PROVE worker' = worker
  BY <1>6 DEF LoseWorker
<1>7. ~ Fresh(w)
  BY <1>1 DEF Fresh
<1> QED BY <1>2, <1>3, <1>4, <1>5, <1>6, <1>7, RowSteps

\* A deleted swarm stays deleted, or the streams on it are remembered.
LEMMA GoneStays ==
  ASSUME SwarmAssumption, TypeOK, [Next]_vars, NEW r \in Run
  PROVE  /\ renewed \subseteq renewed'
         /\ Gone(r) /\ ~ Gone(r)' /\ pc[r] \notin {"idle", "start"}
              => r \in renewed'
<1>0. /\ status \in [Swarm -> SwarmStatus] /\ swarm \in [Run -> Swarm]
      /\ swarm' = swarm
  BY OrphansStay DEF TypeOK
<1> DEFINE Kept == renewed' = renewed /\ (Gone(r) => Gone(r)')
<1>1. ASSUME NEW q \in Run,
             Stream(q) \/ Request(q) \/ Disconnect(q) \/ DisconnectEarly(q)
      PROVE  Kept
  BY <1>0, <1>1 DEF Request, Disconnect, DisconnectEarly, Stream, RejectRun,
     StartRun, DecomposeFails, DecomposeTask, DispatchWorkers, DispatchFails,
     MarkRunning, SwarmGone, LoadWorkers, Gather, AggregateResults,
     AggregateFails, PublishCompleted, Deliver, RecordFailure, CloseStream
<1>2. CASE \E q \in Run, w \in WorkerId : Worker(q, w)
  BY <1>0, <1>2 DEF Worker, BeginWorker, StrandWorker, FinishWorker,
     FailWorker, LoseWorker, OnlyTask
<1>3. ASSUME NEW s \in Swarm, CreateSwarm(s)
      PROVE  /\ renewed \subseteq renewed'
             /\ Gone(r) /\ ~ Gone(r)' /\ pc[r] \notin {"idle", "start"}
                  => r \in renewed'
  BY <1>0, <1>3 DEF CreateSwarm
<1>4. CASE OtherRequest /\ ~ \E s \in Swarm : CreateSwarm(s)
  BY <1>0, <1>4 DEF OtherRequest, DeleteSwarm, UpdateStatus, ResizeRead,
     ScaleUp, ScaleDown, Delete
<1>5. CASE UNCHANGED vars
  BY <1>5 DEF vars
<1> QED BY <1>1, <1>2, <1>3, <1>4, <1>5, Steps

\* Other streams, workers and clients leave a stream's plan, report and
\* announcements alone, and move it only to its start or its end.
Spared(r) ==
  /\ plan'[r] = plan[r] /\ report'[r] = report[r]
  /\ published'[r] = published[r]
  /\ pc'[r] # pc[r] => /\ pc'[r] \in {"start", "closing", "ended"}
                       /\ pc'[r] = "start" => pc[r] = "idle"
                       /\ pc[r] \notin {"closing", "ended"}

LEMMA OthersSpareAStream ==
  ASSUME TypeOK, DOMAIN report = Run, [Next]_vars, NEW r \in Run, ~ Stream(r)
  PROVE  Spared(r)
<1> USE DEF Spared, Goto, Raise
<1>0. /\ pc \in [Run -> PC] /\ plan \in [Run -> SUBSET Subtask]
      /\ DOMAIN published = Run
  BY DEF TypeOK
<1>1. ASSUME NEW q \in Run, Stream(q) PROVE Spared(r)
  <2>1. q # r
    BY <1>1
  <2> QED BY <1>0, <1>1, <2>1 DEF Stream, RejectRun, StartRun, DecomposeFails,
     DecomposeTask, DispatchWorkers, DispatchFails, MarkRunning, SwarmGone,
     LoadWorkers, Gather, AggregateResults, AggregateFails, PublishCompleted,
     Deliver, RecordFailure, CloseStream
<1>2. ASSUME NEW q \in Run, Request(q) \/ Disconnect(q) \/ DisconnectEarly(q)
      PROVE  Spared(r)
  BY <1>0, <1>2 DEF Request, Disconnect, DisconnectEarly
<1>3. ASSUME NEW q \in Run, NEW w \in WorkerId, Worker(q, w)
      PROVE  Spared(r)
  BY <1>3 DEF Worker, BeginWorker, StrandWorker, FinishWorker, FailWorker,
     LoseWorker, OnlyTask
<1>4. CASE OtherRequest
  BY <1>4 DEF OtherRequest, CreateSwarm, UpdateStatus, DeleteSwarm, ResizeRead,
     ScaleUp, ScaleDown, StreamsUnchanged
<1>5. CASE UNCHANGED vars
  BY <1>5 DEF vars
<1> QED BY <1>1, <1>2, <1>3, <1>4, <1>5, Steps

\* PlanInv, for one stream.
PlanHeld(r) ==
  r \notin renewed =>
    /\ pc[r] \in {"mark", "load", "gather"} /\ ~ Gone(r)
         => \A s \in plan[r] : HasRow(swarm[r], s)
    /\ \/ pc[r] = "aggregate" /\ ~ Gone(r)
       \/ pc[r] \in {"announce", "deliver"}
       => plan[r] \subseteq DOMAIN report[r]
    /\ "completed" \in published[r] => plan[r] \subseteq DOMAIN report[r]

\* What a step keeps for a stream past its start: its rows, unless its swarm
\* is deleted or renewed.
LEMMA KeptRows ==
  ASSUME SwarmAssumption, PlanInv, [Next]_vars, NEW r \in Run,
         r \notin renewed', pc[r] \notin {"idle", "start"}
  PROVE  /\ r \notin renewed /\ swarm' = swarm
         /\ ~ Gone(r)' => ~ Gone(r)
         /\ ~ Gone(r)' => \A s : HasRow(swarm[r], s) => HasRow(swarm[r], s)'
<1>1. TypeOK /\ Unresized /\ swarm[r] \in Swarm
  BY DEF PlanInv, TypeOK
<1>2. swarm' = swarm /\ r \notin renewed /\ (~ Gone(r)' => ~ Gone(r))
  BY <1>1, GoneStays, OrphansStay
<1>3. ASSUME status'[swarm[r]] # "gone", NEW s, HasRow(swarm[r], s)
      PROVE  HasRow(swarm[r], s)'
  <2> DEFINE t == swarm[r]
  <2>1. t \in Swarm /\ status'[t] # "gone" /\ HasRow(t, s)
    BY <1>1, <1>3
  <2>2. \E w \in WorkerId :
          worker'[w] # NoRow /\ worker'[w].swarm = t /\ worker'[w].subtask = s
    <3> HIDE DEF t
    <3> QED BY <1>1, <2>1, RowsStay DEF HasRow
  <2> QED BY <1>2, <2>2 DEF HasRow
<1> QED BY <1>2, <1>3

LEMMA SparedPlan ==
  ASSUME SwarmAssumption, PlanInv, [Next]_vars, NEW r \in Run, Spared(r)
  PROVE  PlanHeld(r)'
<1>1. PlanHeld(r)
  BY DEF PlanInv, PlanHeld, RowsCoverPlan, ReportCoversPlan,
         CompletedReportCoversPlan
<1>2. CASE r \in renewed'
  BY <1>2 DEF PlanHeld
<1>3. CASE r \notin renewed' /\ pc[r] \in {"idle", "start"}
  <2>1. /\ "completed" \notin published[r]
        /\ pc'[r] \in {"idle", "start", "closing", "ended"}
    BY <1>3 DEF PlanInv, CompletedIsLast, Spared
  <2> QED BY <2>1 DEF PlanHeld, Spared
<1>4. CASE r \notin renewed' /\ pc[r] \notin {"idle", "start"}
  <2>1. /\ r \notin renewed /\ swarm' = swarm
        /\ ~ Gone(r)' => ~ Gone(r)
        /\ ~ Gone(r)' => \A s : HasRow(swarm[r], s) => HasRow(swarm[r], s)'
    BY <1>4, KeptRows
  <2> HIDE DEF HasRow
  <2> QED BY <1>1, <2>1 DEF PlanHeld, Spared
<1> QED BY <1>2, <1>3, <1>4

\* The stream itself: its plan has rows, then entries, then is announced.
LEMMA StreamPlan ==
  ASSUME SwarmAssumption, PlanInv, NEW r \in Run, Stream(r)
  PROVE  PlanHeld(r)'
<1> USE DEF Goto, Raise
<1>0. /\ pc \in [Run -> PC] /\ plan \in [Run -> SUBSET Subtask]
      /\ DOMAIN published = Run /\ DOMAIN report = Run /\ TypeOK /\ Unresized
  BY DEF TypeOK, PlanInv
<1>n. [Next]_vars
  BY DEF Next
<1>1. PlanHeld(r)
  BY DEF PlanInv, PlanHeld, RowsCoverPlan, ReportCoversPlan,
         CompletedReportCoversPlan
<1>2. "completed" \in published[r] => pc[r] \in {"deliver", "closing", "ended"}
  BY DEF PlanInv, CompletedIsLast
<1>3. /\ swarm' = swarm
      /\ renewed' = renewed
  BY DEF Stream, RejectRun, StartRun, DecomposeFails, DecomposeTask,
     DispatchWorkers, DispatchFails, MarkRunning, SwarmGone, LoadWorkers, Gather,
     AggregateResults, AggregateFails, PublishCompleted, Deliver, RecordFailure,
     CloseStream
<1>4. CASE DispatchWorkers(r)
  <2>1. /\ pc[r] = "dispatch" /\ pc'[r] = "mark" /\ plan' = plan
        /\ published' = published
    BY <1>0, <1>4 DEF DispatchWorkers
  <2>2. \A s \in plan[r] : HasRow(swarm[r], s)'
    BY <1>0, <1>4, DispatchCoversPlan
  <2>3. \A s \in plan'[r] : HasRow(swarm[r], s)'
    BY <2>1, <2>2
  <2>4. "completed" \notin published'[r]
    BY <1>2, <2>1
  <2> HIDE DEF HasRow
  <2> QED BY <2>1, <2>3, <2>4 DEF PlanHeld
<1>5. CASE MarkRunning(r) \/ LoadWorkers(r)
  <2>1. /\ pc[r] \in {"mark", "load"} /\ pc'[r] \in {"load", "gather"}
        /\ plan' = plan /\ published' = published
    BY <1>0, <1>5 DEF MarkRunning, LoadWorkers
  <2>2. r \notin renewed' /\ ~ Gone(r)' =>
          /\ ~ Gone(r)
          /\ \A s : HasRow(swarm[r], s) => HasRow(swarm[r], s)'
    BY <1>n, <2>1, KeptRows
  <2>3. "completed" \notin published'[r]
    BY <1>2, <2>1
  <2> HIDE DEF HasRow
  <2> QED BY <1>1, <1>3, <2>1, <2>2, <2>3 DEF PlanHeld
<1>6. CASE Gather(r)
  <2>1. /\ pc[r] = "gather" /\ pc'[r] = "aggregate" /\ plan' = plan
        /\ published' = published /\ status' = status
        /\ report'[r] = VerifyResults(Select(swarm[r]))
    BY <1>0, <1>6 DEF Gather
  <2>2. ASSUME NEW s, HasRow(swarm[r], s)
        PROVE  s \in DOMAIN VerifyResults(Select(swarm[r]))
    <3>1. PICK w \in WorkerId : /\ worker[w] # NoRow
                                /\ worker[w].swarm = swarm[r]
                                /\ worker[w].subtask = s
      BY <2>2 DEF HasRow
    <3>2. Select(swarm[r])[w] = worker[w]
      BY <3>1 DEF Select, RowsOf, Stored
    <3> QED BY <3>1, <3>2 DEF VerifyResults
  <2>3. "completed" \notin published'[r]
    BY <1>2, <2>1
  <2> HIDE DEF HasRow
  <2> QED BY <1>1, <1>3, <2>1, <2>2, <2>3 DEF PlanHeld
<1>7. CASE AggregateResults(r) \/ PublishCompleted(r)
  <2>1. /\ pc[r] \in {"aggregate", "announce"} /\ pc'[r] \in {"announce", "deliver"}
        /\ pc[r] = "aggregate" => ~ Gone(r)
        /\ plan' = plan /\ report' = report
    BY <1>0, <1>7 DEF AggregateResults, PublishCompleted
  <2>2. r \notin renewed' => plan'[r] \subseteq DOMAIN report'[r]
    BY <1>1, <1>3, <2>1 DEF PlanHeld
  <2> QED BY <2>1, <2>2 DEF PlanHeld
<1>8. CASE \/ RejectRun(r) \/ StartRun(r) \/ DecomposeFails(r) \/ DecomposeTask(r)
           \/ DispatchFails(r) \/ SwarmGone(r) \/ AggregateFails(r)
           \/ RecordFailure(r)
  <2>1. /\ pc[r] \notin {"deliver", "closing", "ended"}
        /\ pc'[r] \in {"closing", "decompose", "except", "dispatch"}
        /\ "completed" \in published'[r] => "completed" \in published[r]
    BY <1>0, <1>8 DEF RejectRun, StartRun, DecomposeFails, DecomposeTask,
       DispatchFails, SwarmGone, AggregateFails, RecordFailure
  <2> QED BY <1>2, <2>1 DEF PlanHeld
<1>9. CASE Deliver(r) \/ CloseStream(r)
  <2>1. /\ pc'[r] = "ended" /\ plan' = plan /\ report' = report
        /\ "completed" \in published'[r] => "completed" \in published[r]
    BY <1>0, <1>9 DEF Deliver, CloseStream
  <2> QED BY <1>1, <1>3, <2>1 DEF PlanHeld
<1> QED BY <1>4, <1>5, <1>6, <1>7, <1>8, <1>9 DEF Stream

LEMMA ReportDomainStep ==
  ASSUME DOMAIN report = Run, [Next]_vars PROVE DOMAIN report' = Run
<1>1. CASE \E r \in Run : Stream(r) \/ Request(r) \/ Disconnect(r) \/ DisconnectEarly(r)
  BY <1>1 DEF Request, Disconnect, DisconnectEarly, Stream, RejectRun, StartRun,
     DecomposeFails, DecomposeTask, DispatchWorkers, DispatchFails, MarkRunning,
     SwarmGone, LoadWorkers, Gather, AggregateResults, AggregateFails,
     PublishCompleted, Deliver, RecordFailure, CloseStream
<1>2. CASE \E r \in Run, w \in WorkerId : Worker(r, w)
  BY <1>2 DEF Worker, BeginWorker, StrandWorker, FinishWorker, FailWorker,
     LoseWorker, OnlyTask
<1>3. CASE OtherRequest
  BY <1>3 DEF OtherRequest, CreateSwarm, DeleteSwarm, UpdateStatus, ResizeRead,
     ScaleUp, ScaleDown, StreamsUnchanged
<1>4. CASE UNCHANGED vars
  BY <1>4 DEF vars
<1> QED BY <1>1, <1>2, <1>3, <1>4, Steps

-----------------------------------------------------------------------------
(* The announcement of completion stands. *)

LastInv == TypeOK /\ DOMAIN report = Run /\ CompletedIsLast

\* A stream announces completion and only has to close.
LEMMA LastStep ==
  ASSUME SwarmAssumption, LastInv, [Next]_vars
  PROVE  LastInv'
<1> USE DEF Goto, Raise
<1>0. TypeOK /\ pc \in [Run -> PC] /\ DOMAIN published = Run /\ DOMAIN report = Run
  BY DEF LastInv, TypeOK
<1>1. SUFFICES ASSUME NEW r \in Run, "completed" \in published'[r]
               PROVE  pc'[r] \in {"deliver", "closing", "ended"}
  BY <1>0, TypeStep, ReportDomainStep DEF LastInv, CompletedIsLast
<1>2. "completed" \in published[r] => pc[r] \in {"deliver", "closing", "ended"}
  BY DEF LastInv, CompletedIsLast
<1>3. CASE ~ Stream(r)
  BY <1>0, <1>1, <1>2, <1>3, OthersSpareAStream DEF Spared
<1>4. CASE PublishCompleted(r) \/ Deliver(r) \/ CloseStream(r) \/ RecordFailure(r)
  BY <1>0, <1>4 DEF PublishCompleted, Deliver, CloseStream, RecordFailure
<1>5. CASE /\ Stream(r)
           /\ ~ (PublishCompleted(r) \/ Deliver(r) \/ CloseStream(r)
                   \/ RecordFailure(r))
  BY <1>1, <1>2, <1>5 DEF Stream, RejectRun, StartRun, DecomposeFails,
     DecomposeTask, DispatchWorkers, DispatchFails, MarkRunning, SwarmGone,
     LoadWorkers, Gather, AggregateResults, AggregateFails
<1> QED BY <1>3, <1>4, <1>5

LEMMA LastInit == SwarmAssumption /\ Init => LastInv
<1>1. Init => DOMAIN report = Run /\ CompletedIsLast
  BY DEF Init, CompletedIsLast
<1> QED BY <1>1, TypeInit DEF LastInv

LEMMA PlanStep ==
  ASSUME SwarmAssumption, ResizeCounts = {}, PlanInv, [Next]_vars
  PROVE  PlanInv'
<1>1. TypeOK' /\ Unresized'
  BY TypeStep, UnresizedStep DEF PlanInv
<1>2. DOMAIN report' = Run /\ CompletedIsLast'
  BY LastStep DEF PlanInv, LastInv
<1>3. ASSUME NEW r \in Run PROVE PlanHeld(r)'
  <2>1. CASE Stream(r)
    BY <2>1, StreamPlan
  <2>2. CASE ~ Stream(r)
    BY <2>2, OthersSpareAStream, SparedPlan DEF PlanInv
  <2> QED BY <2>1, <2>2
<1> QED BY <1>1, <1>2, <1>3 DEF PlanInv, PlanHeld, RowsCoverPlan,
        ReportCoversPlan, CompletedReportCoversPlan

\* Where nothing resizes a swarm, a stream that announces swarm.completed
\* has a verdict for every subtask of its plan, whatever workers fail or find
\* no provider, and whether or not swarms are deleted, created or run again
\* meanwhile, unless its own swarm's id is given out again under it.
THEOREM CompletedCorrect ==
  ResizeCounts = {} => (Spec => []CompletedReportCoversPlan)
<1> SUFFICES ASSUME ResizeCounts = {} PROVE Spec => []CompletedReportCoversPlan
  OBVIOUS
<1>1. Init => PlanInv
  <2>1. Init => /\ Unresized /\ RowsCoverPlan /\ ReportCoversPlan
                /\ CompletedReportCoversPlan
    BY DEF Init, Unresized, RowsCoverPlan, ReportCoversPlan,
           CompletedReportCoversPlan
  <2> QED BY <2>1, SwarmAssumption, LastInit DEF PlanInv, LastInv
<1>2. PlanInv /\ [Next]_vars => PlanInv'
  BY SwarmAssumption, PlanStep
<1>3. PlanInv => CompletedReportCoversPlan
  BY DEF PlanInv
<1> QED BY <1>1, <1>2, <1>3, PTL DEF Spec

\* Of the streams on a swarm only one that is under way writes a status, and a
\* swarm that is there is not created.
LEMMA CompletionStep ==
  ASSUME LastInv, [Next]_vars, NEW r \in Run,
         "completed" \in published[r], status[swarm[r]] = "completed",
         \A q \in Run \ {r} :
           swarm[q] = swarm[r] => pc[q] \in {"idle", "closing", "ended"}
  PROVE  status'[swarm[r]] \in {"completed", "gone"} \cup ClientStatuses
<1>0. status \in [Swarm -> SwarmStatus] /\ swarm \in [Run -> Swarm]
  BY DEF LastInv, TypeOK
<1>1. pc[r] \in {"deliver", "closing", "ended"}
  BY DEF LastInv, CompletedIsLast
<1>2. ASSUME NEW q \in Run, Stream(q) PROVE status'[swarm[r]] = status[swarm[r]]
  <2>1. CASE swarm[q] = swarm[r]
    <3>1. pc[q] \in {"idle", "deliver", "closing", "ended"}
      BY <1>1, <2>1
    <3>2. status' = status
      BY <1>2, <3>1 DEF Stream, RejectRun, StartRun, DecomposeFails,
         DecomposeTask, DispatchWorkers, DispatchFails, MarkRunning, SwarmGone,
         LoadWorkers, Gather, AggregateResults, AggregateFails,
         PublishCompleted, Deliver, RecordFailure, CloseStream
    <3> QED BY <3>2
  <2>2. CASE swarm[q] # swarm[r]
    BY <1>0, <1>2, <2>2 DEF Stream, RejectRun, StartRun, DecomposeFails,
       DecomposeTask, DispatchWorkers, DispatchFails, MarkRunning, SwarmGone,
       LoadWorkers, Gather, AggregateResults, AggregateFails, PublishCompleted,
       Deliver, RecordFailure, CloseStream
  <2> QED BY <2>1, <2>2
<1>3. CASE \E q \in Run : Request(q) \/ Disconnect(q) \/ DisconnectEarly(q)
  BY <1>3 DEF Request, Disconnect, DisconnectEarly
<1>4. CASE \E q \in Run, w \in WorkerId : Worker(q, w)
  BY <1>4 DEF Worker, BeginWorker, StrandWorker, FinishWorker, FailWorker,
     LoseWorker, OnlyTask
<1>5. CASE OtherRequest
  BY <1>0, <1>5 DEF OtherRequest, CreateSwarm, DeleteSwarm, UpdateStatus,
     ResizeRead, ScaleUp, ScaleDown
<1>6. CASE UNCHANGED vars
  BY <1>6 DEF vars
<1> QED BY <1>2, <1>3, <1>4, <1>5, <1>6, Steps

\* While no other stream is at work on the swarm, an announced completion is
\* what the row says until a client cancels, updates or deletes it: neither a
\* late disconnection nor the end of the stream nor a resize undoes it.
THEOREM CompletionAlwaysHolds == Spec => AnnouncedCompletionHolds
<1> DEFINE Holds == \A r \in Run :
             /\ "completed" \in published[r] /\ status[swarm[r]] = "completed"
             /\ \A q \in Run \ {r} :
                  swarm[q] = swarm[r] => pc[q] \in {"idle", "closing", "ended"}
             => status'[swarm[r]] \in {"completed", "gone"} \cup ClientStatuses
<1>1. Init => LastInv
  BY SwarmAssumption, LastInit
<1>2. LastInv /\ [Next]_vars => LastInv'
  BY SwarmAssumption, LastStep
<1>3. LastInv /\ [Next]_vars => [Holds]_vars
  BY CompletionStep
<1> QED BY <1>1, <1>2, <1>3, PTL DEF Spec, AnnouncedCompletionHolds
-----------------------------------------------------------------------------
(* What verify_results says of the votes. *)

\* Similarity puts the answers into classes.  ratio() > 0.7 need not: four
\* answers can each be like two of the others.
TextsFallIntoClasses ==
  /\ \A x, y \in Answer : <<x, y>> \in Alike => <<y, x>> \in Alike
  /\ \A x, y, z \in Answer :
       <<x, y>> \in Alike /\ <<y, z>> \in Alike => <<x, z>> \in Alike

LEMMA VotesType ==
  ASSUME SwarmAssumption, NEW b \in Table, NEW s
  PROVE  /\ Votes(b, s) \subseteq WorkerId /\ IsFiniteSet(Votes(b, s))
         /\ \A w \in Votes(b, s) : b[w].result \in Answer
<1>1. IsFiniteSet(WorkerId)
  BY FS_Interval DEF WorkerId, SwarmAssumption
<1>2. Votes(b, s) \subseteq WorkerId
  BY DEF Votes, Group
<1>3. \A w \in Votes(b, s) : b[w].result \in Answer
  BY DEF Votes, Group, Table, Row, Text
<1> QED BY <1>1, <1>2, <1>3, FS_Subset

LEMMA SupportType ==
  ASSUME SwarmAssumption, NEW b \in Table, NEW s, NEW w
  PROVE  /\ IsFiniteSet(Support(b, s, w))
         /\ Cardinality(Support(b, s, w)) \in Nat
<1>1. Support(b, s, w) \subseteq Votes(b, s)
  BY DEF Support
<1> QED BY <1>1, VotesType, FS_Subset, FS_CardinalityType

\* Whatever the similarity, best_idx is one of the votes and no other vote has
\* more support.
LEMMA BestIsAVote ==
  ASSUME SwarmAssumption, NEW b \in Table, NEW s, Votes(b, s) # {}
  PROVE  /\ Best(b, s) \in Votes(b, s)
         /\ \A v \in Votes(b, s) :
              Cardinality(Support(b, s, v)) <= Cardinality(Support(b, s, Best(b, s)))
<1> DEFINE V == Votes(b, s)
           C(w) == Cardinality(Support(b, s, w))
           Counts == {C(w) : w \in V}
<1>1. V \subseteq WorkerId /\ IsFiniteSet(V) /\ V # {}
  BY VotesType
<1>2. \A w \in V : C(w) \in Nat
  BY SupportType
<1> HIDE DEF V, C
<1>3. Counts \in SUBSET Nat /\ Counts # {}
  BY <1>1, <1>2
<1>4. IsFiniteSet(Counts)
  <2>1. [w \in V |-> C(w)] \in Surjection(V, Counts)
    BY DEF Surjection
  <2> QED BY <1>1, <2>1, FS_Surjection
<1>5. PICK m \in Counts : \A n \in Counts : n <= m
  BY <1>3, <1>4, FiniteSetHasLargest
<1>6. /\ \A w \in WorkerId : w \in Nat /\ MaxRow - w \in Nat
      /\ MaxRow \in Nat
  BY DEF WorkerId, SwarmAssumption
<1> DEFINE Top == {w \in V : C(w) = m}
           Left == {MaxRow - w : w \in Top}
<1>7. Left \in SUBSET Nat /\ Left # {}
  BY <1>1, <1>5, <1>6
<1>8. IsFiniteSet(Left)
  <2>1. IsFiniteSet(Top)
    BY <1>1, FS_Subset
  <2> HIDE DEF Top
  <2>2. [w \in Top |-> MaxRow - w] \in Surjection(Top, Left)
    BY DEF Surjection
  <2> QED BY <2>1, <2>2, FS_Surjection
<1>9. PICK l \in Left : \A n \in Left : n <= l
  BY <1>7, <1>8, FiniteSetHasLargest
<1>10. PICK first \in Top : l = MaxRow - first
  OBVIOUS
<1>11. first \in V /\ C(first) = m /\ \A v \in V : C(v) <= m
  BY <1>5, <1>10
<1>12. ASSUME NEW v \in V, C(v) = m PROVE first <= v
  <2>1. MaxRow - v \in Left
    BY <1>12
  <2>2. MaxRow - v <= MaxRow - first
    BY <1>9, <1>10, <2>1
  <2> QED BY <1>1, <1>6, <1>11, <1>12, <2>2
<1> DEFINE IsBest(w) == \A v \in V :
             C(v) < C(w) \/ (C(v) = C(w) /\ w <= v)
<1>13. IsBest(first)
  <2> SUFFICES ASSUME NEW v \in V
               PROVE  C(v) < C(first) \/ (C(v) = C(first) /\ first <= v)
    OBVIOUS
  <2>1. C(v) \in Nat /\ m \in Nat /\ C(v) <= m
    BY <1>2, <1>3, <1>11
  <2> QED BY <1>11, <1>12, <2>1
<1>14. Best(b, s) = CHOOSE w \in V : IsBest(w)
  BY Zenon DEF Best, V, C
<1>15. Best(b, s) \in V /\ IsBest(Best(b, s))
  <2> HIDE DEF IsBest
  <2> QED BY <1>11, <1>13, <1>14
<1>16. ASSUME NEW v \in V PROVE C(v) <= C(Best(b, s))
  BY <1>2, <1>15, <1>16
<1> QED BY <1>15, <1>16 DEF V, C

\* A lone vote is the consensus.
LEMMA LoneVote ==
  ASSUME SwarmAssumption, NEW b \in Table, NEW s,
         Cardinality(Votes(b, s)) = 1, NEW w \in Votes(b, s)
  PROVE  OneVote(b, s).consensus = b[w].result
<1>1. PICK x : Votes(b, s) = {x}
  BY VotesType, FS_Singleton
<1>2. (CHOOSE v \in Votes(b, s) : TRUE) = w
  BY <1>1
<1> QED BY <1>2 DEF OneVote

\* Whatever the similarity, a vote is like a verified consensus or dissents.
LEMMA VoteIsCounted ==
  ASSUME SwarmAssumption, AlikeAssumption, NEW b \in Table, NEW s,
         NEW w \in Votes(b, s), Verdict(b, s).verified
  PROVE  \/ w \in Verdict(b, s).dissent
         \/ <<b[w].result, Verdict(b, s).consensus>> \in Alike
<1>1. Votes(b, s) # {} /\ b[w].result \in Answer
  BY VotesType
<1>2. CASE Cardinality(Votes(b, s)) = 1
  <2>1. Verdict(b, s) = OneVote(b, s)
    BY <1>1, <1>2 DEF Verdict
  <2> QED BY <1>1, <1>2, <2>1, LoneVote DEF AlikeAssumption
<1>3. CASE Cardinality(Votes(b, s)) # 1
  <2>1. Verdict(b, s) = ManyVotes(b, s)
    BY <1>1, <1>3 DEF Verdict
  <2> QED BY <2>1 DEF ManyVotes
<1> QED BY <1>2, <1>3

\* A verified consensus of several is the text of Best, backed by a majority.
LEMMA ConsensusIsBest ==
  ASSUME NEW b, NEW s, Votes(b, s) # {}, Cardinality(Votes(b, s)) # 1,
         Verdict(b, s).verified
  PROVE  Majority(b, s) /\ Verdict(b, s).consensus = b[Best(b, s)].result
<1>1. Verdict(b, s) = ManyVotes(b, s)
  BY DEF Verdict
<1> QED BY <1>1 DEF ManyVotes

\* Two unlike answers share no supporter, and one of them has more than half.
LEMMA MajorityIsUnique ==
  ASSUME SwarmAssumption, AlikeAssumption, TextsFallIntoClasses,
         NEW b \in Table, NEW s, NEW w \in Votes(b, s), Verdict(b, s).verified,
         <<b[w].result, Verdict(b, s).consensus>> \notin Alike
  PROVE  Cardinality(Support(b, s, w))
           < Cardinality({v \in Votes(b, s) :
               <<b[v].result, Verdict(b, s).consensus>> \in Alike})
<1> DEFINE V == Votes(b, s)
           x == Best(b, s)
           A == Support(b, s, x)
           B == Support(b, s, w)
           C == {v \in V : <<b[v].result, Verdict(b, s).consensus>> \in Alike}
<1>1. IsFiniteSet(V) /\ \A v \in V : b[v].result \in Answer
  BY VotesType
<1>2. Cardinality(V) # 1
  <2> SUFFICES ASSUME Cardinality(V) = 1 PROVE FALSE
    OBVIOUS
  <2>1. Verdict(b, s) = OneVote(b, s)
    BY DEF Verdict
  <2> QED BY <1>1, <2>1, LoneVote DEF AlikeAssumption
<1>3. Majority(b, s) /\ Verdict(b, s).consensus = b[x].result
  BY <1>2, ConsensusIsBest
<1>4. x \in V
  BY BestIsAVote
<1>5. <<b[w].result, b[x].result>> \notin Alike
  BY <1>3
<1>6. A \cap B = {}
  <2> SUFFICES ASSUME NEW v \in V, v \in A, v \in B PROVE FALSE
    BY DEF Support
  <2>1. v = x \/ <<b[x].result, b[v].result>> \in Alike
    BY DEF Support
  <2>2. v = w \/ <<b[w].result, b[v].result>> \in Alike
    BY DEF Support
  <2>3. <<b[x].result, b[w].result>> \notin Alike
    BY <1>1, <1>4, <1>5 DEF TextsFallIntoClasses
  <2>w. w # x
    BY <1>1, <1>5 DEF AlikeAssumption
  <2>4. CASE v = x
    BY <1>5, <2>2, <2>4, <2>w
  <2>5. CASE v = w
    BY <2>1, <2>3, <2>5, <2>w
  <2>6. CASE v # x /\ v # w
    <3>1. b[x].result \in Answer /\ b[v].result \in Answer /\ b[w].result \in Answer
      BY <1>1, <1>4
    <3>2. <<b[v].result, b[x].result>> \in Alike
      BY <2>1, <2>6, <3>1 DEF TextsFallIntoClasses
    <3> QED BY <1>5, <2>2, <2>6, <3>1, <3>2 DEF TextsFallIntoClasses
  <2> QED BY <2>4, <2>5, <2>6
<1>7. A \subseteq C
  <2> SUFFICES ASSUME NEW v \in A PROVE v \in C
    OBVIOUS
  <2>1. v \in V /\ (v = x \/ <<b[x].result, b[v].result>> \in Alike)
    BY DEF Support
  <2>2. b[x].result \in Answer /\ b[v].result \in Answer
    BY <1>1, <1>4, <2>1
  <2>3. <<b[v].result, b[x].result>> \in Alike
    BY <2>1, <2>2 DEF TextsFallIntoClasses, AlikeAssumption
  <2> QED BY <1>3, <2>1, <2>3
<1>8. A \subseteq V /\ B \subseteq V /\ C \subseteq V
  BY DEF Support
<1>9. 2 * Cardinality(A) > Cardinality(V)
  BY <1>3 DEF Majority
<1> HIDE DEF V, A, B, C
<1>10. IsFiniteSet(A) /\ IsFiniteSet(B) /\ IsFiniteSet(C)
  BY <1>1, <1>8, FS_Subset
<1>11. /\ Cardinality(A) \in Nat /\ Cardinality(B) \in Nat
       /\ Cardinality(C) \in Nat /\ Cardinality(V) \in Nat
  BY <1>1, <1>10, FS_CardinalityType
<1>12. Cardinality(A) + Cardinality(B) <= Cardinality(V)
  <2>1. Cardinality(A \cup B) = Cardinality(A) + Cardinality(B)
    <3>1. Cardinality(A \cap B) = 0
      BY <1>6, FS_EmptySet
    <3>2. Cardinality(A \cup B)
            = Cardinality(A) + Cardinality(B) - Cardinality(A \cap B)
      BY <1>10, FS_Union
    <3> QED BY <1>11, <3>1, <3>2
  <2>2. Cardinality(A \cup B) <= Cardinality(V)
    BY <1>1, <1>8, FS_Subset
  <2> QED BY <2>1, <2>2
<1>13. Cardinality(A) <= Cardinality(C)
  BY <1>7, <1>10, FS_Subset
<1>14. Cardinality(B) < Cardinality(C)
  BY <1>9, <1>11, <1>12, <1>13
<1> QED BY <1>14 DEF B, C, V
-----------------------------------------------------------------------------
(* The report a stream aggregates. *)

\* The report is the verdict on the rows the stream read.
ReportIsVerdict ==
  \A r \in Run :
    pc[r] = "aggregate" => report[r] = VerifyResults(ballot[r])

ReportInv ==
  TypeOK /\ DOMAIN report = Run /\ ReportIsVerdict

\* Only Gather writes a ballot.
LEMMA BallotsRead ==
  ASSUME [Next]_vars PROVE ballot' = ballot \/ \E q \in Run : Gather(q)
<1>1. CASE \E r \in Run : Stream(r) \/ Request(r) \/ Disconnect(r) \/ DisconnectEarly(r)
  BY <1>1 DEF Request, Disconnect, DisconnectEarly, Stream, RejectRun, StartRun,
     DecomposeFails, DecomposeTask, DispatchWorkers, DispatchFails, MarkRunning,
     SwarmGone, LoadWorkers, AggregateResults, AggregateFails, PublishCompleted,
     Deliver, RecordFailure, CloseStream
<1>2. CASE \E r \in Run, w \in WorkerId : Worker(r, w)
  BY <1>2 DEF Worker, BeginWorker, StrandWorker, FinishWorker, FailWorker,
     LoseWorker, OnlyTask
<1>3. CASE OtherRequest
  BY <1>3 DEF OtherRequest, CreateSwarm, DeleteSwarm, UpdateStatus, ResizeRead,
     ScaleUp, ScaleDown, StreamsUnchanged
<1>4. CASE UNCHANGED vars
  BY <1>4 DEF vars
<1> QED BY <1>1, <1>2, <1>3, <1>4, Steps

\* A stream comes to "aggregate" by Gather alone, and nothing else touches
\* what it read and concluded.
LEMMA BallotStays ==
  ASSUME TypeOK, DOMAIN report = Run, [Next]_vars, NEW r \in Run, ~ Gather(r),
         pc'[r] = "aggregate"
  PROVE  /\ pc[r] = "aggregate"
         /\ report'[r] = report[r] /\ ballot'[r] = ballot[r]
<1> USE DEF Goto, Raise
<1>0. pc \in [Run -> PC] /\ DOMAIN report = Run /\ ballot \in [Run -> Table]
  BY DEF TypeOK
<1>1. CASE Stream(r)
  BY <1>0, <1>1 DEF Stream, RejectRun, StartRun, DecomposeFails, DecomposeTask,
     DispatchWorkers, DispatchFails, MarkRunning, SwarmGone, LoadWorkers,
     AggregateResults, AggregateFails, PublishCompleted, Deliver, RecordFailure,
     CloseStream
<1>2. CASE ~ Stream(r)
  <2>1. pc[r] = "aggregate" /\ report'[r] = report[r]
    BY <1>2, OthersSpareAStream DEF Spared
  <2>2. ballot'[r] = ballot[r]
    <3>1. ballot' = ballot \/ \E q \in Run : Gather(q)
      BY BallotsRead
    <3>2. ASSUME NEW q \in Run, Gather(q) PROVE ballot'[r] = ballot[r]
      <4>1. q # r
        BY <3>2
      <4> QED BY <1>0, <3>2, <4>1 DEF Gather
    <3> QED BY <3>1, <3>2
  <2> QED BY <2>1, <2>2
<1> QED BY <1>1, <1>2

LEMMA ReportStep ==
  ASSUME SwarmAssumption, ReportInv, [Next]_vars
  PROVE  ReportInv'
<1>0. /\ TypeOK /\ DOMAIN report = Run /\ pc \in [Run -> PC]
      /\ ballot \in [Run -> Table]
  BY DEF ReportInv, TypeOK
<1>1. TypeOK' /\ DOMAIN report' = Run
  BY <1>0, TypeStep, ReportDomainStep
<1>2. SUFFICES ASSUME NEW r \in Run, pc'[r] = "aggregate"
               PROVE  report'[r] = VerifyResults(ballot'[r])
  BY <1>1 DEF ReportInv, ReportIsVerdict
<1>3. CASE Gather(r)
  BY <1>0, <1>3 DEF Gather
<1>4. CASE ~ Gather(r)
  <2>1. pc[r] = "aggregate" /\ report'[r] = report[r] /\ ballot'[r] = ballot[r]
    BY <1>0, <1>2, <1>4, BallotStays
  <2> QED BY <2>1 DEF ReportInv, ReportIsVerdict
<1> QED BY <1>3, <1>4

LEMMA ReportInit == SwarmAssumption /\ Init => ReportInv
<1>1. Init => DOMAIN report = Run /\ ReportIsVerdict
  BY DEF Init, ReportIsVerdict
<1> QED BY <1>1, TypeInit DEF ReportInv

\* Where similarity puts the answers into classes, no answer of another class
\* has the support of a verified consensus: which of the like answers comes
\* first is all the order of the rows decides, however many streams run,
\* whatever workers fail and whatever is resized meanwhile.
THEOREM ConsensusIsAlwaysUnique ==
  TextsFallIntoClasses => (Spec => []ConsensusIsUnique)
<1> SUFFICES ASSUME TextsFallIntoClasses PROVE Spec => []ConsensusIsUnique
  OBVIOUS
<1>1. Init => ReportInv
  BY SwarmAssumption, ReportInit
<1>2. ReportInv /\ [Next]_vars => ReportInv'
  BY SwarmAssumption, ReportStep
<1>3. ReportInv => ConsensusIsUnique
  <2> SUFFICES ASSUME ReportInv, NEW r \in Run, pc[r] = "aggregate",
                      NEW s \in DOMAIN report[r], report[r][s].verified,
                      NEW w \in Votes(ballot[r], s),
                      <<ballot[r][w].result, report[r][s].consensus>> \notin Alike
               PROVE  Cardinality(Support(ballot[r], s, w))
                        < Cardinality({v \in Votes(ballot[r], s) :
                            <<ballot[r][v].result, report[r][s].consensus>>
                              \in Alike})
    BY DEF ConsensusIsUnique
  <2>1. report[r] = VerifyResults(ballot[r]) /\ ballot[r] \in Table
    BY DEF ReportInv, ReportIsVerdict, TypeOK
  <2>2. report[r][s] = Verdict(ballot[r], s)
    BY <2>1 DEF VerifyResults
  <2> QED BY <2>1, <2>2, SwarmAssumption, AlikeAssumption, MajorityIsUnique
<1> QED BY <1>1, <1>2, <1>3, PTL DEF Spec

\* No stream but r has, or had, a task for the row.
OnlyMine(r, w) == \A q \in Run \ {r} : task[q][w] = "none"
Answered(w) == worker[w] # NoRow /\ worker[w].result # NoText

\* An answer came from a task; where one stream alone has a task for the row,
\* an answered row is not begun again, and from the gathering on the row is the
\* one the stream verified.
AnswersHaveTasks ==
  \A w \in WorkerId : Answered(w) => \E q \in Run : task[q][w] = "done"
AnsweredIsCompleted ==
  \A r \in Run, w \in WorkerId :
    OnlyMine(r, w) /\ Answered(w) => worker[w].status = "completed"
TasksRest ==
  \A r \in Run : pc[r] = "aggregate" => \A w \in WorkerId : task[r][w] \in Ended
BallotIsCurrent ==
  \A r \in Run, w \in WorkerId :
    /\ pc[r] = "aggregate" /\ OnlyMine(r, w) /\ Answered(w)
    /\ worker[w].swarm = swarm[r]
    => ballot[r][w] = worker[w]

AnswersInv ==
  /\ ReportInv /\ TasksAwaitLoad
  /\ AnswersHaveTasks /\ AnsweredIsCompleted /\ TasksRest /\ BallotIsCurrent

\* A task that is there stays, and one that is done stays done.
LEMMA TasksStay ==
  ASSUME SwarmAssumption, TypeOK, TasksAwaitLoad, [Next]_vars,
         NEW q \in Run, NEW w \in WorkerId
  PROVE  /\ task'[q][w] = "none" => task[q][w] = "none"
         /\ task[q][w] = "done" => task'[q][w] = "done"
<1>1. CASE SameTasks(w)
  BY <1>1 DEF SameTasks
<1>2. ASSUME NEW p \in Run, LoadWorkers(p)
      PROVE  /\ task'[q][w] = "none" => task[q][w] = "none"
             /\ task[q][w] = "done" => task'[q][w] = "done"
  <2>1. task[p][w] = "none" /\ \A o \in Run \ {p} : task'[o][w] = task[o][w]
    BY <1>2, LoadedTasks DEF TasksAwaitLoad, LoadWorkers
  <2> QED BY <2>1
<1>3. ASSUME NEW p \in Run, Worker(p, w)
      PROVE  /\ task'[q][w] = "none" => task[q][w] = "none"
             /\ task[q][w] = "done" => task'[q][w] = "done"
  <2>1. /\ task[p][w] \in {"start", "generate"} /\ task'[p][w] # "none"
        /\ \A o \in Run \ {p} : task'[o][w] = task[o][w]
    BY <1>3, MovedTask
  <2> QED BY <2>1
<1> QED BY <1>1, <1>2, <1>3, RowSteps

\* A step either leaves an answered row of a lone stream alone, or is the task
\* that answers it.
LEMMA AnsweredRow ==
  ASSUME SwarmAssumption, AnswersInv, [Next]_vars, NEW w \in WorkerId,
         Answered(w)'
  PROVE  \/ worker'[w] = worker[w] /\ Answered(w)
         \/ \E q \in Run :
              /\ Worker(q, w) /\ task[q][w] \in {"start", "generate"}
              /\ \/ Answered(w) /\ ~ FinishWorker(q, w)
                 \/ FinishWorker(q, w) /\ worker'[w].status = "completed"
<1>0. TypeOK
  BY DEF AnswersInv, ReportInv
<1>1. CASE worker'[w] = worker[w]
  BY <1>1 DEF Answered
<1>2. CASE Fresh(w) \/ Deleted(w)
  BY <1>2 DEF Answered, Fresh, Deleted
<1>3. ASSUME NEW q \in Run, LoadWorkers(q) PROVE worker' = worker
  BY <1>3 DEF LoadWorkers
<1>4. ASSUME NEW q \in Run, Worker(q, w), ~ LoseWorker(q, w)
      PROVE  /\ task[q][w] \in {"start", "generate"}
             /\ \/ Answered(w) /\ ~ FinishWorker(q, w)
                \/ FinishWorker(q, w) /\ worker'[w].status = "completed"
  BY <1>0, <1>4, WorkedRow, MovedTask, NoRowAssumption DEF Answered
<1>5. ASSUME NEW q \in Run, LoseWorker(q, w) PROVE worker' = worker
  BY <1>5 DEF LoseWorker
<1> QED BY <1>0, <1>1, <1>2, <1>3, <1>4, <1>5, RowSteps

LEMMA AnswersStep ==
  ASSUME SwarmAssumption, AnswersInv, [Next]_vars
  PROVE  AnswersHaveTasks' /\ AnsweredIsCompleted'
<1>0. TypeOK /\ TasksAwaitLoad
  BY DEF AnswersInv, ReportInv
<1>1. ASSUME NEW w \in WorkerId, Answered(w)'
      PROVE  \E q \in Run : task'[q][w] = "done"
  <2>1. CASE Answered(w)
    BY <1>0, <2>1, TasksStay DEF AnswersInv, AnswersHaveTasks
  <2>2. ASSUME NEW q \in Run, FinishWorker(q, w) PROVE task'[q][w] = "done"
    BY <1>0, <2>2 DEF TypeOK, FinishWorker, SetTask
  <2> QED BY <1>1, <2>1, <2>2, AnsweredRow
<1>2. ASSUME NEW r \in Run, NEW w \in WorkerId, OnlyMine(r, w)', Answered(w)'
      PROVE  worker'[w].status = "completed"
  <2>1. OnlyMine(r, w)
    BY <1>0, <1>2, TasksStay DEF OnlyMine
  <2>2. CASE worker'[w] = worker[w] /\ Answered(w)
    BY <2>1, <2>2 DEF AnswersInv, AnsweredIsCompleted
  <2>3. ASSUME NEW q \in Run, task[q][w] \in {"start", "generate"}, Answered(w)
        PROVE  FALSE
    <3>1. q = r
      BY <2>1, <2>3 DEF OnlyMine
    <3>2. PICK p \in Run : task[p][w] = "done"
      BY <2>3 DEF AnswersInv, AnswersHaveTasks
    <3> QED BY <2>1, <2>3, <3>1, <3>2 DEF OnlyMine
  <2> QED BY <1>2, <2>2, <2>3, AnsweredRow
<1> QED BY <1>1, <1>2 DEF AnswersHaveTasks, AnsweredIsCompleted

\* Until the report is aggregated no task of the stream moves, and no row
\* that is its alone changes.
LEMMA BallotStep ==
  ASSUME SwarmAssumption, AnswersInv, [Next]_vars
  PROVE  TasksRest' /\ BallotIsCurrent'
<1>0. /\ TypeOK /\ TasksAwaitLoad /\ DOMAIN report = Run /\ pc \in [Run -> PC]
      /\ ballot \in [Run -> Table] /\ task \in [Run -> [WorkerId -> Stage]]
      /\ swarm' = swarm
  BY OrphansStay DEF AnswersInv, ReportInv, TypeOK
<1> DEFINE Rests(r, w) == task[r][w] \in Ended
           Current(r, w) ==
             OnlyMine(r, w) /\ Answered(w) /\ worker[w].swarm = swarm[r]
               => ballot[r][w] = worker[w]
<1>1. SUFFICES ASSUME NEW r \in Run, pc'[r] = "aggregate", NEW w \in WorkerId
               PROVE  Rests(r, w)' /\ Current(r, w)'
  BY DEF TasksRest, BallotIsCurrent
<1>2. CASE Gather(r)
  <2>1. /\ worker' = worker /\ task' = task
        /\ ballot'[r] = Select(swarm[r]) /\ task[r][w] \in Ended
    BY <1>0, <1>2 DEF Gather
  <2>2. Answered(w) /\ worker[w].swarm = swarm[r]
          => Select(swarm[r])[w] = worker[w]
    BY DEF Answered, Select, RowsOf, Stored
  <2> QED BY <1>0, <2>1, <2>2 DEF Answered, OnlyMine
<1>3. CASE ~ Gather(r)
  <2>1. pc[r] = "aggregate" /\ ballot'[r] = ballot[r]
    BY <1>0, <1>1, <1>3, BallotStays
  <2>2. Rests(r, w) /\ Current(r, w)
    BY <2>1 DEF AnswersInv, TasksRest, BallotIsCurrent
  <2>3. Rests(r, w)'
    <3>1. ASSUME NEW q \in Run, LoadWorkers(q) PROVE task'[r][w] = task[r][w]
      <4>1. q # r
        BY <2>1, <3>1 DEF LoadWorkers
      <4> QED BY <1>0, <3>1, <4>1, LoadedTasks
    <3>2. ASSUME NEW q \in Run, Worker(q, w) PROVE task'[r][w] = task[r][w]
      <4>1. q # r
        BY <1>0, <2>2, <3>2, MovedTask DEF Ended
      <4> QED BY <1>0, <3>2, <4>1, MovedTask
    <3> QED BY <1>0, <2>2, <3>1, <3>2, RowSteps DEF SameTasks
  <2>4. ASSUME OnlyMine(r, w)', Answered(w)', worker'[w].swarm = swarm'[r]
        PROVE  ballot'[r][w] = worker'[w]
    <3>1. OnlyMine(r, w)
      BY <1>0, <2>4, TasksStay DEF OnlyMine
    <3>2. ASSUME NEW q \in Run PROVE task[q][w] \notin {"start", "generate"}
      BY <2>2, <3>1 DEF OnlyMine, Ended
    <3>3. worker'[w] = worker[w] /\ Answered(w)
      BY <2>4, <3>2, AnsweredRow
    <3> QED BY <1>0, <2>1, <2>2, <2>4, <3>1, <3>3
  <2> QED BY <2>3, <2>4
<1> QED BY <1>2, <1>3

LEMMA CountedAnswers ==
  ASSUME SwarmAssumption, AnswersInv
  PROVE  AnswersAreCounted
<1>1. SUFFICES ASSUME NEW r \in Run, pc[r] = "aggregate",
                      NEW w \in RowsOf(swarm[r]), OnlyMine(r, w),
                      worker[w].result # NoText,
                      report[r][worker[w].subtask].verified
               PROVE  \/ w \in report[r][worker[w].subtask].dissent
                      \/ <<worker[w].result,
                           report[r][worker[w].subtask].consensus>> \in Alike
  BY DEF AnswersAreCounted, OnlyMine
<1>2. w \in WorkerId /\ Answered(w) /\ worker[w].swarm = swarm[r]
  BY <1>1 DEF RowsOf, Stored, Answered
<1>3. ballot[r][w] = worker[w] /\ worker[w].status = "completed"
  BY <1>1, <1>2 DEF AnswersInv, BallotIsCurrent, AnsweredIsCompleted
<1>4. ballot[r] \in Table /\ report[r] = VerifyResults(ballot[r])
  BY <1>1 DEF AnswersInv, ReportInv, TypeOK, ReportIsVerdict
<1>5. w \in Votes(ballot[r], worker[w].subtask)
  BY <1>2, <1>3 DEF Votes, Group, Answered
<1>6. report[r][worker[w].subtask] = Verdict(ballot[r], worker[w].subtask)
  BY <1>2, <1>3, <1>4 DEF VerifyResults, Answered
<1> QED BY <1>1, <1>3, <1>4, <1>5, <1>6, AlikeAssumption, VoteIsCounted

\* Whatever the similarity: what a worker of the run answered, where no other
\* stream has a task for its row, is like the verified consensus or listed as
\* dissent, whichever workers fail, however many streams run, and whoever
\* resizes, writes, deletes or creates swarms between the answers, the votes
\* and the report.
THEOREM AnswersAreAlwaysCounted == Spec => []AnswersAreCounted
<1>1. Init => AnswersInv
  <2>1. Init => /\ TasksAwaitLoad /\ AnswersHaveTasks /\ AnsweredIsCompleted
                /\ TasksRest /\ BallotIsCurrent
    BY DEF Init, TasksAwaitLoad, AnswersHaveTasks, AnsweredIsCompleted,
           Answered, TasksRest, BallotIsCurrent
  <2> QED BY <2>1, SwarmAssumption, ReportInit DEF AnswersInv
<1>2. AnswersInv /\ [Next]_vars => AnswersInv'
  <2> SUFFICES ASSUME AnswersInv, [Next]_vars PROVE AnswersInv'
    OBVIOUS
  <2>1. ReportInv'
    BY SwarmAssumption, ReportStep DEF AnswersInv
  <2>2. TasksAwaitLoad'
    BY TasksAwaitLoadStep DEF AnswersInv, ReportInv
  <2> QED BY <2>1, <2>2, SwarmAssumption, AnswersStep, BallotStep DEF AnswersInv
<1>3. AnswersInv => AnswersAreCounted
  BY SwarmAssumption, CountedAnswers
<1> QED BY <1>1, <1>2, <1>3, PTL DEF Spec
=============================================================================
