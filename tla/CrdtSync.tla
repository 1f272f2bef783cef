------------------------------ MODULE CrdtSync ------------------------------
(***************************************************************************)
(* Devices that keep a last-write-wins register and an observed-remove set *)
(* and merge each other's states (server/services/crdt_service.py, behind  *)
(* server/api/sync.py).  A device keeps a log of SyncOperation rows, each  *)
(* with the whole state after an operation; the latest one of a type is    *)
(* the current state.  A request loads that row in one database session    *)
(* and saves the next in another; other requests may come between.  How a  *)
(* state travels is the clients' business: what a device merges is any     *)
(* state another one has ever had, late, repeated or out of order.         *)
(***************************************************************************)
EXTENDS Integers, Sequences, FiniteSets, SequencesExt

CONSTANTS
  Device,     \* node ids; they are compared, so integers
  Request,    \* requests that may be under way at a time
  Value,      \* values of the register
  Element,    \* elements of the set
  MaxTime,    \* bound on time stamps
  MaxOps,     \* bound on the operations of all the logs
  None

ASSUME CrdtAssumption ==
  /\ Device \subseteq Nat \ {0}
  /\ MaxTime \in Nat /\ MaxOps \in Nat
  /\ None \notin Nat /\ None \notin Value

VARIABLES
  log,        \* the sync_operations rows of each device, oldest first
  clock,      \* the time of each device's last write; clocks are not in step,
              \* and are taken to advance between two writes of one device
  tags,       \* tags made so far; uuid4 makes each of them new
  request,    \* the requests under way
  overlapped  \* the devices where two requests ever overlapped

vars == <<log, clock, tags, request, overlapped>>

Time == 1..MaxTime
Register == [value : Value \cup {None}, timestamp : Nat,
             node : Device \cup {0}]
NewRegister == [value |-> None, timestamp |-> 0, node |-> 0]
Set == [Element -> SUBSET Nat]
NewSet == [e \in Element |-> {}]

Lww == {"set", "merge_lww"}
Orset == {"create", "add", "remove", "merge_orset"}
\* Rows: op_type is told by what made them; device is device_id.
Op == [by : Lww \cup Orset, device : Device \cup {None},
       payload : Register \cup Set, synced : SUBSET Device]

\* None marks a log without such a row.
ASSUME OpAssumption == None \notin Op
-----------------------------------------------------------------------------
(* The replicated data types. *)

\* Mutant: a write takes effect however old it is.
WriteLate(register, v, ts, node) ==
  [value |-> v, timestamp |-> ts, node |-> node]

\* LWWRegister.set.
Write(register, v, ts, node) ==
  IF ts < register.timestamp THEN register
  ELSE [value |-> v, timestamp |-> ts, node |-> node]

\* Mutant: the local register wins a tie.
MergeLwwLocal(mine, other) ==
  IF other.timestamp > mine.timestamp THEN other ELSE mine

\* LWWRegister.merge: the later time stamp, the larger node id on a tie.
MergeLww(mine, other) ==
  IF \/ other.timestamp > mine.timestamp
     \/ other.timestamp = mine.timestamp /\ other.node > mine.node
  THEN other ELSE mine

\* ORSet.add, remove and merge.  A removed tag leaves no trace.
AddTag(set, e, tag) == [set EXCEPT ![e] = @ \cup {tag}]
RemoveTags(set, e) == [set EXCEPT ![e] = {}]
MergeOrset(mine, other) == [e \in Element |-> mine[e] \cup other[e]]
-----------------------------------------------------------------------------
(* The service. *)

Init ==
  /\ log = [d \in Device |-> <<>>]
  /\ clock = [d \in Device |-> 0]
  /\ tags = 0
  /\ request = [r \in Request |-> None]
  /\ overlapped = {}

\* _load_latest_op: the newest row of a type, None when there is none.
LatestOp(d, type) ==
  LET rows == {i \in DOMAIN log[d] : log[d][i].by \in type}
  IN IF rows = {} THEN None
     ELSE log[d][CHOOSE i \in rows : \A j \in rows : j <= i]

RegisterOf(op) == IF op = None THEN NewRegister ELSE op.payload
SetOf(op) == IF op = None THEN NewSet ELSE op.payload
DeviceOf(op) == IF op = None THEN None ELSE op.device

UnderWay(d) == {r \in Request : request[r] # None /\ request[r].device = d}
\* Rows there are, or will be when the requests under way have saved theirs.
RowCount == FoldFunctionOnSet(+, 0, [d \in Device |->
              Len(log[d]) + Cardinality(UnderWay(d))], Device)

\* A request loads what it is about to change.
Load(r, d, by, type, with) ==
  /\ request[r] = None /\ RowCount < MaxOps
  /\ request' = [request EXCEPT ![r] =
       [device |-> d, by |-> by, found |-> LatestOp(d, type), with |-> with]]
  /\ overlapped' =
       IF UnderWay(d) = {} THEN overlapped ELSE overlapped \cup {d}
  /\ UNCHANGED <<log, clock, tags>>

\* _save_op.
SaveOp(d, by, payload, device) ==
  log' = [log EXCEPT ![d] = Append(@,
    [by |-> by, device |-> device, payload |-> payload,
     synced |-> IF device = None THEN {} ELSE {device}])]

\* The second session of a request.
Save(r, by, payload, device) ==
  /\ request[r] # None /\ request[r].by = by
  /\ SaveOp(request[r].device, by, payload, device)
  /\ request' = [request EXCEPT ![r] = None]
  /\ UNCHANGED overlapped

\* create_lww, called with the device's own node id.  The clock is read
\* between the sessions.
CreateLww(r) ==
  \/ \E d \in Device, v \in Value : Load(r, d, "set", Lww, v)
  \/ LET held == request[r] IN
     \E ts \in Time :
       /\ held # None /\ ts > clock[held.device]
       /\ Save(r, "set",
               Write(RegisterOf(held.found), held.with, ts, held.device),
               held.device)
       /\ clock' = [clock EXCEPT ![held.device] = ts]
       /\ UNCHANGED tags

\* States of other devices that may reach d.
Received(d, type) ==
  {op.payload : op \in {o \in UNION {ToSet(log[e]) : e \in Device \ {d}} :
                          o.by \in type}}

\* merge_lww.  The row goes by the device of the row before it.
MergeRegister(r) ==
  \/ \E d \in Device : \E other \in Received(d, Lww) :
       Load(r, d, "merge_lww", Lww, other)
  \/ LET held == request[r] IN
     /\ held # None
     /\ Save(r, "merge_lww", MergeLww(RegisterOf(held.found), held.with),
             IF held.found = None THEN held.with.node ELSE held.found.device)
     /\ UNCHANGED <<clock, tags>>

\* create_orset looks at nothing that is there.
CreateOrset(d) ==
  /\ RowCount < MaxOps
  /\ SaveOp(d, "create", NewSet, None)
  /\ overlapped' =
       IF UnderWay(d) = {} THEN overlapped ELSE overlapped \cup {d}
  /\ UNCHANGED <<clock, tags, request>>

AddToOrset(r) ==
  \/ \E d \in Device, e \in Element : Load(r, d, "add", Orset, e)
  \/ LET held == request[r] IN
     /\ held # None
     /\ Save(r, "add", AddTag(SetOf(held.found), held.with, tags + 1),
             DeviceOf(held.found))
     /\ tags' = tags + 1
     /\ UNCHANGED clock

RemoveFromOrset(r) ==
  \/ \E d \in Device, e \in Element : Load(r, d, "remove", Orset, e)
  \/ LET held == request[r] IN
     /\ held # None
     /\ Save(r, "remove", RemoveTags(SetOf(held.found), held.with),
             DeviceOf(held.found))
     /\ UNCHANGED <<clock, tags>>

MergeSet(r) ==
  \/ \E d \in Device : \E other \in Received(d, Orset) :
       Load(r, d, "merge_orset", Orset, other)
  \/ LET held == request[r] IN
     /\ held # None
     /\ Save(r, "merge_orset", MergeOrset(SetOf(held.found), held.with),
             DeviceOf(held.found))
     /\ UNCHANGED <<clock, tags>>

\* Whether a state has all that another has.
Covers(type, state, other) ==
  IF type = Lww
  THEN MergeLww(state, other) = state
  ELSE \A e \in Element : other[e] \subseteq state[e]
TypeOf(op) == IF op.by \in Lww THEN Lww ELSE Orset

\* Whether a device has had what an operation carries.
Has(e, op) ==
  \E own \in ToSet(log[e]) :
    own.by \in TypeOf(op) /\ Covers(TypeOf(op), own.payload, op.payload)

\* mark_synced, called when a device has merged an operation.  The list is
\* changed in place: the session takes it for unchanged, and commits nothing,
\* unless it was empty and a new one was made.
MarkSynced(d, e) ==
  \E i \in DOMAIN log[d] :
    /\ e \notin log[d][i].synced /\ Has(e, log[d][i])
    /\ log' = IF log[d][i].synced # {} THEN log
              ELSE [log EXCEPT ![d][i].synced = {e}]
    /\ UNCHANGED <<clock, tags, request, overlapped>>

Next ==
  \/ \E r \in Request :
       \/ CreateLww(r) \/ MergeRegister(r)
       \/ AddToOrset(r) \/ RemoveFromOrset(r) \/ MergeSet(r)
  \/ \E d \in Device :
       \/ CreateOrset(d)
       \/ \E e \in Device \ {d} : MarkSynced(d, e)

Spec == Init /\ [][Next]_vars
-----------------------------------------------------------------------------
(* Properties. *)

\* Two devices that merge each other's register come to the same one,
\* whatever was overwritten, delayed or written under equal time stamps
\* before: a time stamp and a node belong to one value ("保证两端的合并结果一致").
ExchangeAgrees ==
  \A d, e \in Device :
    \A i \in DOMAIN log[d], j \in DOMAIN log[e] :
      log[d][i].by \in Lww /\ log[e][j].by \in Lww =>
        MergeLww(log[d][i].payload, log[e][j].payload) =
        MergeLww(log[e][j].payload, log[d][i].payload)

\* On a device whose requests never overlapped, the register does not go back
\* in time, and no element is lost but by a removal.  (Overlapping requests
\* start from one row, and the later save hides the earlier.)
StatesGrow ==
  \A d \in Device \ overlapped :
    \A j \in DOMAIN log[d] : \A i \in 1..j :
      LET before == log[d][i]  after == log[d][j] IN
      /\ before.by \in Lww /\ after.by \in Lww =>
           before.payload.timestamp <= after.payload.timestamp
      /\ /\ before.by \in Orset /\ after.by \in Orset
         /\ \A k \in i + 1..j : log[d][k].by \notin {"create", "remove"}
         => Covers(Orset, after.payload, before.payload)
=============================================================================
