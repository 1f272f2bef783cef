--------------------------- MODULE CrdtSync_proofs ---------------------------
(***************************************************************************)
(* Theorems about CrdtSync, for every set of devices, requests, values and *)
(* elements and every bound: two devices that merge each other's register  *)
(* come to the same one, and states grow on a device whose requests do not *)
(* overlap.                                                                *)
(***************************************************************************)
EXTENDS CrdtSync, WellFoundedInduction, TLAPS

\* Registers that were written, and the sets there are.
Written == [value : Value \cup {None}, timestamp : Nat \ {0}, node : Device]
AnySet == [Element -> SUBSET Nat]

\* Rows of the two types.
LwwRow == [by : Lww, device : Device \cup {None}, payload : Written,
           synced : SUBSET Device]
OrsetRow == [by : Orset, device : Device \cup {None}, payload : AnySet,
             synced : SUBSET Device]

\* The registers in the logs.
Logged ==
  {x \in Written : \E d \in Device : \E i \in DOMAIN log[d] :
     log[d][i].by \in Lww /\ x = log[d][i].payload}

\* The requests.
SetRequest == [device : Device, by : {"set"}, found : LwwRow \cup {None},
               with : Value]
MergeRequest == [device : Device, by : {"merge_lww"},
                 found : LwwRow \cup {None}, with : Written]
OrsetRequest == [device : Device, by : {"add", "remove"},
                 found : OrsetRow \cup {None}, with : Element]
MergeSetRequest == [device : Device, by : {"merge_orset"},
                    found : OrsetRow \cup {None}, with : AnySet]

TypeInv ==
  /\ log \in [Device -> Seq(LwwRow \cup OrsetRow)]
  /\ clock \in [Device -> Nat]
  /\ tags \in Nat
  /\ request \in [Request -> {None} \cup SetRequest \cup MergeRequest
                               \cup OrsetRequest \cup MergeSetRequest]

\* A register a request has in hand is in some log still: rows are never
\* changed but in synced, nor removed.
HeldIsLogged ==
  \A r \in Request : request[r] # None =>
    /\ request[r].by \in Lww /\ request[r].found # None =>
         request[r].found.payload \in Logged
    /\ request[r].by = "merge_lww" => request[r].with \in Logged

\* A device's clock is ahead of every register it has written, wherever that
\* is by now.
StampsArePast == \A x \in Logged : x.timestamp <= clock[x.node]

\* A time stamp and a node belong to one value.
StampsAreUnique ==
  \A x, y \in Logged :
    x.timestamp = y.timestamp /\ x.node = y.node => x = y

\* The inductive invariant.
IInv == TypeInv /\ HeldIsLogged /\ StampsArePast /\ StampsAreUnique
-----------------------------------------------------------------------------
LEMMA DeviceIsNat == Device \subseteq Nat \ {0} /\ None \notin Device
BY CrdtAssumption

LEMMA LastOfSome ==
  ASSUME NEW n \in Nat, NEW S \in SUBSET (1..n), S # {}
  PROVE  \E i \in S : \A j \in S : j <= i
<1> DEFINE Behind == {n - i : i \in S}
           Less == {ss \in Nat \X Nat : ss[1] < ss[2]}
<1>1. Behind \in SUBSET Nat /\ Behind # {}
  <2>1. \A i \in S : n - i \in Nat OBVIOUS
  <2>2. Behind # {} OBVIOUS
  <2> QED BY <2>1, <2>2
<1>2. IsWellFoundedOn(Less, Nat) BY NatLessThanWellFounded DEF OpToRel
<1>3. PICK m \in Behind : \A k \in Behind : <<k, m>> \notin Less
  <2> HIDE DEF Behind, Less
  <2> QED BY <1>1, <1>2, WFMin
<1>4. \A k \in Behind : m <= k
  <2> TAKE k \in Behind
  <2> HIDE DEF Behind
  <2>1. m \in Nat /\ k \in Nat /\ ~ (k < m) BY <1>1, <1>3
  <2> QED BY <2>1
<1>5. PICK i \in S : m = n - i OBVIOUS
<1>6. \A j \in S : n - i <= n - j BY <1>4, <1>5
<1> QED BY <1>6

\* What _load_latest_op returns is one of the rows, if it is not None.
LEMMA LatestIsLogged ==
  ASSUME TypeInv, NEW d \in Device, NEW type, LatestOp(d, type) # None
  PROVE  \E i \in DOMAIN log[d] :
           log[d][i].by \in type /\ LatestOp(d, type) = log[d][i]
<1> DEFINE found == {i \in DOMAIN log[d] : log[d][i].by \in type}
<1>1. found # {} BY DEF LatestOp
<1>2. found \in SUBSET (1..Len(log[d])) /\ Len(log[d]) \in Nat
  BY DEF TypeInv
<1>3. \E i \in found : \A j \in found : j <= i BY <1>1, <1>2, LastOfSome
<1> DEFINE last == CHOOSE i \in found : \A j \in found : j <= i
<1>4. last \in found BY <1>3
<1>5. LatestOp(d, type) = log[d][last] BY <1>1 DEF LatestOp
<1> QED BY <1>4, <1>5

LEMMA LoggedIsWritten ==
  ASSUME TypeInv
  PROVE  /\ Logged \subseteq Written
         /\ \A d \in Device : \A i \in DOMAIN log[d] :
              /\ log[d][i] \in LwwRow \cup OrsetRow
              /\ log[d][i].by \in Lww =>
                   log[d][i] \in LwwRow /\ log[d][i].payload \in Logged
              /\ log[d][i].by \in Orset => log[d][i] \in OrsetRow
<1>1. ASSUME NEW d \in Device, NEW i \in DOMAIN log[d]
      PROVE  /\ i \in Nat
             /\ log[d][i] \in LwwRow \cup OrsetRow
             /\ log[d][i].by \in Lww => log[d][i] \in LwwRow
             /\ log[d][i].by \in Orset => log[d][i] \in OrsetRow
  <2>1. log[d][i] \in LwwRow \cup OrsetRow /\ i \in Nat BY DEF TypeInv
  <2> QED BY <2>1 DEF LwwRow, OrsetRow, Lww, Orset
<1>2. Logged \subseteq Written BY <1>1 DEF Logged, LwwRow
<1>3. ASSUME NEW d \in Device, NEW i \in DOMAIN log[d], log[d][i].by \in Lww
      PROVE  log[d][i].payload \in Logged
  <2>1. log[d][i].payload \in Written BY <1>1, <1>3 DEF LwwRow
  <2> QED BY <1>3, <2>1 DEF Logged
<1> QED BY <1>1, <1>2, <1>3

\* What a request is given to merge is a register, or a set, of some log.
LEMMA ReceivedIsLogged ==
  ASSUME TypeInv, NEW d \in Device
  PROVE  Received(d, Lww) \subseteq Logged /\ Received(d, Orset) \subseteq AnySet
BY LoggedIsWritten DEF Received, ToSet, OrsetRow
-----------------------------------------------------------------------------
(* Loading and saving. *)

\* An appended row adds its register, or nothing.
LEMMA AppendLogged ==
  ASSUME TypeInv, NEW d \in Device, NEW row \in LwwRow \cup OrsetRow,
         log' = [log EXCEPT ![d] = Append(log[d], row)]
  PROVE  /\ log' \in [Device -> Seq(LwwRow \cup OrsetRow)]
         /\ Logged \subseteq Logged'
         /\ \A x \in Logged' : x \in Logged \/ (row.by \in Lww /\ x = row.payload)
<1>1. log' \in [Device -> Seq(LwwRow \cup OrsetRow)] BY DEF TypeInv
<1>2. \A e \in Device \ {d} : log'[e] = log[e] BY DEF TypeInv
<1>3. \A i \in DOMAIN log[d] :
        i \in DOMAIN log'[d] /\ log'[d][i] = log[d][i]
  BY DEF TypeInv
<1>4. \A i \in DOMAIN log'[d] :
        i \in DOMAIN log[d] \/ log'[d][i] = row
  BY DEF TypeInv
<1>5. Logged \subseteq Logged' BY <1>2, <1>3 DEF Logged
<1>6. \A x \in Logged' : x \in Logged \/ (row.by \in Lww /\ x = row.payload)
  BY <1>2, <1>3, <1>4 DEF Logged
<1> QED BY <1>1, <1>5, <1>6

RequestRow == SetRequest \cup MergeRequest \cup OrsetRequest \cup MergeSetRequest

\* A request that has loaded a row.
LEMMA LoadKeepsIInv ==
  ASSUME IInv, NEW r \in Request, NEW held \in RequestRow,
         request' = [request EXCEPT ![r] = held],
         UNCHANGED <<log, clock, tags>>,
         held.by \in Lww /\ held.found # None => held.found.payload \in Logged,
         held.by = "merge_lww" => held.with \in Logged
  PROVE  IInv'
<1>1. TypeInv' BY DEF IInv, TypeInv, RequestRow
<1>2. Logged' = Logged BY DEF Logged
<1>3. HeldIsLogged' BY <1>2 DEF IInv, TypeInv, HeldIsLogged
<1>4. StampsArePast' /\ StampsAreUnique'
  BY <1>2 DEF IInv, StampsArePast, StampsAreUnique
<1> QED BY <1>1, <1>3, <1>4 DEF IInv

\* A row that is saved carries a set, a register of some log, or a new one with
\* a time stamp its device has not used.
LEMMA SaveKeepsIInv ==
  ASSUME IInv, NEW d \in Device, NEW row \in LwwRow \cup OrsetRow,
         log' = [log EXCEPT ![d] = Append(log[d], row)],
         \/ UNCHANGED request
         \/ \E r \in Request : request' = [request EXCEPT ![r] = None],
         clock' \in [Device -> Nat], \A e \in Device : clock[e] <= clock'[e],
         tags' \in Nat,
         row.by \in Lww =>
           \/ row.payload \in Logged
           \/ /\ row.payload.timestamp <= clock'[row.payload.node]
              /\ \A x \in Logged : x.node = row.payload.node =>
                   x.timestamp # row.payload.timestamp
  PROVE  IInv'
<1>1. TypeInv' BY AppendLogged DEF IInv, TypeInv
<1>2. HeldIsLogged'
  BY AppendLogged DEF IInv, TypeInv, HeldIsLogged
<1>3. \A x \in Logged : x.timestamp \in Nat /\ x.node \in Device
  BY DEF Logged, Written
<1>4. StampsArePast'
  <2> SUFFICES ASSUME NEW x \in Logged' PROVE x.timestamp <= clock'[x.node]
    BY DEF StampsArePast
  <2>1. CASE x \in Logged
    <3>1. /\ x.timestamp \in Nat /\ x.node \in Device
          /\ x.timestamp <= clock[x.node]
      BY <1>3, <2>1 DEF IInv, StampsArePast
    <3>2. clock[x.node] \in Nat /\ clock'[x.node] \in Nat
      BY <3>1 DEF IInv, TypeInv
    <3> QED BY <3>1, <3>2
  <2>2. CASE x \notin Logged
    BY <2>2, AppendLogged DEF IInv
  <2> QED BY <2>1, <2>2
<1>5. StampsAreUnique'
  BY AppendLogged DEF IInv, StampsAreUnique
<1> QED BY <1>1, <1>2, <1>4, <1>5 DEF IInv

\* What a row that is saved for a request needs of what the request holds.
LEMMA HeldTyped ==
  ASSUME TypeInv, NEW r \in Request, request[r] # None
  PROVE  /\ request[r] \in RequestRow
         /\ request[r].device \in Device
         /\ request[r].by = "set" => request[r] \in SetRequest
         /\ request[r].by = "merge_lww" => request[r] \in MergeRequest
         /\ request[r].by \in {"add", "remove"} => request[r] \in OrsetRequest
         /\ request[r].by = "merge_orset" => request[r] \in MergeSetRequest
<1>1. request[r] \in RequestRow BY DEF TypeInv, RequestRow
<1> QED BY <1>1 DEF RequestRow, SetRequest, MergeRequest, OrsetRequest,
                    MergeSetRequest

\* The set and the device a set request starts from.
LEMMA SetTyped ==
  ASSUME NEW found \in OrsetRow \cup {None}
  PROVE  SetOf(found) \in AnySet /\ DeviceOf(found) \in Device \cup {None}
<1>1. NewSet \in AnySet BY DEF NewSet, AnySet
<1>2. CASE found = None BY <1>1, <1>2 DEF SetOf, DeviceOf
<1>3. CASE found # None BY <1>3 DEF SetOf, DeviceOf, OrsetRow
<1> QED BY <1>2, <1>3

\* The row _save_op makes.
LEMMA SavedRow ==
  ASSUME NEW by, NEW payload, NEW device \in Device \cup {None}
  PROVE  LET row == [by |-> by, device |-> device, payload |-> payload,
                     synced |-> IF device = None THEN {} ELSE {device}]
         IN /\ by \in Lww /\ payload \in Written => row \in LwwRow
            /\ by \in Orset /\ payload \in AnySet => row \in OrsetRow
            /\ row.by = by /\ row.payload = payload
<1> DEFINE synced == IF device = None THEN {} ELSE {device}
<1>1. synced \in SUBSET Device OBVIOUS
<1> HIDE DEF synced
<1>2. LET row == [by |-> by, device |-> device, payload |-> payload,
                  synced |-> synced]
      IN /\ by \in Lww /\ payload \in Written => row \in LwwRow
         /\ by \in Orset /\ payload \in AnySet => row \in OrsetRow
         /\ row.by = by /\ row.payload = payload
  BY <1>1 DEF LwwRow, OrsetRow
<1> QED BY <1>2 DEF synced
-----------------------------------------------------------------------------
(* The operations. *)

\* Any request that loads a row of its type, with what it may be given.
LEMMA LoadingKeepsIInv ==
  ASSUME IInv, NEW r \in Request, NEW d \in Device, NEW by, NEW type, NEW with,
         Load(r, d, by, type, with),
         \/ type = Lww /\ by = "set" /\ with \in Value
         \/ type = Lww /\ by = "merge_lww" /\ with \in Logged
         \/ type = Orset /\ by \in {"add", "remove"} /\ with \in Element
         \/ type = Orset /\ by = "merge_orset" /\ with \in AnySet
  PROVE  IInv'
<1> DEFINE found == LatestOp(d, type)
           held == [device |-> d, by |-> by, found |-> found, with |-> with]
<1>1. request' = [request EXCEPT ![r] = held] /\ UNCHANGED <<log, clock, tags>>
  BY DEF Load
<1>2. found # None =>
        /\ type = Lww => found \in LwwRow /\ found.payload \in Logged
        /\ type = Orset => found \in OrsetRow
  BY LatestIsLogged, LoggedIsWritten DEF IInv
<1>3. Logged \subseteq Written BY LoggedIsWritten DEF IInv
<1> HIDE DEF found
<1>4. held \in RequestRow
  BY <1>2, <1>3
     DEF RequestRow, SetRequest, MergeRequest, OrsetRequest, MergeSetRequest
<1>5. held.by = by /\ held.found = found /\ held.with = with OBVIOUS
<1>6. by \in Lww => type = Lww BY DEF Lww
<1> HIDE DEF held
<1> QED BY <1>1, <1>2, <1>4, <1>5, <1>6, LoadKeepsIInv

LEMMA SetStepKeepsIInv ==
  ASSUME IInv, NEW r \in Request, CreateLww(r)
  PROVE  IInv'
<1>1. ASSUME NEW d \in Device, NEW v \in Value, Load(r, d, "set", Lww, v)
      PROVE  IInv'
  BY <1>1, LoadingKeepsIInv
<1>2. ASSUME NEW ts \in Time,
             request[r] # None, ts > clock[request[r].device],
             Save(r, "set",
                  Write(RegisterOf(request[r].found), request[r].with, ts,
                        request[r].device),
                  request[r].device),
             clock' = [clock EXCEPT ![request[r].device] = ts],
             UNCHANGED tags
      PROVE  IInv'
  <2> DEFINE d == request[r].device
             before == RegisterOf(request[r].found)
             after == Write(before, request[r].with, ts, d)
             row == [by |-> "set", device |-> d, payload |-> after,
                     synced |-> IF d = None THEN {} ELSE {d}]
  <2>1. request[r] \in SetRequest /\ d \in Device
    BY <1>2, HeldTyped DEF Save, IInv
  <2>2. log' = [log EXCEPT ![d] = Append(log[d], row)]
        /\ request' = [request EXCEPT ![r] = None]
    BY <1>2 DEF Save, SaveOp
  <2>3. ts \in Nat \ {0} BY CrdtAssumption DEF Time
  <2>4. \/ after \in Logged
        \/ after = [value |-> request[r].with, timestamp |-> ts, node |-> d]
    <3>1. CASE request[r].found = None
      BY <2>3, <3>1 DEF Write, RegisterOf, NewRegister
    <3>2. CASE request[r].found # None
      <4>1. before \in Logged
        BY <1>2, <2>1, <3>2 DEF IInv, HeldIsLogged, RegisterOf, Save, Lww
      <4> QED BY <4>1 DEF Write
    <3> QED BY <3>1, <3>2
  <2>5. after \in Written
    BY <2>1, <2>3, <2>4, LoggedIsWritten DEF IInv, SetRequest, Written
  <2>6. row \in LwwRow /\ row.by = "set" /\ row.payload = after
    BY <2>1, <2>5, SavedRow DEF Lww
  <2>7. /\ clock' \in [Device -> Nat] /\ clock'[d] = ts
        /\ \A e \in Device : clock[e] <= clock'[e]
    BY <1>2, <2>1, <2>3 DEF IInv, TypeInv
  <2>8. ASSUME after = [value |-> request[r].with, timestamp |-> ts, node |-> d]
        PROVE  /\ after.timestamp <= clock'[after.node]
               /\ \A x \in Logged : x.node = after.node =>
                    x.timestamp # after.timestamp
    <3>1. after.timestamp = ts /\ after.node = d BY <2>8
    <3>2. \A x \in Logged : x.timestamp \in Nat BY DEF Logged, Written
    <3>3. \A x \in Logged : x.node = d => x.timestamp <= clock[d]
      BY DEF IInv, StampsArePast
    <3>4. clock[d] \in Nat /\ ts > clock[d]
      BY <1>2, <2>1 DEF IInv, TypeInv
    <3> HIDE DEF after, d
    <3> QED BY <2>3, <2>7, <3>1, <3>2, <3>3, <3>4
  <2>9. tags' \in Nat BY <1>2 DEF IInv, TypeInv
  <2> HIDE DEF d, before, after, row
  <2> QED BY <2>1, <2>2, <2>4, <2>6, <2>7, <2>8, <2>9, SaveKeepsIInv
<1> QED BY <1>1, <1>2 DEF CreateLww

LEMMA MergeRegisterKeepsIInv ==
  ASSUME IInv, NEW r \in Request, MergeRegister(r)
  PROVE  IInv'
<1>1. ASSUME NEW d \in Device, NEW other \in Received(d, Lww),
             Load(r, d, "merge_lww", Lww, other)
      PROVE  IInv'
  BY <1>1, LoadingKeepsIInv, ReceivedIsLogged DEF IInv
<1>2. ASSUME request[r] # None,
             Save(r, "merge_lww",
                  MergeLww(RegisterOf(request[r].found), request[r].with),
                  IF request[r].found = None THEN request[r].with.node
                  ELSE request[r].found.device),
             UNCHANGED <<clock, tags>>
      PROVE  IInv'
  <2> DEFINE d == request[r].device
             before == RegisterOf(request[r].found)
             after == MergeLww(before, request[r].with)
             device == IF request[r].found = None THEN request[r].with.node
                       ELSE request[r].found.device
             row == [by |-> "merge_lww", device |-> device, payload |-> after,
                     synced |-> IF device = None THEN {} ELSE {device}]
  <2>1. request[r] \in MergeRequest /\ d \in Device
        /\ request[r].by = "merge_lww"
    BY <1>2, HeldTyped DEF Save, IInv
  <2>2. log' = [log EXCEPT ![d] = Append(log[d], row)]
        /\ request' = [request EXCEPT ![r] = None]
    BY <1>2 DEF Save, SaveOp
  <2>3. request[r].with \in Logged /\ request[r].with \in Written
    BY <1>2, <2>1 DEF IInv, HeldIsLogged, MergeRequest
  <2>4. after \in Logged
    <3>1. CASE request[r].found = None
      <4>1. before.timestamp = 0 /\ request[r].with.timestamp \in Nat \ {0}
        BY <2>3, <3>1 DEF RegisterOf, NewRegister, Written
      <4> QED BY <2>3, <4>1 DEF MergeLww
    <3>2. CASE request[r].found # None
      <4>1. before \in Logged
        BY <1>2, <2>1, <3>2 DEF IInv, HeldIsLogged, RegisterOf, Lww
      <4> QED BY <2>3, <4>1 DEF MergeLww
    <3> QED BY <3>1, <3>2
  <2>5. after \in Written BY <2>4, LoggedIsWritten DEF IInv
  <2>6. device \in Device \cup {None}
    BY <2>1, <2>3 DEF MergeRequest, LwwRow, Written
  <2>7. row \in LwwRow /\ row.by = "merge_lww" /\ row.payload = after
    <3> HIDE DEF device, after
    <3> QED BY <2>5, <2>6, SavedRow DEF Lww
  <2>8. /\ clock' \in [Device -> Nat] /\ tags' \in Nat
        /\ \A e \in Device : clock[e] <= clock'[e]
    BY <1>2 DEF IInv, TypeInv
  <2> HIDE DEF d, before, after, device, row
  <2> QED BY <2>1, <2>2, <2>4, <2>7, <2>8, SaveKeepsIInv
<1> QED BY <1>1, <1>2 DEF MergeRegister

\* The second session of each of the set's operations.
LEMMA SavingSetKeepsIInv ==
  ASSUME IInv, NEW r \in Request, request[r] # None,
         NEW by \in {"add", "remove", "merge_orset"}, NEW payload \in AnySet,
         Save(r, by, payload, DeviceOf(request[r].found)),
         UNCHANGED clock, tags' \in Nat
  PROVE  IInv'
<1> DEFINE d == request[r].device
           device == DeviceOf(request[r].found)
           row == [by |-> by, device |-> device, payload |-> payload,
                   synced |-> IF device = None THEN {} ELSE {device}]
<1>1. d \in Device /\ device \in Device \cup {None}
  <2>1. request[r].found \in OrsetRow \cup {None}
    BY HeldTyped DEF Save, IInv, OrsetRequest, MergeSetRequest
  <2> QED BY <2>1, HeldTyped, SetTyped DEF IInv
<1>2. log' = [log EXCEPT ![d] = Append(log[d], row)]
      /\ request' = [request EXCEPT ![r] = None]
  BY DEF Save, SaveOp
<1>3. row \in OrsetRow /\ row.by \notin Lww
  <2> HIDE DEF device
  <2> QED BY <1>1, SavedRow DEF Lww, Orset
<1>4. clock' \in [Device -> Nat] /\ \A e \in Device : clock[e] <= clock'[e]
  BY DEF IInv, TypeInv
<1> HIDE DEF d, device, row
<1> QED BY <1>1, <1>2, <1>3, <1>4, SaveKeepsIInv

LEMMA SetsKeepIInv ==
  ASSUME IInv, NEW r \in Request,
         AddToOrset(r) \/ RemoveFromOrset(r) \/ MergeSet(r)
  PROVE  IInv'
<1>1. ASSUME NEW d \in Device, NEW e \in Element,
             Load(r, d, "add", Orset, e) \/ Load(r, d, "remove", Orset, e)
      PROVE  IInv'
  BY <1>1, LoadingKeepsIInv
<1>2. ASSUME NEW d \in Device, NEW other \in Received(d, Orset),
             Load(r, d, "merge_orset", Orset, other)
      PROVE  IInv'
  BY <1>2, LoadingKeepsIInv, ReceivedIsLogged DEF IInv
<1>3. ASSUME request[r] # None, request[r].by \in {"add", "remove"}
      PROVE  SetOf(request[r].found) \in AnySet /\ request[r].with \in Element
  BY <1>3, HeldTyped, SetTyped DEF IInv, OrsetRequest
<1>4. tags \in Nat BY DEF IInv, TypeInv
<1>5. CASE AddToOrset(r) /\ request[r] # None
           /\ Save(r, "add", AddTag(SetOf(request[r].found), request[r].with,
                                    tags + 1),
                   DeviceOf(request[r].found))
           /\ tags' = tags + 1 /\ UNCHANGED clock
  <2>1. AddTag(SetOf(request[r].found), request[r].with, tags + 1) \in AnySet
    BY <1>3, <1>4, <1>5 DEF AddTag, AnySet, Save
  <2> QED BY <1>4, <1>5, <2>1, SavingSetKeepsIInv
<1>6. CASE RemoveFromOrset(r) /\ request[r] # None
           /\ Save(r, "remove", RemoveTags(SetOf(request[r].found),
                                           request[r].with),
                   DeviceOf(request[r].found))
           /\ UNCHANGED <<clock, tags>>
  <2>1. RemoveTags(SetOf(request[r].found), request[r].with) \in AnySet
    BY <1>3, <1>6 DEF RemoveTags, AnySet, Save
  <2> QED BY <1>4, <1>6, <2>1, SavingSetKeepsIInv
<1>7. CASE MergeSet(r) /\ request[r] # None
           /\ Save(r, "merge_orset", MergeOrset(SetOf(request[r].found),
                                                request[r].with),
                   DeviceOf(request[r].found))
           /\ UNCHANGED <<clock, tags>>
  <2>1. SetOf(request[r].found) \in AnySet /\ request[r].with \in AnySet
    BY <1>7, HeldTyped, SetTyped DEF IInv, MergeSetRequest, Save
  <2>2. MergeOrset(SetOf(request[r].found), request[r].with) \in AnySet
    BY <2>1 DEF MergeOrset, AnySet
  <2> QED BY <1>4, <1>7, <2>2, SavingSetKeepsIInv
<1> QED
  BY <1>1, <1>2, <1>5, <1>6, <1>7 DEF AddToOrset, RemoveFromOrset, MergeSet

LEMMA CreateSetKeepsIInv ==
  ASSUME IInv, NEW d \in Device, CreateOrset(d)
  PROVE  IInv'
<1> DEFINE row == [by |-> "create", device |-> None, payload |-> NewSet,
                   synced |-> IF None = None THEN {} ELSE {None}]
<1>1. log' = [log EXCEPT ![d] = Append(log[d], row)]
      /\ UNCHANGED <<request, clock, tags>>
  BY DEF CreateOrset, SaveOp
<1>2. row \in OrsetRow /\ row.by \notin Lww
  BY SavedRow DEF NewSet, AnySet, Lww, Orset
<1>3. /\ clock' \in [Device -> Nat] /\ tags' \in Nat
      /\ \A e \in Device : clock[e] <= clock'[e]
  BY <1>1 DEF IInv, TypeInv
<1> HIDE DEF row
<1> QED BY <1>1, <1>2, <1>3, SaveKeepsIInv

\* Marking a row changes no payload.
LEMMA MarkKeepsIInv ==
  ASSUME IInv, NEW d \in Device, NEW e \in Device, MarkSynced(d, e)
  PROVE  IInv'
<1>1. PICK i \in DOMAIN log[d] :
        log' = IF log[d][i].synced # {} THEN log
               ELSE [log EXCEPT ![d][i].synced = {e}]
  BY DEF MarkSynced
<1>2. UNCHANGED <<clock, tags, request>> BY DEF MarkSynced
<1>3. CASE log' = log
  <2>1. Logged' = Logged BY <1>3 DEF Logged
  <2>2. TypeInv' BY <1>2, <1>3 DEF IInv, TypeInv
  <2> QED BY <1>2, <2>1, <2>2 DEF IInv, HeldIsLogged, StampsArePast,
                                  StampsAreUnique
<1>4. CASE log' = [log EXCEPT ![d][i].synced = {e}]
  <2> DEFINE row == [log[d][i] EXCEPT !.synced = {e}]
             rows == [log[d] EXCEPT ![i] = row]
  <2>1. log[d] \in Seq(LwwRow \cup OrsetRow)
        /\ log[d][i] \in LwwRow \cup OrsetRow
    BY DEF IInv, TypeInv
  <2>2. /\ row \in LwwRow \cup OrsetRow
        /\ row.by = log[d][i].by /\ row.payload = log[d][i].payload
    BY <2>1 DEF LwwRow, OrsetRow
  <2>3. log' = [log EXCEPT ![d] = rows] BY <1>4
  <2> HIDE DEF row
  <2>4. /\ rows \in Seq(LwwRow \cup OrsetRow) /\ DOMAIN rows = DOMAIN log[d]
        /\ \A j \in DOMAIN rows : /\ rows[j].by = log[d][j].by
                                  /\ rows[j].payload = log[d][j].payload
    BY <2>1, <2>2
  <2> HIDE DEF rows
  <2>5. TypeInv' BY <1>2, <2>3, <2>4 DEF IInv, TypeInv
  <2>6. Logged' = Logged
    <3>1. /\ \A f \in Device : DOMAIN log'[f] = DOMAIN log[f]
          /\ \A f \in Device : \A j \in DOMAIN log[f] :
               /\ log'[f][j].by = log[f][j].by
               /\ log'[f][j].payload = log[f][j].payload
      BY <2>3, <2>4 DEF IInv, TypeInv
    <3> QED BY <3>1 DEF Logged
  <2> QED BY <1>2, <2>5, <2>6
             DEF IInv, HeldIsLogged, StampsArePast, StampsAreUnique
<1> QED BY <1>1, <1>3, <1>4

LEMMA InitIInv == ASSUME Init PROVE IInv
<1>1. TypeInv BY DEF Init, TypeInv
<1>2. Logged = {} BY DEF Init, Logged
<1> QED BY <1>1, <1>2 DEF Init, IInv, HeldIsLogged, StampsArePast,
                          StampsAreUnique

LEMMA NextIInv == ASSUME IInv, [Next]_vars PROVE IInv'
<1>1. CASE UNCHANGED vars
  <2>1. Logged' = Logged BY <1>1 DEF vars, Logged
  <2>2. TypeInv' BY <1>1 DEF vars, IInv, TypeInv
  <2> QED BY <1>1, <2>1, <2>2 DEF vars, IInv, HeldIsLogged, StampsArePast,
                                  StampsAreUnique
<1> QED
  BY <1>1, SetStepKeepsIInv, MergeRegisterKeepsIInv, SetsKeepIInv,
     CreateSetKeepsIInv, MarkKeepsIInv DEF Next

\* LWWRegister.merge gives two devices the same register, whichever merges
\* first: whatever was overwritten, delayed, merged under another device's row
\* or written at one time by several devices, a time stamp and a node belong to
\* one value.
THEOREM ExchangesAgree == Spec => []ExchangeAgrees
<1>1. ASSUME IInv PROVE ExchangeAgrees
  <2> SUFFICES ASSUME NEW x \in Logged, NEW y \in Logged
               PROVE  MergeLww(x, y) = MergeLww(y, x)
    BY <1>1, LoggedIsWritten DEF IInv, ExchangeAgrees
  <2>1. /\ x.timestamp \in Nat /\ y.timestamp \in Nat
        /\ x.node \in Nat /\ y.node \in Nat
    BY DeviceIsNat DEF Logged, Written
  <2>2. x.timestamp = y.timestamp /\ x.node = y.node => x = y
    BY <1>1 DEF IInv, StampsAreUnique
  <2> QED BY <2>1, <2>2 DEF MergeLww
<1> QED BY <1>1, InitIInv, NextIInv, PTL DEF Spec
-----------------------------------------------------------------------------
(* States grow where requests do not overlap. *)

TypeBy(by) == IF by \in Lww THEN Lww ELSE Orset

\* Whether what was found is what the newest row of a type carries.
IsLatest(rows, type, found) ==
  IF found = None
  THEN \A i \in DOMAIN rows : rows[i].by \notin type
  ELSE \E l \in DOMAIN rows :
         /\ rows[l].by \in type /\ rows[l].payload = found.payload
         /\ \A i \in DOMAIN rows : rows[i].by \in type => i <= l

\* What StatesGrow says of one log.
Grows(rows) ==
  \A j \in DOMAIN rows : \A i \in 1..j :
    /\ rows[i].by \in Lww /\ rows[j].by \in Lww =>
         rows[i].payload.timestamp <= rows[j].payload.timestamp
    /\ /\ rows[i].by \in Orset /\ rows[j].by \in Orset
       /\ \A k \in i + 1..j : rows[k].by \notin {"create", "remove"}
       => \A e \in Element : rows[i].payload[e] \subseteq rows[j].payload[e]

\* Where requests never overlapped there is one at most, and what it found is
\* what there is to find still.
HoldsLatest ==
  \A d \in Device \ overlapped : \A r \in UnderWay(d) :
    /\ \A s \in UnderWay(d) : s = r
    /\ IsLatest(log[d], TypeBy(request[r].by), request[r].found)

\* The inductive invariant, on top of IInv.
GrowInv == HoldsLatest /\ \A d \in Device \ overlapped : Grows(log[d])

\* A row that has what the newest one of its type has, if it is not to create
\* or to remove, keeps the log growing.
LEMMA AppendGrows ==
  ASSUME NEW rows \in Seq(LwwRow \cup OrsetRow), Grows(rows),
         NEW row \in LwwRow \cup OrsetRow, NEW found,
         row.by \notin {"create", "remove"} =>
           IsLatest(rows, TypeBy(row.by), found),
         row.by \in Lww /\ found # None =>
           found.payload.timestamp <= row.payload.timestamp,
         row.by \in Orset \ {"create", "remove"} /\ found # None =>
           \A e \in Element : found.payload[e] \subseteq row.payload[e]
  PROVE  Grows(Append(rows, row))
<1> DEFINE all == Append(rows, row)
           n == Len(rows)
<1>1. /\ n \in Nat /\ DOMAIN all = 1..(n + 1) /\ DOMAIN rows = 1..n
      /\ all[n + 1] = row /\ \A i \in 1..n : all[i] = rows[i]
      /\ \A i \in 1..n : rows[i] \in LwwRow \cup OrsetRow
  OBVIOUS
<1>2. \A x \in LwwRow \cup OrsetRow : x.by \in Lww => x.payload.timestamp \in Nat
  BY DEF LwwRow, OrsetRow, Written, Lww, Orset
<1> HIDE DEF all, n
<1> SUFFICES ASSUME NEW j \in 1..(n + 1), NEW i \in 1..j
    PROVE  /\ all[i].by \in Lww /\ all[j].by \in Lww =>
                all[i].payload.timestamp <= all[j].payload.timestamp
           /\ /\ all[i].by \in Orset /\ all[j].by \in Orset
              /\ \A k \in i + 1..j : all[k].by \notin {"create", "remove"}
              => \A e \in Element : all[i].payload[e] \subseteq all[j].payload[e]
  BY <1>1 DEF Grows, all
<1>3. CASE j <= n
  <2>1. j \in DOMAIN rows /\ i \in DOMAIN rows /\ \A k \in i + 1..j : k \in 1..n
    BY <1>1, <1>3
  <2>2. all[i] = rows[i] /\ all[j] = rows[j] BY <1>1, <2>1
  <2>3. \A k \in i + 1..j : all[k] = rows[k] BY <1>1, <2>1
  <2>4. (\A k \in i + 1..j : all[k].by \notin {"create", "remove"}) =>
          \A k \in i + 1..j : rows[k].by \notin {"create", "remove"}
    BY <2>3
  <2> QED BY <2>1, <2>2, <2>4 DEF Grows
<1>4. CASE j = n + 1 /\ i = n + 1
  <2>1. all[i] \in LwwRow \cup OrsetRow BY <1>1, <1>4
  <2> QED BY <1>2, <1>4, <2>1
<1>5. CASE j = n + 1 /\ i <= n
  <2>1. i \in 1..n /\ all[i] = rows[i] /\ all[j] = row BY <1>1, <1>5
  <2>2. ASSUME rows[i].by \in Lww, row.by \in Lww
        PROVE  rows[i].payload.timestamp <= row.payload.timestamp
    <3>1. IsLatest(rows, Lww, found)
      BY <2>2 DEF TypeBy, Lww
    <3>2. found # None BY <1>1, <2>1, <2>2, <3>1 DEF IsLatest
    <3>3. PICK l \in 1..n :
            /\ rows[l].by \in Lww /\ rows[l].payload = found.payload /\ i <= l
      BY <1>1, <2>1, <2>2, <3>1, <3>2 DEF IsLatest
    <3>4. i \in 1..l BY <2>1, <3>3
    <3>5. rows[i].payload.timestamp <= rows[l].payload.timestamp
      BY <1>1, <2>2, <3>3, <3>4 DEF Grows
    <3>6. /\ rows[i].payload.timestamp \in Nat
          /\ rows[l].payload.timestamp \in Nat /\ row.payload.timestamp \in Nat
      BY <1>1, <1>2, <2>1, <2>2, <3>3
    <3>7. rows[l].payload.timestamp <= row.payload.timestamp
      BY <2>2, <3>2, <3>3
    <3> QED BY <3>5, <3>6, <3>7
  <2>3. ASSUME rows[i].by \in Orset, row.by \in Orset,
               \A k \in i + 1..j : all[k].by \notin {"create", "remove"}
        PROVE  \A e \in Element : rows[i].payload[e] \subseteq row.payload[e]
    <3>1. j \in i + 1..j /\ row.by \notin {"create", "remove"}
      BY <1>1, <1>5, <2>1, <2>3
    <3>2. IsLatest(rows, Orset, found)
      BY <2>3, <3>1 DEF TypeBy, Lww, Orset
    <3>3. found # None BY <1>1, <2>1, <2>3, <3>2 DEF IsLatest
    <3>4. PICK l \in 1..n :
            /\ rows[l].by \in Orset /\ rows[l].payload = found.payload /\ i <= l
      BY <1>1, <2>1, <2>3, <3>2, <3>3 DEF IsLatest
    <3>5. i \in 1..l /\ \A k \in i + 1..l : k \in i + 1..j /\ k \in 1..n
      BY <1>1, <1>5, <2>1, <3>4
    <3>6. \A k \in i + 1..l : rows[k].by \notin {"create", "remove"}
      BY <1>1, <2>3, <3>5
    <3>7. \A e \in Element : rows[i].payload[e] \subseteq rows[l].payload[e]
      BY <1>1, <2>3, <3>4, <3>5, <3>6 DEF Grows
    <3>8. \A e \in Element : rows[l].payload[e] \subseteq row.payload[e]
      BY <2>3, <3>1, <3>3, <3>4
    <3> QED BY <3>7, <3>8
  <2> QED BY <2>1, <2>2, <2>3
<1>6. i <= n \/ i = n + 1 BY <1>1
<1>7. j <= n \/ j = n + 1 BY <1>1
<1>8. j = n + 1 \/ i # n + 1 \/ ~ (j <= n) BY <1>1
<1> QED BY <1>3, <1>4, <1>5, <1>6, <1>7

LEMMA RowsAreSome == LwwRow \cup OrsetRow \subseteq Op /\ None \notin LwwRow \cup OrsetRow
<1>1. Written \subseteq Register BY DEF Written, Register
<1>2. LwwRow \cup OrsetRow \subseteq Op
  BY <1>1 DEF LwwRow, OrsetRow, Op, AnySet, Set
<1> QED BY <1>2, OpAssumption

\* What _load_latest_op finds is what the newest row carries.
LEMMA LatestIsLatest ==
  ASSUME TypeInv, NEW d \in Device, NEW type
  PROVE  IsLatest(log[d], type, LatestOp(d, type))
<1> DEFINE rows == {i \in DOMAIN log[d] : log[d][i].by \in type}
           last == CHOOSE i \in rows : \A j \in rows : j <= i
<1>1. CASE rows = {}
  <2>1. LatestOp(d, type) = None BY <1>1 DEF LatestOp
  <2> QED BY <1>1, <2>1 DEF IsLatest
<1>2. CASE rows # {}
  <2>1. rows \in SUBSET (1..Len(log[d])) /\ Len(log[d]) \in Nat
    BY DEF TypeInv
  <2>2. \E i \in rows : \A j \in rows : j <= i BY <1>2, <2>1, LastOfSome
  <2>3. last \in rows /\ \A j \in rows : j <= last BY <2>2
  <2>4. LatestOp(d, type) = log[d][last] BY <1>2 DEF LatestOp
  <2>5. log[d][last] # None
    <3>1. log[d][last] \in LwwRow \cup OrsetRow BY <2>3 DEF TypeInv
    <3> QED BY <3>1, RowsAreSome
  <2> QED BY <2>3, <2>4, <2>5 DEF IsLatest
<1> QED BY <1>1, <1>2

-----------------------------------------------------------------------------
(* The operations. *)

\* A request that loads a row is alone where requests do not overlap.
LEMMA LoadKeepsGrowInv ==
  ASSUME IInv, GrowInv, NEW r \in Request, NEW d \in Device, NEW by, NEW type,
         NEW with, Load(r, d, by, type, with), type = TypeBy(by)
  PROVE  GrowInv'
<1> DEFINE held == [device |-> d, by |-> by, found |-> LatestOp(d, type),
                    with |-> with]
<1>1. /\ request[r] = None /\ request' = [request EXCEPT ![r] = held]
      /\ log' = log
      /\ overlapped' =
           IF UnderWay(d) = {} THEN overlapped ELSE overlapped \cup {d}
  BY DEF Load
<1>2. /\ request' \in [Request -> {request'[q] : q \in Request}]
      /\ \A q \in Request \ {r} : request'[q] = request[q]
      /\ request'[r] = held
  BY <1>1 DEF IInv, TypeInv
<1>3. /\ held.device = d /\ held.by = by /\ held.found = LatestOp(d, type)
  OBVIOUS
<1>4. IsLatest(log[d], type, LatestOp(d, type)) BY LatestIsLatest DEF IInv
<1> HIDE DEF held
<1>5. overlapped \subseteq overlapped' BY <1>1
<1>6. HoldsLatest'
  <2> SUFFICES ASSUME NEW e \in Device \ overlapped', NEW q \in UnderWay(e)'
               PROVE  /\ \A s \in UnderWay(e)' : s = q
                      /\ IsLatest(log'[e], TypeBy(request'[q].by),
                                  request'[q].found)
    BY DEF HoldsLatest
  <2>1. CASE e = d
    <3>1. UnderWay(d) = {} BY <1>1, <2>1
    <3>2. UnderWay(d)' \subseteq {r}
      BY <1>2, <3>1 DEF UnderWay
    <3> QED BY <1>1, <1>2, <1>3, <1>4, <2>1, <3>2
  <2>2. CASE e # d
    <3>1. UnderWay(e)' = UnderWay(e) /\ r \notin UnderWay(e)
      BY <1>1, <1>2, <1>3, <2>2 DEF UnderWay
    <3>2. q \in Request /\ q # r /\ request'[q] = request[q]
      BY <1>2, <3>1 DEF UnderWay
    <3> QED BY <1>1, <1>5, <3>1, <3>2 DEF GrowInv, HoldsLatest
  <2> QED BY <2>1, <2>2
<1>7. \A e \in Device \ overlapped' : Grows(log'[e])
  BY <1>1, <1>5 DEF GrowInv
<1> QED BY <1>6, <1>7 DEF GrowInv

\* A row that is saved for a request has what the request found.
LEMMA SaveKeepsGrowInv ==
  ASSUME IInv, GrowInv, NEW r \in Request, NEW by, NEW payload, NEW device,
         Save(r, by, payload, device), IInv',
         by \in Lww \cup Orset,
         request[r].found # None =>
           /\ by \in Lww =>
                request[r].found.payload.timestamp <= payload.timestamp
           /\ by \in Orset \ {"create", "remove"} =>
                \A e \in Element : request[r].found.payload[e] \subseteq payload[e]
  PROVE  GrowInv'
<1> DEFINE row == [by |-> by, device |-> device, payload |-> payload,
                   synced |-> IF device = None THEN {} ELSE {device}]
<1>3. PICK d \in Device : d = request[r].device
  BY HeldTyped DEF IInv, Save
<1>1. /\ request[r] # None /\ request[r].by = by
      /\ request' = [request EXCEPT ![r] = None]
      /\ log' = [log EXCEPT ![d] = Append(log[d], row)]
      /\ overlapped' = overlapped
  BY <1>3 DEF Save, SaveOp
<1>2. /\ \A q \in Request \ {r} : request'[q] = request[q]
      /\ request'[r] = None
  BY <1>1 DEF IInv, TypeInv
<1>4. /\ log[d] \in Seq(LwwRow \cup OrsetRow)
      /\ log'[d] = Append(log[d], row)
      /\ \A e \in Device \ {d} : log'[e] = log[e]
  BY <1>1, <1>3 DEF IInv, TypeInv
<1>5. row \in LwwRow \cup OrsetRow
  <2> HIDE DEF row
  <2>1. log'[d] \in Seq(LwwRow \cup OrsetRow) BY <1>3 DEF IInv, TypeInv
  <2>2. Len(log[d]) + 1 \in DOMAIN Append(log[d], row)
        /\ Append(log[d], row)[Len(log[d]) + 1] = row
    BY <1>4
  <2>3. log'[d][Len(log[d]) + 1] = row
        /\ Len(log[d]) + 1 \in DOMAIN log'[d]
    BY <1>4, <2>2
  <2>4. log'[d][Len(log[d]) + 1] \in LwwRow \cup OrsetRow
    BY <2>1, <2>3
  <2> QED BY <2>3, <2>4
<1>6. row.by = by /\ row.payload = payload OBVIOUS
<1>7. r \in UnderWay(d) BY <1>1, <1>3 DEF UnderWay
<1> HIDE DEF row
<1>8. \A e \in Device : UnderWay(e)' \subseteq UnderWay(e) \ {r}
  BY <1>2 DEF UnderWay
<1>9. ASSUME d \notin overlapped PROVE UnderWay(d)' = {} /\ Grows(log'[d])
  <2>1. /\ \A s \in UnderWay(d) : s = r
        /\ IsLatest(log[d], TypeBy(by), request[r].found)
    BY <1>1, <1>3, <1>7, <1>9 DEF GrowInv, HoldsLatest
  <2>2. UnderWay(d)' = {} BY <1>3, <1>8, <2>1
  <2>3. Grows(log[d]) BY <1>3, <1>9 DEF GrowInv
  <2>4. Grows(Append(log[d], row))
    BY <1>4, <1>5, <1>6, <2>1, <2>3, AppendGrows
  <2> QED BY <1>4, <2>2, <2>4
<1>10. HoldsLatest'
  <2> SUFFICES ASSUME NEW e \in Device \ overlapped', NEW q \in UnderWay(e)'
               PROVE  /\ \A s \in UnderWay(e)' : s = q
                      /\ IsLatest(log'[e], TypeBy(request'[q].by),
                                  request'[q].found)
    BY DEF HoldsLatest
  <2>1. e # d BY <1>1, <1>9
  <2>2. q \in UnderWay(e) /\ q # r BY <1>8
  <2>3. q \in Request /\ request'[q] = request[q] /\ log'[e] = log[e]
    BY <1>2, <1>4, <2>1, <2>2 DEF UnderWay
  <2> QED BY <1>1, <1>8, <2>2, <2>3 DEF GrowInv, HoldsLatest
<1>11. \A e \in Device \ overlapped' : Grows(log'[e])
  BY <1>1, <1>4, <1>9 DEF GrowInv
<1> QED BY <1>10, <1>11 DEF GrowInv

LEMMA RegistersKeepGrowInv ==
  ASSUME IInv, IInv', GrowInv, NEW r \in Request,
         CreateLww(r) \/ MergeRegister(r)
  PROVE  GrowInv'
<1>1. TypeBy("set") = Lww /\ TypeBy("merge_lww") = Lww BY DEF TypeBy, Lww
<1>2. ASSUME NEW d \in Device, NEW with,
             \/ Load(r, d, "set", Lww, with)
             \/ Load(r, d, "merge_lww", Lww, with)
      PROVE  GrowInv'
  BY <1>1, <1>2, LoadKeepsGrowInv
<1>3. ASSUME request[r] # None, request[r].found # None,
             request[r].by \in {"set", "merge_lww"}
      PROVE  /\ RegisterOf(request[r].found) = request[r].found.payload
             /\ request[r].found.payload.timestamp \in Nat
  <2>1. request[r].found \in LwwRow
    BY <1>3, HeldTyped DEF IInv, SetRequest, MergeRequest
  <2> QED BY <1>3, <2>1 DEF RegisterOf, LwwRow, Written
<1>4. ASSUME NEW ts \in Time, request[r] # None,
             Save(r, "set",
                  Write(RegisterOf(request[r].found), request[r].with, ts,
                        request[r].device),
                  request[r].device)
      PROVE  GrowInv'
  <2> DEFINE after == Write(RegisterOf(request[r].found), request[r].with, ts,
                            request[r].device)
  <2>1. ts \in Nat BY CrdtAssumption DEF Time
  <2>2. request[r].found # None =>
          request[r].found.payload.timestamp <= after.timestamp
    BY <1>3, <1>4, <2>1 DEF Write, Save
  <2> HIDE DEF after
  <2>3. Save(r, "set", after, request[r].device) BY <1>4 DEF after
  <2>4. "set" \in Lww /\ "set" \notin Orset BY DEF Lww, Orset
  <2> QED BY <2>2, <2>3, <2>4, SaveKeepsGrowInv
<1>5. ASSUME request[r] # None,
             NEW device,
             Save(r, "merge_lww",
                  MergeLww(RegisterOf(request[r].found), request[r].with),
                  device)
      PROVE  GrowInv'
  <2> DEFINE after == MergeLww(RegisterOf(request[r].found), request[r].with)
  <2>1. request[r].with.timestamp \in Nat
    BY <1>5, HeldTyped DEF IInv, MergeRequest, Written, Save
  <2>2. request[r].found # None =>
          request[r].found.payload.timestamp <= after.timestamp
    BY <1>3, <1>5, <2>1 DEF MergeLww, Save
  <2> HIDE DEF after
  <2>3. Save(r, "merge_lww", after, device) BY <1>5 DEF after
  <2>4. "merge_lww" \in Lww /\ "merge_lww" \notin Orset BY DEF Lww, Orset
  <2> QED BY <2>2, <2>3, <2>4, SaveKeepsGrowInv
<1> QED BY <1>2, <1>4, <1>5 DEF CreateLww, MergeRegister

LEMMA SetsKeepGrowInv ==
  ASSUME IInv, IInv', GrowInv, NEW r \in Request,
         AddToOrset(r) \/ RemoveFromOrset(r) \/ MergeSet(r)
  PROVE  GrowInv'
<1>1. \A by \in Orset : TypeBy(by) = Orset /\ by \notin Lww
  BY DEF TypeBy, Lww, Orset
<1>2. ASSUME NEW d \in Device, NEW with,
             \/ Load(r, d, "add", Orset, with)
             \/ Load(r, d, "remove", Orset, with)
             \/ Load(r, d, "merge_orset", Orset, with)
      PROVE  GrowInv'
  <2>1. "add" \in Orset /\ "remove" \in Orset /\ "merge_orset" \in Orset
    BY DEF Orset
  <2> QED BY <1>1, <1>2, <2>1, LoadKeepsGrowInv
<1>3. ASSUME request[r] # None, request[r].found # None,
             request[r].by \in {"add", "remove", "merge_orset"}
      PROVE  /\ SetOf(request[r].found) = request[r].found.payload
             /\ request[r].found.payload \in AnySet
  <2>1. request[r].found \in OrsetRow
    BY <1>3, HeldTyped DEF IInv, OrsetRequest, MergeSetRequest
  <2> QED BY <1>3, <2>1 DEF SetOf, OrsetRow
<1>4. ASSUME NEW by \in Orset, NEW after, NEW device,
             Save(r, by, after, device),
             request[r].found # None /\ by \notin {"create", "remove"} =>
               \A e \in Element :
                 request[r].found.payload[e] \subseteq after[e]
      PROVE  GrowInv'
  BY <1>1, <1>4, SaveKeepsGrowInv
<1>5. ASSUME request[r] # None,
             Save(r, "add", AddTag(SetOf(request[r].found), request[r].with,
                                   tags + 1),
                  DeviceOf(request[r].found))
      PROVE  GrowInv'
  <2> DEFINE after == AddTag(SetOf(request[r].found), request[r].with, tags + 1)
  <2>1. request[r].found # None => \A e \in Element :
          request[r].found.payload[e] \subseteq after[e]
    BY <1>3, <1>5 DEF AddTag, AnySet, Save
  <2>2. "add" \in Orset BY DEF Orset
  <2> HIDE DEF after
  <2>3. Save(r, "add", after, DeviceOf(request[r].found)) BY <1>5 DEF after
  <2> QED BY <1>4, <2>1, <2>2, <2>3
<1>6. ASSUME Save(r, "remove", RemoveTags(SetOf(request[r].found),
                                          request[r].with),
                  DeviceOf(request[r].found))
      PROVE  GrowInv'
  <2>1. "remove" \in Orset BY DEF Orset
  <2> QED BY <1>4, <1>6, <2>1
<1>7. ASSUME request[r] # None,
             Save(r, "merge_orset", MergeOrset(SetOf(request[r].found),
                                               request[r].with),
                  DeviceOf(request[r].found))
      PROVE  GrowInv'
  <2> DEFINE after == MergeOrset(SetOf(request[r].found), request[r].with)
  <2>1. request[r].found # None => \A e \in Element :
          request[r].found.payload[e] \subseteq after[e]
    BY <1>3, <1>7 DEF MergeOrset, AnySet, Save
  <2>2. "merge_orset" \in Orset BY DEF Orset
  <2> HIDE DEF after
  <2>3. Save(r, "merge_orset", after, DeviceOf(request[r].found))
    BY <1>7 DEF after
  <2> QED BY <1>4, <2>1, <2>2, <2>3
<1> QED
  BY <1>2, <1>5, <1>6, <1>7 DEF AddToOrset, RemoveFromOrset, MergeSet

\* A set that is created anew is a request of its own.
LEMMA CreateKeepsGrowInv ==
  ASSUME IInv, GrowInv, NEW d \in Device, CreateOrset(d)
  PROVE  GrowInv'
<1> DEFINE row == [by |-> "create", device |-> None, payload |-> NewSet,
                   synced |-> {}]
<1>1. /\ log' = [log EXCEPT ![d] = Append(log[d], row)]
      /\ request' = request
      /\ overlapped' =
           IF UnderWay(d) = {} THEN overlapped ELSE overlapped \cup {d}
  BY DEF CreateOrset, SaveOp
<1>2. row \in LwwRow \cup OrsetRow /\ row.by = "create" /\ row.by \notin Lww
  BY DEF OrsetRow, NewSet, AnySet, Lww, Orset
<1> HIDE DEF row
<1>3. /\ log[d] \in Seq(LwwRow \cup OrsetRow)
      /\ log'[d] = Append(log[d], row)
      /\ \A e \in Device \ {d} : log'[e] = log[e]
  BY <1>1 DEF IInv, TypeInv
<1>4. \A e \in Device : UnderWay(e)' = UnderWay(e) BY <1>1 DEF UnderWay
<1>5. overlapped \subseteq overlapped' BY <1>1
<1>6. ASSUME d \notin overlapped' PROVE UnderWay(d) = {} /\ Grows(log'[d])
  <2>1. UnderWay(d) = {} BY <1>1, <1>6
  <2>2. Grows(log[d]) BY <1>5, <1>6 DEF GrowInv
  <2> QED BY <1>2, <1>3, <2>1, <2>2, AppendGrows
<1>7. HoldsLatest'
  <2> SUFFICES ASSUME NEW e \in Device \ overlapped', NEW q \in UnderWay(e)'
               PROVE  /\ \A s \in UnderWay(e)' : s = q
                      /\ IsLatest(log'[e], TypeBy(request'[q].by),
                                  request'[q].found)
    BY DEF HoldsLatest
  <2>1. e # d BY <1>4, <1>6
  <2> QED BY <1>1, <1>3, <1>4, <1>5, <2>1 DEF GrowInv, HoldsLatest
<1>8. \A e \in Device \ overlapped' : Grows(log'[e])
  BY <1>3, <1>5, <1>6 DEF GrowInv
<1> QED BY <1>7, <1>8 DEF GrowInv

\* Two logs that differ in synced alone.
LEMMA SameButSynced ==
  ASSUME NEW rows, NEW new, DOMAIN new = DOMAIN rows,
         \A i \in DOMAIN rows : /\ new[i].by = rows[i].by
                                /\ new[i].payload = rows[i].payload,
         \A j \in DOMAIN rows : \A i \in 1..j : i \in DOMAIN rows,
         \A j \in DOMAIN rows : \A i \in 1..j : \A k \in i + 1..j :
           k \in DOMAIN rows
  PROVE  /\ Grows(rows) => Grows(new)
         /\ \A type, found :
              IsLatest(rows, type, found) => IsLatest(new, type, found)
<1>1. ASSUME Grows(rows) PROVE Grows(new)
  <2> SUFFICES ASSUME NEW j \in DOMAIN rows, NEW i \in 1..j
      PROVE  /\ new[i].by \in Lww /\ new[j].by \in Lww =>
                  new[i].payload.timestamp <= new[j].payload.timestamp
             /\ /\ new[i].by \in Orset /\ new[j].by \in Orset
                /\ \A k \in i + 1..j : new[k].by \notin {"create", "remove"}
                => \A e \in Element : new[i].payload[e] \subseteq new[j].payload[e]
    BY DEF Grows
  <2>1. (\A k \in i + 1..j : new[k].by \notin {"create", "remove"}) =>
          \A k \in i + 1..j : rows[k].by \notin {"create", "remove"}
    OBVIOUS
  <2> QED BY <1>1, <2>1 DEF Grows
<1>2. ASSUME NEW type, NEW found, IsLatest(rows, type, found)
      PROVE  IsLatest(new, type, found)
  BY <1>2 DEF IsLatest
<1> QED BY <1>1, <1>2

LEMMA MarkKeepsGrowInv ==
  ASSUME IInv, GrowInv, NEW d \in Device, NEW e \in Device, MarkSynced(d, e)
  PROVE  GrowInv'
<1>1. PICK i \in DOMAIN log[d] :
        log' = IF log[d][i].synced # {} THEN log
               ELSE [log EXCEPT ![d][i].synced = {e}]
  BY DEF MarkSynced
<1>2. UNCHANGED <<request, overlapped>> BY DEF MarkSynced
<1>3. \A f \in Device : DOMAIN log'[f] = DOMAIN log[f]
      /\ \A j \in DOMAIN log[f] : /\ log'[f][j].by = log[f][j].by
                                   /\ log'[f][j].payload = log[f][j].payload
  <2>1. CASE log' = log BY <2>1
  <2>2. CASE log' = [log EXCEPT ![d][i].synced = {e}]
    <3> DEFINE row == [log[d][i] EXCEPT !.synced = {e}]
               rows == [log[d] EXCEPT ![i] = row]
    <3>1. log[d][i] \in LwwRow \cup OrsetRow BY DEF IInv, TypeInv
    <3>2. row.by = log[d][i].by /\ row.payload = log[d][i].payload
      BY <3>1 DEF LwwRow, OrsetRow
    <3>3. log' = [log EXCEPT ![d] = rows] BY <2>2
    <3> HIDE DEF row
    <3>4. DOMAIN rows = DOMAIN log[d]
          /\ \A j \in DOMAIN rows : /\ rows[j].by = log[d][j].by
                                     /\ rows[j].payload = log[d][j].payload
      BY <3>2
    <3> HIDE DEF rows
    <3> QED BY <3>3, <3>4 DEF IInv, TypeInv
  <2> QED BY <1>1, <2>1, <2>2
<1>4. \A f \in Device : \A j \in DOMAIN log[f] : \A k \in 1..j :
        k \in DOMAIN log[f]
  <2>1. \A f \in Device : Len(log[f]) \in Nat /\ DOMAIN log[f] = 1..Len(log[f])
    BY DEF IInv, TypeInv
  <2> QED BY <2>1
<1>5. \A f \in Device : \A j \in DOMAIN log[f] : \A m \in 1..j :
        \A k \in m + 1..j : k \in DOMAIN log[f]
  <2>1. \A f \in Device : Len(log[f]) \in Nat /\ DOMAIN log[f] = 1..Len(log[f])
    BY DEF IInv, TypeInv
  <2> QED BY <2>1
<1>6. \A f \in Device :
        /\ Grows(log[f]) => Grows(log'[f])
        /\ \A type, found :
             IsLatest(log[f], type, found) => IsLatest(log'[f], type, found)
  BY <1>3, <1>4, <1>5, SameButSynced
<1>7. \A f \in Device : UnderWay(f)' = UnderWay(f) BY <1>2 DEF UnderWay
<1> QED BY <1>2, <1>6, <1>7 DEF GrowInv, HoldsLatest

LEMMA InitGrowInv == ASSUME Init PROVE GrowInv
<1>1. \A d \in Device : UnderWay(d) = {} /\ log[d] = <<>>
  BY DEF Init, UnderWay
<1>2. Grows(<<>>) BY DEF Grows
<1> QED BY <1>1, <1>2 DEF GrowInv, HoldsLatest

LEMMA NextGrowInv ==
  ASSUME IInv, IInv', GrowInv, [Next]_vars
  PROVE  GrowInv'
<1>1. CASE UNCHANGED vars
  <2>1. \A d \in Device : UnderWay(d)' = UnderWay(d)
    BY <1>1 DEF vars, UnderWay
  <2> QED BY <1>1, <2>1 DEF vars, GrowInv, HoldsLatest
<1> QED
  BY <1>1, RegistersKeepGrowInv, SetsKeepGrowInv, CreateKeepsGrowInv,
     MarkKeepsGrowInv DEF Next

\* On a device whose requests never overlapped, no operation of CRDTService
\* takes its register back in time, or loses an element but by a removal: what
\* a request loads in one session is what there is still when it saves in the
\* other.
THEOREM StatesAlwaysGrow == Spec => []StatesGrow
<1>1. ASSUME GrowInv PROVE StatesGrow
  <2>1. Lww # Orset BY DEF Lww, Orset
  <2> QED BY <1>1, <2>1 DEF GrowInv, StatesGrow, Grows, Covers
<1> QED BY <1>1, InitIInv, NextIInv, InitGrowInv, NextGrowInv, PTL DEF Spec
=============================================================================
