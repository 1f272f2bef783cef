-------------------------- MODULE Keychain_proofs --------------------------
(***************************************************************************)
(* Theorems about Keychain, for any number of requests, names, values and  *)
(* faults: the type of its state, that ciphertexts match the keys their    *)
(* entries name, that without faults no key of a value is unknown and      *)
(* serial use keeps one active key, and that the keychain implements       *)
(* Vault.                                                                  *)
(***************************************************************************)
EXTENDS Keychain, FiniteSetTheorems, WellFoundedInduction, SequenceTheorems, TLAPS

-----------------------------------------------------------------------------
(* The type invariant. *)

Still == [at : {"waiting", "ended"}]
Keyless == [at : {"keyless"}, name : Name, value : Value]
           \cup [at : {"keyless"}, name : {None}, value : {None}]
Writing == [at : {"write"}, name : Name, value : Value, key : Key]
Rotating == [at : {"rotate"}, name : {None}, value : {None}, key : Key]
Got == [at : {"got"}, entry : Entry]
Committing == [at : {"commit"}, old : Key, new : Key]
RequestState == Still \cup Keyless \cup Writing \cup Rotating \cup Got \cup Committing

\* Every variable has its type: what the requests hold depends on where they
\* are (the locals of keychain.py's and key_rotation.py's methods).
TypeOK ==
  /\ env \in BOOLEAN /\ readable \in BOOLEAN
  /\ masterFile \in Master /\ master \in Master \cup {None}
  /\ keys \in Seq(Row) /\ made \in Nat
  /\ file \in [Name -> Entry \cup {None}]
  /\ request \in [Request -> RequestState]
  /\ faults \in 0..MaxFaults /\ overlapped \in BOOLEAN

LEMMA MasterKeyType ==
  ASSUME TypeOK
  PROVE  MasterKey \in Master
BY KeychainAssumption DEF TypeOK, MasterKey, Master, EnvKey

LEMMA GetMasterKeyType ==
  ASSUME TypeOK, GetMasterKey
  PROVE  /\ env' \in BOOLEAN /\ readable' \in BOOLEAN
         /\ masterFile' \in Master /\ master' \in Master
BY MasterKeyType DEF TypeOK, GetMasterKey

\* The newest active row is a row.
LEMMA ActiveRowIsARow ==
  ASSUME TypeOK, ActiveRows # {}
  PROVE  /\ ActiveRow \in ActiveRows
         /\ ActiveRow \in DOMAIN keys /\ keys[ActiveRow] \in Row
<1>1. ActiveRows \subseteq DOMAIN keys /\ DOMAIN keys = 1..Len(keys) /\ Len(keys) \in Nat
  BY DEF TypeOK, ActiveRows
<1> DEFINE Behind == {Len(keys) - i : i \in ActiveRows}
<1>2. PICK n \in Behind : \A m \in Behind : n <= m
  <2>1. Behind \in SUBSET Nat /\ Behind # {}
    BY <1>1
  <2> DEFINE Less == {ss \in Nat \X Nat : ss[1] < ss[2]}
  <2>2. IsWellFoundedOn(Less, Nat)
    BY NatLessThanWellFounded DEF OpToRel
  <2>3. PICK n \in Behind : \A m \in Behind : <<m, n>> \notin Less
    <3> HIDE DEF Behind, Less
    <3> QED BY <2>1, <2>2, WFMin
  <2>4. ASSUME NEW m \in Behind PROVE n <= m
    <3> HIDE DEF Behind
    <3>1. n \in Nat /\ m \in Nat /\ ~ (m < n)
      BY <2>1, <2>3
    <3> QED BY <3>1
  <2> QED BY <2>3, <2>4
<1>3. PICK i \in ActiveRows : n = Len(keys) - i
  OBVIOUS
<1>4. \A j \in ActiveRows : j <= i
  <2> TAKE j \in ActiveRows
  <2>1. Len(keys) - i <= Len(keys) - j
    BY <1>2, <1>3
  <2> QED BY <2>1, <1>1
<1>5. ActiveRow \in ActiveRows
  BY <1>3, <1>4 DEF ActiveRow
<1> QED BY <1>1, <1>5 DEF TypeOK

-----------------------------------------------------------------------------
(* Each step keeps the types. *)

LEMMA InitType ==
  ASSUME Init PROVE TypeOK
<1>1. request \in [Request -> RequestState]
  BY DEF Init, RequestState, Still
<1>2. keys \in Seq(Row)
  BY DEF Init
<1>3. file \in [Name -> Entry \cup {None}]
  BY DEF Init
<1>4. faults \in 0..MaxFaults
  BY KeychainAssumption DEF Init
<1> QED BY <1>1, <1>2, <1>3, <1>4 DEF Init, TypeOK, Master

LEMMA ReadActiveKeyType ==
  ASSUME TypeOK, NEW r \in Request,
         NEW next \in {"write", "rotate"},
         NEW n, NEW v, next = "write" => n \in Name /\ v \in Value,
         next = "rotate" => n = None /\ v = None,
         ReadActiveKey(r, next, n, v)
  PROVE  TypeOK'
<1> DEFINE held == IF ActiveRows = {}
                   THEN [at |-> "keyless", name |-> n, value |-> v]
                   ELSE [at |-> next, name |-> n, value |-> v,
                         key |-> keys[ActiveRow].id]
<1>1. held \in RequestState
  <2>1. CASE ActiveRows = {}
    BY <2>1 DEF RequestState, Keyless
  <2>2. CASE ActiveRows # {}
    <3>1. keys[ActiveRow].id \in Key
      BY <2>2, ActiveRowIsARow DEF Row
    <3> QED BY <2>2, <3>1 DEF RequestState, Writing, Rotating
  <2> QED BY <2>1, <2>2
<1>2. request' = [request EXCEPT ![r] = held]
  BY DEF ReadActiveKey, Goes
<1> HIDE DEF held
<1> QED BY <1>1, <1>2 DEF TypeOK, ReadActiveKey, Begins, masterVars, KeepRest

\* What a request holds at each place where it goes on from.
LEMMA HeldType ==
  ASSUME TypeOK, NEW r \in Request
  PROVE  /\ request[r].at = "keyless" => request[r] \in Keyless
         /\ request[r].at = "write" => request[r] \in Writing
         /\ request[r].at = "rotate" => request[r] \in Rotating
         /\ request[r].at = "got" => request[r] \in Got
         /\ request[r].at = "commit" => request[r] \in Committing
BY DEF TypeOK, RequestState, Still, Keyless, Writing, Rotating, Got, Committing

LEMMA EndedType == Ended \in RequestState
BY DEF Ended, RequestState, Still

LEMMA CreateKeyType ==
  ASSUME TypeOK, NEW r \in Request, CreateKey(r)
  PROVE  TypeOK'
<1> DEFINE held == IF request[r].name = None THEN Ended
                   ELSE [at |-> "write", name |-> request[r].name,
                         value |-> request[r].value, key |-> made + 1]
<1>1. held \in RequestState
  <2>1. request[r] \in Keyless
    BY HeldType DEF CreateKey, Continues
  <2>2. made + 1 \in Key
    BY DEF TypeOK, Key
  <2>3. CASE request[r].name = None
    BY <2>3, EndedType
  <2>4. CASE request[r].name # None
    <3>1. request[r].name \in Name /\ request[r].value \in Value
      BY <2>1, <2>4 DEF Keyless
    <3> QED BY <2>2, <2>4, <3>1 DEF RequestState, Writing
  <2> QED BY <2>3, <2>4
<1>2. request' = [request EXCEPT ![r] = held]
  BY DEF CreateKey, Goes
<1>3. keys' \in Seq(Row)
  <2>1. NewRow(made + 1, MasterKey) \in Row
    BY MasterKeyType DEF TypeOK, NewRow, Row, Key
  <2> QED BY <2>1, AppendProperties DEF TypeOK, CreateKey
<1>4. /\ env' \in BOOLEAN /\ readable' \in BOOLEAN
      /\ masterFile' \in Master /\ master' \in Master
  BY GetMasterKeyType DEF CreateKey
<1> HIDE DEF held
<1> QED BY <1>1, <1>2, <1>3, <1>4 DEF TypeOK, CreateKey, Continues

LEMMA StoreWritesType ==
  ASSUME TypeOK, NEW r \in Request, StoreWrites(r)
  PROVE  TypeOK'
<1>1. request[r] \in Writing
  BY HeldType DEF StoreWrites, Continues
<1>2. [under |-> request[r].key, key_id |-> request[r].key,
       value |-> request[r].value] \in Entry
  BY <1>1 DEF Writing, Entry
<1>3. file' \in [Name -> Entry \cup {None}]
  BY <1>1, <1>2 DEF TypeOK, StoreWrites
<1>4. request' \in [Request -> RequestState]
  BY EndedType DEF TypeOK, StoreWrites, Goes
<1>5. /\ env' \in BOOLEAN /\ readable' \in BOOLEAN
      /\ masterFile' \in Master /\ master' \in Master
  BY GetMasterKeyType DEF StoreWrites
<1> QED BY <1>3, <1>4, <1>5 DEF TypeOK, StoreWrites, Continues

\* An entry that a rotation encrypts anew is an entry.
LEMMA ReencryptedType ==
  ASSUME TypeOK, NEW old, NEW new \in Key
  PROVE  Reencrypted(old, new) \in [Name -> Entry \cup {None}]
<1> SUFFICES ASSUME NEW n \in Name, file[n] # None
             PROVE  [file[n] EXCEPT !.under = new, !.key_id = new] \in Entry
  BY DEF Reencrypted, TypeOK
<1> QED BY DEF TypeOK, Entry

LEMMA RotateFileType ==
  ASSUME TypeOK, NEW r \in Request, RotateFile(r)
  PROVE  TypeOK'
<1>1. request[r].key \in Key /\ made + 1 \in Key
  BY HeldType DEF RotateFile, Continues, Rotating, TypeOK, Key
<1>2. [at |-> "commit", old |-> request[r].key, new |-> made + 1] \in RequestState
  BY <1>1 DEF RequestState, Committing
<1>3. request' \in [Request -> RequestState]
  BY <1>2, EndedType DEF TypeOK, RotateFile, Goes
<1>4. file' \in [Name -> Entry \cup {None}] /\ made' \in Nat
  BY <1>1, ReencryptedType DEF TypeOK, RotateFile, Key
<1>5. /\ env' \in BOOLEAN /\ readable' \in BOOLEAN
      /\ masterFile' \in Master /\ master' \in Master
  BY GetMasterKeyType DEF RotateFile
<1> QED BY <1>3, <1>4, <1>5 DEF TypeOK, RotateFile, Continues

\* Rotating keeps the rows, and adds the new one, once there is a master key.
LEMMA RotatedType ==
  ASSUME TypeOK, master # None, NEW old, NEW new \in Key
  PROVE  Rotated(old, new) \in Seq(Row)
<1> DEFINE kept == [i \in DOMAIN keys |->
                      IF keys[i].id = old THEN [keys[i] EXCEPT !.active = FALSE]
                      ELSE keys[i]]
<1>1. kept \in Seq(Row)
  <2>1. DOMAIN keys = 1..Len(keys) /\ Len(keys) \in Nat
    BY DEF TypeOK
  <2>2. ASSUME NEW i \in DOMAIN keys PROVE kept[i] \in Row
    <3>1. keys[i] \in Row
      BY DEF TypeOK
    <3>2. [keys[i] EXCEPT !.active = FALSE] \in Row
      BY <3>1 DEF Row
    <3> QED BY <3>1, <3>2
  <2> HIDE DEF kept
  <2>3. kept = [i \in 1..Len(keys) |-> kept[i]]
    BY <2>1 DEF kept
  <2>4. kept \in [1..Len(keys) -> Row]
    BY <2>1, <2>2, <2>3
  <2> QED BY <2>1, <2>4, SeqDef
<1>2. NewRow(new, master) \in Row
  BY DEF TypeOK, NewRow, Row
<1> HIDE DEF kept
<1>3. Append(kept, NewRow(new, master)) \in Seq(Row)
  BY <1>1, <1>2, AppendProperties
<1> QED BY <1>3 DEF Rotated, kept

\* A rotation that is about to commit has made sure of the master key.
CommitHasMaster ==
  \A r \in Request : request[r].at = "commit" => master # None

\* _get_master_key leaves a master key, and leaves one that is there alone.
LEMMA GetMasterKeyKeeps ==
  ASSUME TypeOK, GetMasterKey
  PROVE  master' # None /\ (master # None => master' = master)
BY MasterKeyType, KeychainAssumption DEF GetMasterKey, MasterKey, Master

\* After a fault one less is to come.
LEMMA FaultSpends ==
  ASSUME TypeOK, Fault
  PROVE  faults' \in 0..MaxFaults /\ faults' # MaxFaults
BY KeychainAssumption DEF TypeOK, Fault

LEMMA NextType ==
  ASSUME TypeOK, CommitHasMaster, [Next]_vars
  PROVE  TypeOK'
<1>1. ASSUME NEW r \in Request, NEW n \in Name, NEW v \in Value,
             StoreBegins(r, n, v)
      PROVE  TypeOK'
  BY <1>1, ReadActiveKeyType DEF StoreBegins
<1>2. ASSUME NEW r \in Request, NEW n \in Name, Delete(r, n)
      PROVE  TypeOK'
  BY <1>2, EndedType DEF TypeOK, Delete, Begins, Goes, masterVars
<1>3. ASSUME NEW r \in Request, NEW n \in Name, GetReads(r, n)
      PROVE  TypeOK'
  <2>1. file[n] # None => [at |-> "got", entry |-> file[n]] \in RequestState
    BY DEF TypeOK, RequestState, Got
  <2>2. request' \in [Request -> RequestState]
    BY <1>3, <2>1, EndedType DEF TypeOK, GetReads, Goes
  <2> QED BY <1>3, <2>2 DEF TypeOK, GetReads, Begins, masterVars, KeepRest
<1>4. ASSUME NEW r \in Request, CreateKey(r)
      PROVE  TypeOK'
  BY <1>4, CreateKeyType
<1>5. ASSUME NEW r \in Request, StoreWrites(r)
      PROVE  TypeOK'
  BY <1>5, StoreWritesType
<1>6. ASSUME NEW r \in Request, GetAnswers(r)
      PROVE  TypeOK'
  <2>1. GetMasterKey \/ UNCHANGED masterVars
    BY <1>6 DEF GetAnswers
  <2>2. /\ env' \in BOOLEAN /\ readable' \in BOOLEAN
        /\ masterFile' \in Master /\ master' \in Master \cup {None}
    BY <2>1, GetMasterKeyType DEF TypeOK, masterVars
  <2>3. request' \in [Request -> RequestState]
    BY <1>6, EndedType DEF TypeOK, GetAnswers, Goes
  <2> QED BY <1>6, <2>2, <2>3 DEF TypeOK, GetAnswers, Continues, KeepRest
<1>7. ASSUME NEW r \in Request, RotateBegins(r)
      PROVE  TypeOK'
  <2>1. CASE ReadActiveKey(r, "rotate", None, None)
    BY <2>1, ReadActiveKeyType
  <2>2. CASE Begins(r) /\ Goes(r, Ended) /\ UNCHANGED <<masterVars, keys>> /\ KeepRest
    BY <2>2, EndedType DEF TypeOK, Begins, Goes, masterVars, KeepRest
  <2> QED BY <1>7, <2>1, <2>2 DEF RotateBegins
<1>8. ASSUME NEW r \in Request, RotateFile(r)
      PROVE  TypeOK'
  BY <1>8, RotateFileType
<1>9. ASSUME NEW r \in Request, RotateCommits(r)
      PROVE  TypeOK'
  <2>1. master # None /\ request[r].new \in Key
    BY <1>9, HeldType DEF CommitHasMaster, RotateCommits, Continues, Committing
  <2>2. keys' \in Seq(Row)
    BY <1>9, <2>1, RotatedType DEF RotateCommits
  <2>3. request' \in [Request -> RequestState]
    BY <1>9, EndedType DEF TypeOK, RotateCommits, Goes
  <2> QED BY <1>9, <2>2, <2>3 DEF TypeOK, RotateCommits, Continues, masterVars, KeepRest
<1>10. ASSUME NEW r \in Request, CommitFails(r)
       PROVE  TypeOK'
  BY <1>10, EndedType, FaultSpends DEF TypeOK, CommitFails, Goes, masterVars
<1>11. ASSUME MasterSpoiled
       PROVE  TypeOK'
  BY <1>11, FaultSpends DEF TypeOK, MasterSpoiled
<1>12. ASSUME Crash
       PROVE  TypeOK'
  <2>1. request' \in [Request -> RequestState]
    BY <1>12, EndedType DEF TypeOK, Crash
  <2>2. file' \in [Name -> Entry \cup {None}]
    BY <1>12 DEF TypeOK, Crash
  <2> QED BY <1>12, <2>1, <2>2, FaultSpends DEF TypeOK, Crash
<1>13. ASSUME UNCHANGED vars
       PROVE  TypeOK'
  BY <1>13 DEF TypeOK, vars, masterVars
<1> QED BY <1>1, <1>2, <1>3, <1>4, <1>5, <1>6, <1>7, <1>8, <1>9, <1>10, <1>11,
           <1>12, <1>13 DEF Next

-----------------------------------------------------------------------------
(* The inductive invariant. *)

\* The master key that will be found as long as nothing happens to its file.
Kept == IF env THEN EnvKey ELSE masterFile
Found == env \/ masterFile # 0

\* Without faults there is one master key, and the rows are encrypted under it.
OneMaster ==
  /\ readable
  /\ master # None => Found /\ master = Kept
  /\ \A i \in DOMAIN keys : Found /\ keys[i].wrapped = Kept

RowIds == {keys[i].id : i \in DOMAIN keys}

\* The key a store or a rotation has read is a row's.
HeldKeysAreRows ==
  \A r \in Request :
    request[r].at \in {"write", "rotate"} => request[r].key \in RowIds

\* The key of every value is a row's, or a rotation's that is to commit it.
EntriesHaveKeys ==
  \A n \in Name :
    file[n] # None => file[n].key_id \in RowIds \/ file[n].key_id \in Uncommitted

IInv ==
  /\ TypeOK /\ CommitHasMaster /\ CiphertextsMatch
  /\ faults = MaxFaults => OneMaster /\ HeldKeysAreRows /\ EntriesHaveKeys

\* A request goes on alone.
LEMMA OthersStay ==
  ASSUME TypeOK, NEW r \in Request, NEW next, Goes(r, next)
  PROVE  /\ request'[r] = next
         /\ \A s \in Request \ {r} : request'[s] = request[s]
BY DEF TypeOK, Goes

LEMMA NextCommitHasMaster ==
  ASSUME TypeOK, CommitHasMaster, [Next]_vars
  PROVE  CommitHasMaster'
<1> SUFFICES ASSUME NEW s \in Request, request'[s].at = "commit"
             PROVE  master' # None
  BY DEF CommitHasMaster
<1>1. ASSUME GetMasterKey
      PROVE  master' # None
  BY <1>1, GetMasterKeyKeeps
<1>2. ASSUME NEW r \in Request, NEW next \in {"write", "rotate"}, NEW n, NEW v,
             ReadActiveKey(r, next, n, v)
      PROVE  master' # None
  <2>1. s # r
    BY <1>2 DEF ReadActiveKey, Goes, TypeOK
  <2> QED BY <1>2, <2>1, OthersStay
          DEF ReadActiveKey, CommitHasMaster, masterVars, Goes, TypeOK
<1>3. ASSUME NEW r \in Request, NEW n \in Name, Delete(r, n) \/ GetReads(r, n)
      PROVE  master' # None
  BY <1>3 DEF Delete, GetReads, Goes, Ended, TypeOK, CommitHasMaster, masterVars
<1>4. ASSUME NEW r \in Request, CreateKey(r) \/ StoreWrites(r) \/ RotateFile(r)
      PROVE  master' # None
  BY <1>1, <1>4 DEF CreateKey, StoreWrites, RotateFile
<1>5. ASSUME NEW r \in Request, GetAnswers(r)
      PROVE  master' # None
  <2>1. CASE GetMasterKey
    BY <1>1, <2>1
  <2>2. CASE UNCHANGED masterVars
    BY <1>5, <2>2 DEF GetAnswers, Goes, Ended, TypeOK, CommitHasMaster, masterVars
  <2> QED BY <1>5, <2>1, <2>2 DEF GetAnswers
<1>6. ASSUME NEW r \in Request, RotateBegins(r)
      PROVE  master' # None
  <2>1. CASE Goes(r, Ended) /\ UNCHANGED masterVars
    BY <2>1 DEF Goes, Ended, TypeOK, CommitHasMaster, masterVars
  <2> QED BY <1>2, <1>6, <2>1 DEF RotateBegins
<1>7. ASSUME NEW r \in Request, RotateCommits(r) \/ CommitFails(r)
      PROVE  master' # None
  BY <1>7 DEF RotateCommits, CommitFails, Goes, Ended, TypeOK, CommitHasMaster,
              masterVars
<1>8. ASSUME MasterSpoiled
      PROVE  master' # None
  BY <1>8 DEF MasterSpoiled, CommitHasMaster
<1>9. ASSUME Crash
      PROVE  master' # None
  <2>1. request'[s].at # "commit"
    BY <1>9 DEF Crash, Running, Ended
  <2> QED BY <2>1
<1>10. ASSUME UNCHANGED vars
       PROVE  master' # None
  BY <1>10 DEF vars, masterVars, CommitHasMaster
<1> QED BY <1>2, <1>3, <1>4, <1>5, <1>6, <1>7, <1>8, <1>9, <1>10
        DEF Next, StoreBegins

FileMatches == \A n \in Name : file[n] # None => file[n].under = file[n].key_id
GotMatches ==
  \A r \in Request :
    request[r].at = "got" => request[r].entry.under = request[r].entry.key_id

\* A request that goes on without an entry leaves what the others have read.
LEMMA GotStays ==
  ASSUME TypeOK, CiphertextsMatch, NEW r \in Request, NEW next, next.at # "got",
         Goes(r, next)
  PROVE  GotMatches'
BY OthersStay DEF GotMatches, CiphertextsMatch

LEMMA NextMatches ==
  ASSUME TypeOK, CiphertextsMatch, [Next]_vars
  PROVE  CiphertextsMatch'
<1>1. SUFFICES FileMatches' /\ GotMatches'
  BY DEF CiphertextsMatch, FileMatches, GotMatches
<1>2. FileMatches /\ Ended.at # "got"
  BY DEF CiphertextsMatch, FileMatches, Ended
<1>3. ASSUME NEW r \in Request, NEW next \in {"write", "rotate"}, NEW n, NEW v,
             ReadActiveKey(r, next, n, v)
      PROVE  FileMatches' /\ GotMatches'
  <2>1. GotMatches'
    BY <1>3, GotStays DEF ReadActiveKey
  <2> QED BY <1>2, <1>3, <2>1 DEF ReadActiveKey, KeepRest, FileMatches
<1>4. ASSUME NEW r \in Request, NEW n \in Name, Delete(r, n)
      PROVE  FileMatches' /\ GotMatches'
  <2>1. FileMatches'
    BY <1>2, <1>4 DEF Delete, FileMatches, TypeOK
  <2> QED BY <1>2, <1>4, <2>1, GotStays DEF Delete
<1>5. ASSUME NEW r \in Request, NEW n \in Name, GetReads(r, n)
      PROVE  FileMatches' /\ GotMatches'
  <2>1. FileMatches'
    BY <1>2, <1>5 DEF GetReads, KeepRest, FileMatches
  <2>2. CASE file[n] = None
    BY <1>2, <1>5, <2>1, <2>2, GotStays DEF GetReads
  <2>3. CASE file[n] # None
    <3>1. Goes(r, [at |-> "got", entry |-> file[n]])
      BY <1>5, <2>3 DEF GetReads
    <3>2. file[n].under = file[n].key_id
      BY <1>2, <2>3 DEF FileMatches
    <3>3. GotMatches'
      BY <3>1, <3>2, OthersStay DEF GotMatches, CiphertextsMatch
    <3> QED BY <2>1, <3>3
  <2> QED BY <2>2, <2>3
<1>6. ASSUME NEW r \in Request, CreateKey(r)
      PROVE  FileMatches' /\ GotMatches'
  <2>1. GotMatches'
    BY <1>2, <1>6, GotStays DEF CreateKey
  <2> QED BY <1>2, <1>6, <2>1 DEF CreateKey, FileMatches
<1>7. ASSUME NEW r \in Request, StoreWrites(r)
      PROVE  FileMatches' /\ GotMatches'
  <2>1. FileMatches'
    BY <1>2, <1>7 DEF StoreWrites, FileMatches, TypeOK
  <2> QED BY <1>2, <1>7, <2>1, GotStays DEF StoreWrites
<1>8. ASSUME NEW r \in Request, GetAnswers(r)
      PROVE  FileMatches' /\ GotMatches'
  <2>1. GotMatches'
    BY <1>2, <1>8, GotStays DEF GetAnswers
  <2> QED BY <1>2, <1>8, <2>1 DEF GetAnswers, KeepRest, FileMatches
<1>9. ASSUME NEW r \in Request, RotateBegins(r)
      PROVE  FileMatches' /\ GotMatches'
  <2>1. CASE Goes(r, Ended) /\ KeepRest
    <3>1. GotMatches'
      BY <1>2, <2>1, GotStays
    <3> QED BY <1>2, <2>1, <3>1 DEF KeepRest, FileMatches
  <2> QED BY <1>3, <1>9, <2>1 DEF RotateBegins
<1>10. ASSUME NEW r \in Request, RotateFile(r)
       PROVE  FileMatches' /\ GotMatches'
  <2> DEFINE next == [at |-> "commit", old |-> request[r].key, new |-> made + 1]
  <2>1. Goes(r, Ended) \/ Goes(r, next)
    BY <1>10 DEF RotateFile
  <2>2. GotMatches'
    BY <1>2, <2>1, GotStays
  <2>3. file' = file \/ file' = Reencrypted(request[r].key, made + 1)
    BY <1>10 DEF RotateFile
  <2>4. ASSUME NEW n \in Name, file'[n] # None
        PROVE  file'[n].under = file'[n].key_id
    <3>1. file[n] \in Entry \cup {None}
      BY DEF TypeOK
    <3>2. CASE file'[n] = file[n]
      BY <1>2, <2>4, <3>2 DEF FileMatches
    <3>3. CASE file[n] # None
               /\ file'[n] = [file[n] EXCEPT !.under = made + 1, !.key_id = made + 1]
      BY <3>1, <3>3 DEF Entry
    <3> QED BY <2>3, <3>2, <3>3 DEF Reencrypted
  <2> QED BY <2>2, <2>4 DEF FileMatches
<1>11. ASSUME NEW r \in Request, RotateCommits(r)
       PROVE  FileMatches' /\ GotMatches'
  <2>1. GotMatches'
    BY <1>2, <1>11, GotStays DEF RotateCommits
  <2> QED BY <1>2, <1>11, <2>1 DEF RotateCommits, KeepRest, FileMatches
<1>12. ASSUME NEW r \in Request, CommitFails(r)
       PROVE  FileMatches' /\ GotMatches'
  <2>1. GotMatches'
    BY <1>2, <1>12, GotStays DEF CommitFails
  <2> QED BY <1>2, <1>12, <2>1 DEF CommitFails, FileMatches
<1>13. CASE MasterSpoiled \/ UNCHANGED vars
  BY <1>2, <1>13 DEF MasterSpoiled, vars, FileMatches, GotMatches, CiphertextsMatch
<1>14. CASE Crash
  <2>1. FileMatches'
    BY <1>2, <1>14 DEF Crash, FileMatches
  <2>2. ASSUME NEW s \in Request PROVE request'[s].at # "got"
    BY <1>14 DEF Crash, Running, Ended
  <2> QED BY <2>1, <2>2 DEF GotMatches
<1> QED BY <1>3, <1>4, <1>5, <1>6, <1>7, <1>8, <1>9, <1>10, <1>11, <1>12,
           <1>13, <1>14 DEF Next, StoreBegins

-----------------------------------------------------------------------------
(* Without faults: one master key, and no key unknown. *)

Faultless == OneMaster /\ HeldKeysAreRows /\ EntriesHaveKeys

\* _get_master_key settles the master key, and keeps one that was found.
LEMMA GetMasterKeySettles ==
  ASSUME TypeOK, OneMaster, GetMasterKey
  PROVE  /\ readable' /\ master' = MasterKey /\ master' # None
         /\ Found' /\ master' = Kept'
         /\ Found => Kept' = Kept
<1>1. readable' /\ master' = MasterKey /\ master' # None /\ env' = env
  BY GetMasterKeyKeeps DEF OneMaster, GetMasterKey
<1>2. MasterKey = IF Found THEN Kept ELSE masterFile + 1
  BY DEF OneMaster, MasterKey, Found, Kept
<1>3. masterFile' = IF MasterKey = EnvKey THEN masterFile ELSE MasterKey
  BY DEF GetMasterKey
<1>4. masterFile \in Nat /\ EnvKey = 0
  BY DEF TypeOK, Master, EnvKey
<1>5. Found' /\ master' = Kept' /\ (Found => Kept' = Kept)
  <2>1. CASE env
    BY <1>1, <1>2, <2>1 DEF Found, Kept
  <2>2. CASE ~ env /\ masterFile # 0
    <3>1. MasterKey = masterFile /\ masterFile' = masterFile
      BY <1>2, <1>3, <1>4, <2>2 DEF Found, Kept
    <3> QED BY <1>1, <2>2, <3>1 DEF Found, Kept
  <2>3. CASE ~ env /\ masterFile = 0
    <3>1. MasterKey = 1 /\ masterFile' = 1
      BY <1>2, <1>3, <1>4, <2>3 DEF Found, Kept
    <3> QED BY <1>1, <2>3, <3>1 DEF Found, Kept
  <2> QED BY <2>1, <2>2, <2>3
<1> QED BY <1>1, <1>5

\* So where only it happens to the keys, there is still one master key.
LEMMA OneMasterStays ==
  ASSUME TypeOK, OneMaster, GetMasterKey \/ UNCHANGED masterVars, keys' = keys
  PROVE  OneMaster'
<1>1. CASE GetMasterKey
  BY <1>1, GetMasterKeySettles DEF OneMaster
<1>2. CASE UNCHANGED masterVars
  BY <1>2 DEF OneMaster, masterVars, Found, Kept
<1> QED BY <1>1, <1>2

\* Rows are never lost.
RowsStay == RowIds \subseteq RowIds'

LEMMA SameRowsStay ==
  ASSUME keys' = keys PROVE RowsStay
BY DEF RowsStay, RowIds

\* A new row is one of the table, which keeps the others.
LEMMA AppendKeepsRows ==
  ASSUME NEW old \in Seq(Row), NEW row \in Row
  PROVE  /\ \A i \in DOMAIN old : /\ i \in DOMAIN Append(old, row)
                                  /\ Append(old, row)[i] = old[i]
         /\ \A i \in DOMAIN Append(old, row) :
              i \in DOMAIN old \/ Append(old, row)[i] = row
         /\ \E i \in DOMAIN Append(old, row) : Append(old, row)[i] = row
BY AppendProperties

LEMMA CreateKeyRows ==
  ASSUME TypeOK, NEW r \in Request, CreateKey(r)
  PROVE  /\ RowsStay /\ made + 1 \in RowIds'
         /\ OneMaster => OneMaster'
<1> DEFINE row == NewRow(made + 1, MasterKey)
<1>1. row \in Row /\ row.id = made + 1 /\ row.wrapped = MasterKey
  BY MasterKeyType DEF TypeOK, NewRow, Row, Key
<1>2. keys \in Seq(Row) /\ keys' = Append(keys, row) /\ GetMasterKey
  BY DEF TypeOK, CreateKey
<1> HIDE DEF row
<1>3. /\ \A i \in DOMAIN keys : i \in DOMAIN keys' /\ keys'[i] = keys[i]
      /\ \A i \in DOMAIN keys' : i \in DOMAIN keys \/ keys'[i] = row
      /\ \E i \in DOMAIN keys' : keys'[i] = row
  BY <1>1, <1>2, AppendKeepsRows
<1>4. RowsStay /\ made + 1 \in RowIds'
  BY <1>1, <1>3 DEF RowsStay, RowIds
<1>5. ASSUME OneMaster PROVE OneMaster'
  <2>1. /\ readable' /\ master' # None /\ Found' /\ master' = Kept'
        /\ row.wrapped = Kept' /\ (Found => Kept' = Kept)
    BY <1>1, <1>2, <1>5, GetMasterKeySettles
  <2>2. ASSUME NEW i \in DOMAIN keys' PROVE keys'[i].wrapped = Kept'
    BY <1>3, <1>5, <2>1 DEF OneMaster
  <2> QED BY <2>1, <2>2 DEF OneMaster
<1> QED BY <1>4, <1>5

\* The rows as a rotation leaves them: those of the old key are inactive.
Deactivated(old) ==
  [i \in DOMAIN keys |->
     IF keys[i].id = old THEN [keys[i] EXCEPT !.active = FALSE] ELSE keys[i]]

LEMMA DeactivatedRows ==
  ASSUME TypeOK, NEW old
  PROVE  /\ Deactivated(old) \in Seq(Row) /\ DOMAIN Deactivated(old) = DOMAIN keys
         /\ \A i \in DOMAIN keys :
              /\ Deactivated(old)[i].id = keys[i].id
              /\ Deactivated(old)[i].wrapped = keys[i].wrapped
              /\ Deactivated(old)[i].active = (keys[i].active /\ keys[i].id # old)
<1> DEFINE kept == Deactivated(old)
<1>1. ASSUME NEW i \in DOMAIN keys
      PROVE  /\ i \in DOMAIN kept /\ kept[i] \in Row
             /\ kept[i].id = keys[i].id /\ kept[i].wrapped = keys[i].wrapped
             /\ kept[i].active = (keys[i].active /\ keys[i].id # old)
  <2>1. keys[i] \in Row
    BY DEF TypeOK
  <2>2. CASE keys[i].id = old
    <3>1. kept[i] = [keys[i] EXCEPT !.active = FALSE]
      BY <2>2 DEF Deactivated
    <3> HIDE DEF kept
    <3>2. kept[i] \in Row /\ kept[i].id = keys[i].id
          /\ kept[i].wrapped = keys[i].wrapped
      BY <2>1, <3>1 DEF Row
    <3>3. kept[i].active = FALSE
      BY <2>1, <3>1 DEF Row
    <3> QED BY <2>2, <3>2, <3>3 DEF kept, Deactivated
  <2>3. CASE keys[i].id # old
    <3>1. kept[i] = keys[i]
      BY <2>3 DEF Deactivated
    <3>2. keys[i].active \in BOOLEAN
      BY <2>1 DEF Row
    <3> QED BY <2>1, <2>3, <3>1, <3>2 DEF Deactivated
  <2> QED BY <2>2, <2>3
<1>2. kept \in Seq(Row) /\ DOMAIN kept = DOMAIN keys
  <2>1. DOMAIN keys = 1..Len(keys) /\ Len(keys) \in Nat
    BY DEF TypeOK
  <2>2. DOMAIN kept = DOMAIN keys /\ kept = [i \in DOMAIN keys |-> kept[i]]
    BY DEF Deactivated
  <2> HIDE DEF kept
  <2>3. kept \in [1..Len(keys) -> Row]
    BY <1>1, <2>1, <2>2
  <2> QED BY <2>1, <2>2, <2>3, SeqDef
<1> QED BY <1>1, <1>2

LEMMA RotateCommitsRows ==
  ASSUME TypeOK, CommitHasMaster, NEW r \in Request, RotateCommits(r)
  PROVE  /\ RowsStay /\ request[r].new \in RowIds'
         /\ OneMaster => OneMaster'
<1> DEFINE row == NewRow(request[r].new, master)
           kept == Deactivated(request[r].old)
<1>1. master # None /\ request[r].new \in Key
  BY HeldType DEF CommitHasMaster, RotateCommits, Continues, Committing
<1>2. row \in Row /\ row.id = request[r].new /\ row.wrapped = master
  BY <1>1 DEF TypeOK, NewRow, Row
<1>3. /\ kept \in Seq(Row) /\ DOMAIN kept = DOMAIN keys
      /\ \A i \in DOMAIN keys : /\ kept[i].id = keys[i].id
                                /\ kept[i].wrapped = keys[i].wrapped
  BY DeactivatedRows
<1>4. keys' = Append(kept, row) /\ UNCHANGED masterVars
  BY DEF RotateCommits, Rotated, Deactivated
<1> HIDE DEF kept, row
<1>5. /\ \A i \in DOMAIN keys : i \in DOMAIN keys' /\ keys'[i] = kept[i]
      /\ \A i \in DOMAIN keys' : \/ i \in DOMAIN keys /\ keys'[i] = kept[i]
                                 \/ keys'[i] = row
      /\ \E i \in DOMAIN keys' : keys'[i] = row
  BY <1>2, <1>3, <1>4, AppendKeepsRows
<1>6. RowsStay /\ request[r].new \in RowIds'
  BY <1>2, <1>3, <1>5 DEF RowsStay, RowIds
<1>7. ASSUME OneMaster PROVE OneMaster'
  <2>1. /\ readable' /\ Found' /\ master' = Kept' /\ Kept' = Kept
        /\ master = Kept
    BY <1>1, <1>4, <1>7 DEF OneMaster, masterVars, Found, Kept
  <2>2. ASSUME NEW i \in DOMAIN keys' PROVE keys'[i].wrapped = Kept'
    BY <1>2, <1>3, <1>5, <1>7, <2>1 DEF OneMaster
  <2> QED BY <2>1, <2>2 DEF OneMaster
<1> QED BY <1>6, <1>7

\* A request that goes on from before its commit leaves those to be committed.
LEMMA UncommittedStays ==
  ASSUME TypeOK, NEW r \in Request, NEW next, Goes(r, next),
         request[r].at # "commit"
  PROVE  Uncommitted \subseteq Uncommitted'
BY OthersStay DEF Uncommitted

LEMMA HeldStays ==
  ASSUME TypeOK, HeldKeysAreRows, RowsStay, NEW r \in Request, NEW next,
         Goes(r, next), next.at \in {"write", "rotate"} => next.key \in RowIds'
  PROVE  HeldKeysAreRows'
BY OthersStay DEF HeldKeysAreRows, RowsStay

LEMMA EntriesStay ==
  ASSUME EntriesHaveKeys, RowsStay, Uncommitted \subseteq Uncommitted',
         \A n \in Name : \/ file'[n] = file[n]
                         \/ file'[n] = None
                         \/ file'[n].key_id \in RowIds'
                         \/ file'[n].key_id \in Uncommitted'
  PROVE  EntriesHaveKeys'
BY DEF EntriesHaveKeys, RowsStay

\* A request that has not read a key yet, or is done with it.
LEMMA EndedHoldsNoKey == Ended.at \notin {"write", "rotate", "commit"}
BY DEF Ended

LEMMA ReadActiveKeyFaultless ==
  ASSUME TypeOK, Faultless, NEW r \in Request,
         NEW next \in {"write", "rotate"}, NEW n, NEW v,
         ReadActiveKey(r, next, n, v)
  PROVE  Faultless'
<1> DEFINE held == IF ActiveRows = {}
                   THEN [at |-> "keyless", name |-> n, value |-> v]
                   ELSE [at |-> next, name |-> n, value |-> v,
                         key |-> keys[ActiveRow].id]
<1>1. /\ Goes(r, held) /\ request[r].at = "waiting" /\ keys' = keys
      /\ UNCHANGED masterVars /\ file' = file
  BY DEF ReadActiveKey, Begins, KeepRest
<1>2. held.at \in {"write", "rotate"} => held.key \in RowIds
  <2>1. CASE ActiveRows = {}
    BY <2>1
  <2>2. CASE ActiveRows # {}
    BY <2>2, ActiveRowIsARow DEF RowIds
  <2> QED BY <2>1, <2>2
<1> HIDE DEF held
<1>3. RowsStay /\ OneMaster'
  BY <1>1, SameRowsStay, OneMasterStays DEF Faultless
<1>4. HeldKeysAreRows'
  BY <1>1, <1>2, <1>3, HeldStays DEF Faultless, RowsStay
<1>5. EntriesHaveKeys'
  BY <1>1, <1>3, UncommittedStays, EntriesStay DEF Faultless
<1> QED BY <1>3, <1>4, <1>5 DEF Faultless

\* A request that ends, or reads an entry, at most settles the master key.
LEMMA OtherwiseFaultless ==
  ASSUME TypeOK, Faultless, NEW r \in Request, NEW next,
         Goes(r, next), next.at \notin {"write", "rotate"},
         request[r].at # "commit", keys' = keys,
         GetMasterKey \/ UNCHANGED masterVars,
         \A n \in Name : \/ file'[n] = file[n] \/ file'[n] = None
                         \/ file'[n].key_id \in RowIds
  PROVE  Faultless'
<1>1. RowsStay /\ OneMaster'
  BY SameRowsStay, OneMasterStays DEF Faultless
<1>2. HeldKeysAreRows'
  BY <1>1, HeldStays DEF Faultless
<1>3. EntriesHaveKeys'
  BY <1>1, UncommittedStays, EntriesStay DEF Faultless, RowsStay
<1> QED BY <1>1, <1>2, <1>3 DEF Faultless

LEMMA CreateKeyFaultless ==
  ASSUME TypeOK, Faultless, NEW r \in Request, CreateKey(r)
  PROVE  Faultless'
<1> DEFINE held == IF request[r].name = None THEN Ended
                   ELSE [at |-> "write", name |-> request[r].name,
                         value |-> request[r].value, key |-> made + 1]
<1>1. Goes(r, held) /\ request[r].at = "keyless" /\ file' = file
  BY DEF CreateKey, Continues
<1>2. RowsStay /\ made + 1 \in RowIds' /\ OneMaster'
  BY CreateKeyRows DEF Faultless
<1>3. held.at \in {"write", "rotate"} => held.key \in RowIds'
  BY <1>2, EndedHoldsNoKey
<1> HIDE DEF held
<1>4. HeldKeysAreRows'
  BY <1>1, <1>2, <1>3, HeldStays DEF Faultless
<1>5. EntriesHaveKeys'
  BY <1>1, <1>2, UncommittedStays, EntriesStay DEF Faultless
<1> QED BY <1>2, <1>4, <1>5 DEF Faultless

LEMMA RotateFileFaultless ==
  ASSUME TypeOK, Faultless, NEW r \in Request, RotateFile(r)
  PROVE  Faultless'
<1> DEFINE next == [at |-> "commit", old |-> request[r].key, new |-> made + 1]
<1>1. request[r].at = "rotate" /\ keys' = keys /\ GetMasterKey
  BY DEF RotateFile, Continues
<1>2. CASE Goes(r, Ended) /\ file' = file
  BY <1>1, <1>2, EndedHoldsNoKey, OtherwiseFaultless
<1>3. CASE Goes(r, next) /\ file' = Reencrypted(request[r].key, made + 1)
  <2>1. RowsStay /\ OneMaster'
    BY <1>1, SameRowsStay, OneMasterStays DEF Faultless
  <2>2. HeldKeysAreRows'
    BY <1>3, <2>1, HeldStays DEF Faultless
  <2>3. made + 1 \in Uncommitted'
    <3>1. request'[r] = next
      BY <1>3, OthersStay
    <3> QED BY <3>1 DEF Uncommitted
  <2>4. ASSUME NEW n \in Name
        PROVE  file'[n] = file[n] \/ file'[n].key_id \in Uncommitted'
    <3>1. CASE file[n] # None /\ file[n].under = request[r].key
      <4>1. file'[n] = [file[n] EXCEPT !.under = made + 1, !.key_id = made + 1]
        BY <1>3, <3>1 DEF Reencrypted
      <4>2. file[n] \in Entry
        BY <3>1 DEF TypeOK
      <4>3. file'[n].key_id = made + 1
        BY <4>1, <4>2 DEF Entry
      <4> QED BY <2>3, <4>3
    <3>2. CASE ~ (file[n] # None /\ file[n].under = request[r].key)
      BY <1>3, <3>2 DEF Reencrypted
    <3> QED BY <3>1, <3>2
  <2>5. Uncommitted \subseteq Uncommitted'
    BY <1>1, <1>3, UncommittedStays
  <2>6. EntriesHaveKeys'
    BY <2>1, <2>4, <2>5, EntriesStay DEF Faultless
  <2> QED BY <2>1, <2>2, <2>6 DEF Faultless
<1> QED BY <1>2, <1>3 DEF RotateFile

\* What a rotation commits was what it had left uncommitted.
LEMMA RotateCommitsFaultless ==
  ASSUME TypeOK, CommitHasMaster, Faultless, NEW r \in Request, RotateCommits(r)
  PROVE  Faultless'
<1>1. RowsStay /\ request[r].new \in RowIds' /\ OneMaster'
  BY RotateCommitsRows DEF Faultless
<1>2. Goes(r, Ended) /\ file' = file
  BY DEF RotateCommits, KeepRest
<1>3. HeldKeysAreRows'
  BY <1>1, <1>2, EndedHoldsNoKey, HeldStays DEF Faultless
<1>4. Uncommitted \subseteq Uncommitted' \cup {request[r].new}
  BY <1>2, OthersStay DEF Uncommitted
<1>5. EntriesHaveKeys'
  BY <1>1, <1>2, <1>4 DEF Faultless, EntriesHaveKeys, RowsStay
<1> QED BY <1>1, <1>3, <1>5 DEF Faultless

LEMMA NextFaultless ==
  ASSUME TypeOK, CommitHasMaster, Faultless, [Next]_vars, faults' = MaxFaults
  PROVE  Faultless'
<1>1. ~ Fault
  BY FaultSpends
<1>2. ASSUME NEW r \in Request, NEW n \in Name, NEW v \in Value,
             StoreBegins(r, n, v)
      PROVE  Faultless'
  BY <1>2, ReadActiveKeyFaultless DEF StoreBegins
<1>3. ASSUME NEW r \in Request, NEW n \in Name, Delete(r, n)
      PROVE  Faultless'
  <2>1. \A m \in Name : file'[m] = file[m] \/ file'[m] = None
    BY <1>3 DEF Delete, TypeOK
  <2> QED BY <1>3, <2>1, EndedHoldsNoKey, OtherwiseFaultless DEF Delete, Begins
<1>4. ASSUME NEW r \in Request, NEW n \in Name, GetReads(r, n)
      PROVE  Faultless'
  <2> DEFINE next == IF file[n] = None THEN Ended
                     ELSE [at |-> "got", entry |-> file[n]]
  <2>1. /\ Goes(r, next) /\ request[r].at = "waiting" /\ keys' = keys
        /\ file' = file /\ UNCHANGED masterVars
    BY <1>4 DEF GetReads, Begins, KeepRest
  <2>2. next.at \notin {"write", "rotate"}
    BY EndedHoldsNoKey
  <2> HIDE DEF next
  <2> QED BY <2>1, <2>2, OtherwiseFaultless
<1>5. ASSUME NEW r \in Request, CreateKey(r)
      PROVE  Faultless'
  BY <1>5, CreateKeyFaultless
<1>6. ASSUME NEW r \in Request, StoreWrites(r)
      PROVE  Faultless'
  <2>1. /\ Goes(r, Ended) /\ request[r].at = "write" /\ keys' = keys
        /\ GetMasterKey
    BY <1>6 DEF StoreWrites, Continues
  <2>2. request[r].key \in RowIds
    BY <2>1 DEF Faultless, HeldKeysAreRows
  <2>3. \A m \in Name : file'[m] = file[m] \/ file'[m].key_id \in RowIds
    BY <1>6, <2>2 DEF StoreWrites, TypeOK
  <2> QED BY <2>1, <2>3, EndedHoldsNoKey, OtherwiseFaultless
<1>7. ASSUME NEW r \in Request, GetAnswers(r)
      PROVE  Faultless'
  <2>1. /\ Goes(r, Ended) /\ request[r].at = "got" /\ keys' = keys
        /\ file' = file /\ (GetMasterKey \/ UNCHANGED masterVars)
    BY <1>7 DEF GetAnswers, Continues, KeepRest
  <2> QED BY <2>1, EndedHoldsNoKey, OtherwiseFaultless
<1>8. ASSUME NEW r \in Request, RotateBegins(r)
      PROVE  Faultless'
  <2>1. CASE ReadActiveKey(r, "rotate", None, None)
    BY <2>1, ReadActiveKeyFaultless
  <2>2. CASE Begins(r) /\ Goes(r, Ended) /\ UNCHANGED <<masterVars, keys>> /\ KeepRest
    BY <2>2, EndedHoldsNoKey, OtherwiseFaultless DEF Begins, KeepRest
  <2> QED BY <1>8, <2>1, <2>2 DEF RotateBegins
<1>9. ASSUME NEW r \in Request, RotateFile(r)
      PROVE  Faultless'
  BY <1>9, RotateFileFaultless
<1>10. ASSUME NEW r \in Request, RotateCommits(r)
       PROVE  Faultless'
  BY <1>10, RotateCommitsFaultless
<1>11. CASE UNCHANGED vars
  BY <1>11 DEF vars, masterVars, Faultless, OneMaster, Found, Kept,
               HeldKeysAreRows, EntriesHaveKeys, RowIds, Uncommitted
<1> QED BY <1>1, <1>2, <1>3, <1>4, <1>5, <1>6, <1>7, <1>8, <1>9, <1>10, <1>11
        DEF Next, CommitFails, MasterSpoiled, Crash

-----------------------------------------------------------------------------
(* The theorems. *)

LEMMA InitInvariant == Init => IInv
<1> SUFFICES ASSUME Init PROVE IInv
  OBVIOUS
<1>1. \A r \in Request : request[r].at = "waiting"
  BY DEF Init
<1>2. CommitHasMaster /\ HeldKeysAreRows
  BY <1>1 DEF CommitHasMaster, HeldKeysAreRows
<1>3. CiphertextsMatch
  BY <1>1 DEF Init, CiphertextsMatch
<1>4. OneMaster /\ EntriesHaveKeys
  BY DEF Init, OneMaster, EntriesHaveKeys
<1> QED BY <1>2, <1>3, <1>4, InitType DEF IInv

LEMMA NextInvariant == IInv /\ [Next]_vars => IInv'
<1> SUFFICES ASSUME IInv, [Next]_vars PROVE IInv'
  OBVIOUS
<1>1. TypeOK' /\ CommitHasMaster' /\ CiphertextsMatch'
  BY NextType, NextCommitHasMaster, NextMatches DEF IInv
<1>2. ASSUME faults' = MaxFaults PROVE Faultless'
  <2>1. faults = MaxFaults
    <3>1. ~ Fault
      BY <1>2, FaultSpends DEF IInv
    <3> QED BY <1>2, <3>1
            DEF Next, StoreBegins, ReadActiveKey, Delete, GetReads, CreateKey,
                StoreWrites, GetAnswers, RotateBegins, RotateFile, RotateCommits,
                KeepRest, CommitFails, MasterSpoiled, Crash, vars
  <2> QED BY <1>2, <2>1, NextFaultless DEF IInv, Faultless
<1> QED BY <1>1, <1>2 DEF IInv, Faultless

LEMMA Invariant == Spec => []IInv
BY InitInvariant, NextInvariant, PTL DEF Spec

\* Every value in keychain.json, and every one that a get has read of it, is
\* encrypted under the key its entry names: no interleaving of stores, deletes
\* and rotations, and no crash, leaves one that _decrypt would refuse.
THEOREM CiphertextsAlwaysMatch == Spec => []CiphertextsMatch
<1>1. IInv => CiphertextsMatch
  BY DEF IInv
<1> QED BY <1>1, Invariant, PTL

\* Without faults the key of every value is in the table, under the master key
\* that the process has or will get, or about to be committed.
THEOREM KeysAreAlwaysKnown == Spec => []KeysAreKnown
<1>1. ASSUME IInv, faults = MaxFaults, NEW n \in Name, file[n] # None
      PROVE  file[n].key_id \in KnownKeys
  <2>1. OneMaster /\ EntriesHaveKeys
    BY <1>1 DEF IInv
  <2>2. ASSUME NEW i \in DOMAIN keys PROVE keys[i].wrapped = CurrentMaster
    BY <2>1 DEF OneMaster, CurrentMaster, Found, Kept
  <2> QED BY <1>1, <2>1, <2>2 DEF EntriesHaveKeys, RowIds, KnownKeys
<1>2. IInv => KeysAreKnown
  BY <1>1 DEF KeysAreKnown
<1> QED BY <1>2, Invariant, PTL
-----------------------------------------------------------------------------
(* The keychain implements Vault: what the table of keys promises, also after *)
(* faults.                                                                    *)

\* Which key is encrypted under which master key.
Wrappings == {<<keys[i].id, keys[i].wrapped>> : i \in DOMAIN keys}

\* The process's master key is the one it would find again, rows and entries
\* are about keys and master keys that were made, and a key that a store or a
\* rotation has read is a row's.
TableInv ==
  /\ master # None => Found /\ master = Kept
  /\ \A w \in Wrappings : w[1] <= made /\ w[2] <= masterFile
  /\ \A r \in Request : request[r].at = "commit" => request[r].new <= made
  /\ \A n \in Name : file[n] # None => file[n].key_id <= made
  /\ HeldKeysAreRows

LEMMA WrappingsType ==
  ASSUME TypeOK
  PROVE  /\ Wrappings \subseteq Key \X Master
         /\ \A k : k \in RowIds <=> \E m : <<k, m>> \in Wrappings
<1>1. \A i \in DOMAIN keys : keys[i] \in Row
  BY DEF TypeOK
<1>2. \A i \in DOMAIN keys : keys[i].id \in Key /\ keys[i].wrapped \in Master
  BY <1>1 DEF Row
<1>3. Wrappings \subseteq Key \X Master
  BY <1>2 DEF Wrappings
<1>4. ASSUME NEW k PROVE k \in RowIds <=> \E m : <<k, m>> \in Wrappings
  BY DEF Wrappings, RowIds
<1> QED BY <1>3, <1>4

\* _get_master_key returns the key it would have found, and makes a new one,
\* which no row is encrypted under, only where it finds none.
LEMMA GetMasterKeyFinds ==
  ASSUME TypeOK, master # None => Found /\ master = Kept, GetMasterKey
  PROVE  /\ master' = MasterKey /\ MasterKey \in Nat /\ MasterKey # None
         /\ Found' /\ master' = Kept'
         /\ masterFile <= masterFile' /\ MasterKey <= masterFile'
         /\ CurrentMaster' = MasterKey
         /\ CurrentMaster # None => MasterKey = CurrentMaster
         /\ CurrentMaster = None => masterFile < MasterKey
<1>1. /\ master' = MasterKey /\ env' = env
      /\ masterFile' = IF MasterKey = EnvKey THEN masterFile ELSE MasterKey
  BY DEF GetMasterKey
<1>2. MasterKey \in Nat /\ MasterKey # None
  BY MasterKeyType, KeychainAssumption DEF Master
<1>3. masterFile \in Nat /\ EnvKey = 0 /\ EnvKey # None /\ masterFile # None
  BY KeychainAssumption DEF TypeOK, Master, EnvKey
<1>4. CurrentMaster' = MasterKey
  BY <1>1, <1>2 DEF CurrentMaster
<1>5. CASE env
  <2>1. MasterKey = EnvKey /\ masterFile' = masterFile
    BY <1>1, <1>5 DEF MasterKey, Kept
  <2>2. CurrentMaster = EnvKey
    BY <1>5 DEF CurrentMaster, Kept
  <2> QED BY <1>1, <1>2, <1>3, <1>4, <1>5, <2>1, <2>2 DEF Found, Kept
<1>6. CASE ~ env /\ (master # None \/ (masterFile # 0 /\ readable))
  <2>1. MasterKey = masterFile /\ masterFile # 0
    BY <1>6 DEF MasterKey, Kept, Found
  <2>2. CurrentMaster = masterFile /\ masterFile' = masterFile
    BY <1>1, <1>3, <1>6, <2>1 DEF CurrentMaster, Kept
  <2> QED BY <1>1, <1>2, <1>3, <1>4, <1>6, <2>1, <2>2 DEF Found, Kept
<1>7. CASE ~ env /\ master = None /\ ~ (masterFile # 0 /\ readable)
  <2>1. MasterKey = masterFile + 1
    BY <1>7 DEF MasterKey
  <2>2. CurrentMaster = None
    BY <1>7 DEF CurrentMaster
  <2>3. masterFile' = masterFile + 1 /\ masterFile + 1 # 0
    BY <1>1, <1>3, <2>1
  <2>4. /\ masterFile <= masterFile' /\ MasterKey <= masterFile'
        /\ masterFile < MasterKey
    BY <1>3, <2>1, <2>3
  <2> QED BY <1>1, <1>2, <1>4, <1>7, <2>1, <2>2, <2>3, <2>4 DEF Found, Kept
<1> QED BY <1>5, <1>6, <1>7

\* What the steps of a request that leave the rows alone do to the table.
LEMMA TableStays ==
  ASSUME TypeOK, TypeOK', TableInv, NEW r \in Request, NEW next, Goes(r, next),
         GetMasterKey \/ UNCHANGED masterVars, keys' = keys, made <= made',
         next.at = "commit" => next.new <= made',
         next.at \in {"write", "rotate"} => next.key \in RowIds,
         \A n \in Name : \/ file'[n] = file[n]
                         \/ file'[n] = None
                         \/ file'[n].key_id <= made'
  PROVE  TableInv'
<1>1. made \in Nat /\ made' \in Nat /\ masterFile \in Nat /\ masterFile' \in Nat
  BY DEF TypeOK, Master
<1>2. /\ master' # None => Found' /\ master' = Kept'
      /\ masterFile <= masterFile'
  <2>1. CASE GetMasterKey
    BY <2>1, GetMasterKeyFinds DEF TableInv
  <2>2. CASE UNCHANGED masterVars
    BY <1>1, <2>2 DEF TableInv, masterVars, Found, Kept
  <2> QED BY <2>1, <2>2
<1>3. ASSUME NEW w \in Wrappings' PROVE w[1] <= made' /\ w[2] <= masterFile'
  <2>1. w \in Wrappings
    BY <1>3 DEF Wrappings
  <2>2. w[1] \in Nat /\ w[2] \in Nat
    BY <2>1, WrappingsType DEF Key, Master
  <2>3. w[1] <= made /\ w[2] <= masterFile
    BY <2>1 DEF TableInv
  <2> QED BY <1>1, <1>2, <2>2, <2>3
<1>4. ASSUME NEW s \in Request, request'[s].at = "commit"
      PROVE  request'[s].new <= made'
  <2>1. CASE s = r
    BY <1>4, <2>1, OthersStay
  <2>2. CASE s # r
    <3>1. request'[s] = request[s]
      BY <2>2, OthersStay
    <3>2. request[s].new <= made /\ request[s].new \in Nat
      BY <1>4, <3>1, HeldType DEF TableInv, Committing, Key
    <3> QED BY <1>1, <3>1, <3>2
  <2> QED BY <2>1, <2>2
<1>5. ASSUME NEW n \in Name, file'[n] # None
      PROVE  file'[n].key_id <= made'
  <2>1. CASE file'[n] = file[n]
    <3>1. file[n].key_id <= made /\ file[n].key_id \in Nat
      BY <1>5, <2>1 DEF TableInv, TypeOK, Entry, Key
    <3> QED BY <1>1, <2>1, <3>1
  <2> QED BY <1>5, <2>1
<1>6. HeldKeysAreRows'
  <2>1. RowIds' = RowIds
    BY DEF RowIds
  <2> QED BY <2>1, SameRowsStay, HeldStays DEF TableInv
<1> QED BY <1>2, <1>3, <1>4, <1>5, <1>6 DEF TableInv

\* CreateKey and RotateCommits add one row.
LEMMA CreateKeyWraps ==
  ASSUME TypeOK, NEW r \in Request, CreateKey(r)
  PROVE  Wrappings' = Wrappings \cup {<<made + 1, MasterKey>>}
<1> DEFINE row == NewRow(made + 1, MasterKey)
<1>1. row \in Row /\ row.id = made + 1 /\ row.wrapped = MasterKey
  BY MasterKeyType DEF TypeOK, NewRow, Row, Key
<1>2. keys \in Seq(Row) /\ keys' = Append(keys, row)
  BY DEF TypeOK, CreateKey
<1> HIDE DEF row
<1>3. /\ \A i \in DOMAIN keys : i \in DOMAIN keys' /\ keys'[i] = keys[i]
      /\ \A i \in DOMAIN keys' :
           (i \in DOMAIN keys /\ keys'[i] = keys[i]) \/ keys'[i] = row
      /\ \E i \in DOMAIN keys' : keys'[i] = row
  BY <1>1, <1>2, AppendKeepsRows
<1>4. \A w : w \in Wrappings' <=> w \in Wrappings \/ w = <<made + 1, MasterKey>>
  BY <1>1, <1>3 DEF Wrappings
<1> QED BY <1>4

LEMMA RotateCommitsWraps ==
  ASSUME TypeOK, CommitHasMaster, NEW r \in Request, RotateCommits(r)
  PROVE  Wrappings' = Wrappings \cup {<<request[r].new, master>>}
<1> DEFINE old == request[r].old
           row == NewRow(request[r].new, master)
           kept == Deactivated(old)
<1>1. master # None /\ request[r].new \in Key
  BY HeldType DEF CommitHasMaster, RotateCommits, Continues, Committing
<1>2. row \in Row /\ row.id = request[r].new /\ row.wrapped = master
  BY <1>1 DEF TypeOK, NewRow, Row
<1>3. /\ kept \in Seq(Row) /\ DOMAIN kept = DOMAIN keys
      /\ \A i \in DOMAIN keys : /\ kept[i].id = keys[i].id
                                /\ kept[i].wrapped = keys[i].wrapped
  BY DeactivatedRows
<1>4. keys' = Append(kept, row)
  BY DEF RotateCommits, Rotated, Deactivated
<1> HIDE DEF kept, row, old
<1>5. /\ \A i \in DOMAIN kept : i \in DOMAIN keys' /\ keys'[i] = kept[i]
      /\ \A i \in DOMAIN keys' :
           (i \in DOMAIN kept /\ keys'[i] = kept[i]) \/ keys'[i] = row
      /\ \E i \in DOMAIN keys' : keys'[i] = row
  BY <1>2, <1>3, <1>4, AppendKeepsRows
<1>6. \A w : w \in Wrappings' <=> w \in Wrappings \/ w = <<request[r].new, master>>
  BY <1>2, <1>3, <1>5 DEF Wrappings
<1> QED BY <1>6

LEMMA CreateKeyTable ==
  ASSUME TypeOK, TypeOK', TableInv, NEW r \in Request, CreateKey(r)
  PROVE  TableInv'
<1> DEFINE held == IF request[r].name = None THEN Ended
                   ELSE [at |-> "write", name |-> request[r].name,
                         value |-> request[r].value, key |-> made + 1]
<1>1. /\ Goes(r, held) /\ GetMasterKey /\ file' = file /\ made' = made + 1
  BY DEF CreateKey
<1>2. made \in Nat /\ masterFile \in Nat /\ masterFile' \in Nat
  BY DEF TypeOK, Master
<1>3. /\ master' # None => Found' /\ master' = Kept'
      /\ masterFile <= masterFile' /\ MasterKey <= masterFile' /\ MasterKey \in Nat
  BY <1>1, GetMasterKeyFinds DEF TableInv
<1>4. ASSUME NEW w \in Wrappings' PROVE w[1] <= made' /\ w[2] <= masterFile'
  <2>1. CASE w \in Wrappings
    <3>1. w[1] \in Nat /\ w[2] \in Nat
      BY <2>1, WrappingsType DEF Key, Master
    <3>2. w[1] <= made /\ w[2] <= masterFile
      BY <2>1 DEF TableInv
    <3> QED BY <1>1, <1>2, <1>3, <3>1, <3>2
  <2>2. CASE w = <<made + 1, MasterKey>>
    BY <1>1, <1>2, <1>3, <2>2
  <2> QED BY <1>4, <2>1, <2>2, CreateKeyWraps
<1>5. held.at # "commit" /\ (held.at \in {"write", "rotate"} => held.key = made + 1)
  BY EndedHoldsNoKey
<1> HIDE DEF held
<1>6. ASSUME NEW s \in Request, request'[s].at = "commit"
      PROVE  request'[s].new <= made'
  <2>1. request'[s] = request[s]
    BY <1>1, <1>5, <1>6, OthersStay
  <2>2. request[s].new <= made /\ request[s].new \in Nat
    BY <1>6, <2>1, HeldType DEF TableInv, Committing, Key
  <2> QED BY <1>1, <1>2, <2>1, <2>2
<1>7. ASSUME NEW n \in Name, file'[n] # None
      PROVE  file'[n].key_id <= made'
  <2>1. file[n].key_id <= made /\ file[n].key_id \in Nat
    BY <1>1, <1>7 DEF TableInv, TypeOK, Entry, Key
  <2> QED BY <1>1, <1>2, <2>1
<1>8. HeldKeysAreRows'
  BY <1>1, <1>5, CreateKeyRows, HeldStays DEF TableInv
<1> QED BY <1>3, <1>4, <1>6, <1>7, <1>8 DEF TableInv

LEMMA RotateCommitsTable ==
  ASSUME TypeOK, TypeOK', CommitHasMaster, TableInv, NEW r \in Request,
         RotateCommits(r)
  PROVE  TableInv'
<1>1. /\ Goes(r, Ended) /\ UNCHANGED <<masterVars, file, made>>
      /\ request[r].at = "commit"
  BY DEF RotateCommits, Continues, KeepRest
<1>2. request[r].new <= made /\ master # None /\ master = Kept
  BY <1>1 DEF TableInv, CommitHasMaster
<1>3. Kept <= masterFile
  BY DEF Kept, TypeOK, Master, EnvKey
<1>4. \A w \in Wrappings' : w[1] <= made /\ w[2] <= masterFile
  BY <1>2, <1>3, RotateCommitsWraps DEF TableInv
<1>5. \A s \in Request : request'[s].at = "commit" => request'[s].new <= made
  BY <1>1, OthersStay, EndedHoldsNoKey DEF TableInv
<1>6. HeldKeysAreRows'
  BY <1>1, RotateCommitsRows, HeldStays, EndedHoldsNoKey DEF TableInv
<1>7. master' # None => Found' /\ master' = Kept'
  BY <1>1 DEF TableInv, masterVars, Found, Kept
<1> QED BY <1>1, <1>4, <1>5, <1>6, <1>7 DEF TableInv, masterVars

\* A fault that hits a file or a process leaves the table as it was.
LEMMA FaultTable ==
  ASSUME TypeOK, TableInv, MasterSpoiled \/ Crash
  PROVE  TableInv'
<1>1. /\ keys' = keys /\ made' = made
      /\ env' = env /\ masterFile' = masterFile /\ (master' = master \/ master' = None)
      /\ \A n \in Name : file'[n] = file[n] \/ file'[n] = None
  BY DEF MasterSpoiled, Crash
<1>2. ASSUME NEW s \in Request
      PROVE  request'[s] = request[s] \/ request'[s] = Ended
  BY DEF MasterSpoiled, Crash
<1>3. Wrappings' = Wrappings /\ RowIds' = RowIds
  BY <1>1 DEF Wrappings, RowIds
<1>4. HeldKeysAreRows'
  BY <1>2, <1>3, EndedHoldsNoKey DEF TableInv, HeldKeysAreRows
<1>5. \A s \in Request : request'[s].at = "commit" => request'[s].new <= made
  BY <1>2, EndedHoldsNoKey DEF TableInv
<1>6. master' # None => Found' /\ master' = Kept'
  BY <1>1 DEF TableInv, Found, Kept
<1>7. \A n \in Name : file'[n] # None => file'[n].key_id <= made
  BY <1>1 DEF TableInv
<1> QED BY <1>1, <1>3, <1>4, <1>5, <1>6, <1>7 DEF TableInv

LEMMA NextTable ==
  ASSUME TypeOK, TypeOK', CommitHasMaster, TableInv, [Next]_vars
  PROVE  TableInv'
<1>1. made \in Nat /\ made <= made /\ made <= made + 1 /\ made + 1 <= made + 1
  BY DEF TypeOK
<1>2. ASSUME NEW r \in Request, NEW next \in {"write", "rotate"}, NEW n, NEW v,
             ReadActiveKey(r, next, n, v)
      PROVE  TableInv'
  <2> DEFINE held == IF ActiveRows = {}
                     THEN [at |-> "keyless", name |-> n, value |-> v]
                     ELSE [at |-> next, name |-> n, value |-> v,
                           key |-> keys[ActiveRow].id]
  <2>1. /\ Goes(r, held) /\ keys' = keys /\ made' = made /\ file' = file
        /\ UNCHANGED masterVars
    BY <1>2 DEF ReadActiveKey, KeepRest
  <2>2. /\ held.at # "commit"
        /\ held.at \in {"write", "rotate"} => held.key \in RowIds
    <3>1. CASE ActiveRows = {}
      BY <3>1
    <3>2. CASE ActiveRows # {}
      BY <3>2, ActiveRowIsARow DEF RowIds
    <3> QED BY <3>1, <3>2
  <2> HIDE DEF held
  <2> QED BY <1>1, <2>1, <2>2, TableStays
<1>3. ASSUME NEW r \in Request, NEW n \in Name, Delete(r, n)
      PROVE  TableInv'
  <2>1. \A m \in Name : file'[m] = file[m] \/ file'[m] = None
    BY <1>3 DEF Delete, TypeOK
  <2> QED BY <1>1, <1>3, <2>1, EndedHoldsNoKey, TableStays DEF Delete
<1>4. ASSUME NEW r \in Request, NEW n \in Name, GetReads(r, n)
      PROVE  TableInv'
  <2> DEFINE next == IF file[n] = None THEN Ended
                     ELSE [at |-> "got", entry |-> file[n]]
  <2>1. /\ Goes(r, next) /\ keys' = keys /\ made' = made /\ file' = file
        /\ UNCHANGED masterVars
    BY <1>4 DEF GetReads, KeepRest
  <2>2. next.at \notin {"write", "rotate", "commit"}
    BY EndedHoldsNoKey
  <2> HIDE DEF next
  <2> QED BY <1>1, <2>1, <2>2, TableStays
<1>5. ASSUME NEW r \in Request, StoreWrites(r)
      PROVE  TableInv'
  <2>1. /\ Goes(r, Ended) /\ keys' = keys /\ made' = made /\ GetMasterKey
        /\ request[r].at = "write"
    BY <1>5 DEF StoreWrites, Continues
  <2>2. request[r].key <= made
    <3>1. request[r].key \in RowIds
      BY <2>1 DEF TableInv, HeldKeysAreRows
    <3>2. PICK m : <<request[r].key, m>> \in Wrappings
      BY <3>1, WrappingsType
    <3> QED BY <3>2 DEF TableInv
  <2>3. \A m \in Name : file'[m] = file[m] \/ file'[m].key_id <= made
    BY <1>5, <2>2 DEF StoreWrites, TypeOK
  <2> QED BY <1>1, <2>1, <2>3, EndedHoldsNoKey, TableStays
<1>6. ASSUME NEW r \in Request, GetAnswers(r)
      PROVE  TableInv'
  <2>1. /\ Goes(r, Ended) /\ keys' = keys /\ made' = made /\ file' = file
        /\ GetMasterKey \/ UNCHANGED masterVars
    BY <1>6 DEF GetAnswers, KeepRest
  <2> QED BY <1>1, <2>1, EndedHoldsNoKey, TableStays
<1>7. ASSUME NEW r \in Request, RotateBegins(r)
      PROVE  TableInv'
  <2>1. CASE Goes(r, Ended) /\ UNCHANGED <<masterVars, keys>> /\ KeepRest
    BY <1>1, <2>1, EndedHoldsNoKey, TableStays DEF KeepRest
  <2> QED BY <1>2, <1>7, <2>1 DEF RotateBegins
<1>8. ASSUME NEW r \in Request, RotateFile(r)
      PROVE  TableInv'
  <2> DEFINE next == [at |-> "commit", old |-> request[r].key, new |-> made + 1]
  <2>1. keys' = keys /\ GetMasterKey
    BY <1>8 DEF RotateFile
  <2>2. CASE Goes(r, Ended) /\ UNCHANGED <<file, made>>
    BY <1>1, <2>1, <2>2, EndedHoldsNoKey, TableStays
  <2>3. CASE /\ Goes(r, next) /\ made' = made + 1
             /\ file' = Reencrypted(request[r].key, made + 1)
    <3>1. next.at = "commit" /\ next.new = made + 1
      OBVIOUS
    <3>2. ASSUME NEW n \in Name
          PROVE  file'[n] = file[n] \/ file'[n].key_id <= made'
      <4>1. CASE file[n] # None /\ file[n].under = request[r].key
        <5>1. file'[n] = [file[n] EXCEPT !.under = made + 1, !.key_id = made + 1]
          BY <2>3, <4>1 DEF Reencrypted
        <5>2. file[n] \in Entry
          BY <4>1 DEF TypeOK
        <5>3. file'[n].key_id = made + 1
          BY <5>1, <5>2 DEF Entry
        <5> QED BY <1>1, <2>3, <5>3
      <4>2. CASE ~ (file[n] # None /\ file[n].under = request[r].key)
        BY <2>3, <4>2 DEF Reencrypted
      <4> QED BY <4>1, <4>2
    <3> HIDE DEF next
    <3> QED BY <1>1, <2>1, <2>3, <3>1, <3>2, TableStays
  <2> QED BY <1>8, <2>2, <2>3 DEF RotateFile
<1>9. ASSUME NEW r \in Request, CommitFails(r)
      PROVE  TableInv'
  <2>1. /\ Goes(r, Ended) /\ UNCHANGED <<masterVars, keys, made, file>>
    BY <1>9 DEF CommitFails
  <2> QED BY <1>1, <2>1, EndedHoldsNoKey, TableStays
<1>10. CASE UNCHANGED vars
  BY <1>10 DEF vars, masterVars, TableInv, Found, Kept, Wrappings,
               HeldKeysAreRows, RowIds
<1> QED BY <1>2, <1>3, <1>4, <1>5, <1>6, <1>7, <1>8, <1>9, <1>10,
           CreateKeyTable, RotateCommitsTable, FaultTable DEF Next, StoreBegins

LEMMA TableInvariant == Spec => []TableInv
<1>1. Init => TableInv
  <2> SUFFICES ASSUME Init PROVE TableInv
    OBVIOUS
  <2>1. Wrappings = {}
    BY DEF Init, Wrappings
  <2> QED BY <2>1 DEF Init, TableInv, HeldKeysAreRows
<1>2. IInv /\ IInv' /\ TableInv /\ [Next]_vars => TableInv'
  BY NextTable DEF IInv
<1> QED BY <1>1, <1>2, Invariant, PTL DEF Spec
-----------------------------------------------------------------------------
(* Each step as a step of Vault. *)

Shown == [n \in Name |-> Readable(n)]
VaultStep == Promise!Next \/ UNCHANGED <<Shown, faults>>

\* What is shown of the table before and after a step.
LEMMA KnownIs ==
  /\ \A k : k \in KnownKeys <=>
              k \in Uncommitted \/ <<k, CurrentMaster>> \in Wrappings
  /\ \A k : k \in KnownKeys' <=>
              k \in Uncommitted' \/ <<k, CurrentMaster'>> \in Wrappings'
BY DEF KnownKeys, Wrappings

LEMMA ReadableIs ==
  ASSUME CiphertextsMatch, CiphertextsMatch', NEW n \in Name
  PROVE  /\ Readable(n) = IF file[n] # None /\ file[n].key_id \in KnownKeys
                          THEN file[n].value ELSE None
         /\ Readable(n)' = IF file'[n] # None /\ file'[n].key_id \in KnownKeys'
                           THEN file'[n].value ELSE None
BY DEF CiphertextsMatch, Readable

\* Finding, or making, the master key shows no other rows.
LEMMA CurrentStays ==
  ASSUME TypeOK, TableInv, GetMasterKey \/ UNCHANGED masterVars, NEW k
  PROVE  <<k, CurrentMaster'>> \in Wrappings <=> <<k, CurrentMaster>> \in Wrappings
<1>1. CASE UNCHANGED masterVars
  BY <1>1 DEF masterVars, CurrentMaster
<1>2. CASE GetMasterKey /\ CurrentMaster # None
  BY <1>2, GetMasterKeyFinds DEF TableInv
<1>3. CASE GetMasterKey /\ CurrentMaster = None
  <2>1. CurrentMaster' = MasterKey /\ MasterKey \in Nat /\ masterFile < MasterKey
    BY <1>3, GetMasterKeyFinds DEF TableInv
  <2>2. \A m : <<k, m>> \in Wrappings => m \in Nat /\ m <= masterFile
    <3> TAKE m
    <3> HAVE <<k, m>> \in Wrappings
    <3>1. m \in Nat
      BY WrappingsType DEF Master
    <3>2. <<k, m>>[2] <= masterFile
      BY DEF TableInv
    <3> QED BY <3>1, <3>2
  <2>3. masterFile \in Nat
    BY DEF TypeOK, Master
  <2>4. ~ (MasterKey <= masterFile)
    BY <2>1, <2>3
  <2>5. <<k, MasterKey>> \notin Wrappings
    BY <2>2, <2>4
  <2>6. <<k, None>> \notin Wrappings
    BY <2>2, KeychainAssumption
  <2> QED BY <1>3, <2>1, <2>5, <2>6
<1> QED BY <1>1, <1>2, <1>3

LEMMA UncommittedSame ==
  ASSUME TypeOK, NEW r \in Request, NEW next, Goes(r, next),
         request[r].at # "commit", next.at # "commit"
  PROVE  Uncommitted' = Uncommitted
<1>1. \A s \in Request : /\ request'[s].at = "commit" <=> request[s].at = "commit"
                         /\ request[s].at = "commit" => request'[s] = request[s]
  BY OthersStay
<1>2. \A k : k \in Uncommitted' <=> k \in Uncommitted
  BY <1>1 DEF Uncommitted
<1> QED BY <1>2

\* A request that commits nothing, and is to commit nothing, shows no other keys.
LEMMA KnownSame ==
  ASSUME TypeOK, TableInv, NEW r \in Request, NEW next, Goes(r, next),
         request[r].at # "commit", next.at # "commit", keys' = keys,
         GetMasterKey \/ UNCHANGED masterVars
  PROVE  KnownKeys' = KnownKeys
<1>1. Uncommitted' = Uncommitted
  BY UncommittedSame
<1>2. Wrappings' = Wrappings
  BY DEF Wrappings
<1>3. \A k : k \in KnownKeys' <=> k \in KnownKeys
  BY <1>1, <1>2, KnownIs, CurrentStays
<1> QED BY <1>3

LEMMA ShowsSame ==
  ASSUME CiphertextsMatch, CiphertextsMatch', faults' = faults,
         \A n \in Name :
           /\ file'[n] = None <=> file[n] = None
           /\ file[n] # None =>
                /\ file'[n].value = file[n].value
                /\ file'[n].key_id \in KnownKeys' <=> file[n].key_id \in KnownKeys
  PROVE  VaultStep
<1>1. \A n \in Name : Readable(n)' = Readable(n)
  BY ReadableIs
<1>2. Shown' = Shown
  BY <1>1 DEF Shown
<1> QED BY <1>2 DEF VaultStep

\* What is gone, or whose key is, is lost; nothing else changes.
LEMMA Loses ==
  ASSUME CiphertextsMatch, CiphertextsMatch', faults' = faults - 1,
         \A n \in Name : file'[n] = file[n] \/ file'[n] = None,
         KnownKeys' \subseteq KnownKeys
  PROVE  VaultStep
<1> DEFINE kept == {n \in Name : Readable(n)' # None}
<1>1. \A n \in Name : Readable(n)' = IF n \in kept THEN Readable(n) ELSE None
  BY ReadableIs
<1>2. kept \in SUBSET Name
  OBVIOUS
<1> HIDE DEF kept
<1>3. Shown' = [n \in Name |-> IF n \in kept THEN Shown[n] ELSE None]
  BY <1>1 DEF Shown
<1>4. Promise!Lose
  BY <1>2, <1>3 DEF Promise!Lose, Shown
<1> QED BY <1>4 DEF VaultStep, Promise!Next

\* A step that ends a request and changes no key is one of Vault's when what it
\* does to the file is.
LEMMA QuietShows ==
  ASSUME TypeOK, TableInv, CiphertextsMatch, CiphertextsMatch',
         NEW r \in Request, NEW next, Goes(r, next),
         request[r].at # "commit", next.at # "commit", keys' = keys,
         GetMasterKey \/ UNCHANGED masterVars, file' = file, faults' = faults
  PROVE  VaultStep
<1>1. KnownKeys' = KnownKeys
  BY KnownSame
<1> QED BY <1>1, ShowsSame

LEMMA CreateKeyShows ==
  ASSUME TypeOK, TableInv, CiphertextsMatch, CiphertextsMatch',
         NEW r \in Request, CreateKey(r)
  PROVE  VaultStep
<1> DEFINE held == IF request[r].name = None THEN Ended
                   ELSE [at |-> "write", name |-> request[r].name,
                         value |-> request[r].value, key |-> made + 1]
<1>1. /\ Goes(r, held) /\ GetMasterKey /\ file' = file /\ faults' = faults
      /\ request[r].at = "keyless"
  BY DEF CreateKey, Continues
<1>2. held.at # "commit"
  BY EndedHoldsNoKey
<1> HIDE DEF held
<1>3. Uncommitted' = Uncommitted
  BY <1>1, <1>2, UncommittedSame
<1>4. Wrappings' = Wrappings \cup {<<made + 1, MasterKey>>}
  BY CreateKeyWraps
<1>5. ASSUME NEW n \in Name, file[n] # None
      PROVE  file[n].key_id \in KnownKeys' <=> file[n].key_id \in KnownKeys
  <2>1. file[n].key_id \in Nat /\ file[n].key_id <= made /\ made \in Nat
    BY <1>5 DEF TypeOK, Entry, Key, TableInv
  <2>2. file[n].key_id # made + 1
    BY <2>1
  <2> HIDE DEF CurrentMaster
  <2>3. <<file[n].key_id, CurrentMaster'>> \in Wrappings' <=>
        <<file[n].key_id, CurrentMaster'>> \in Wrappings
    BY <1>4, <2>2
  <2> QED BY <1>1, <1>3, <2>3, KnownIs, CurrentStays
<1> QED BY <1>1, <1>5, ShowsSame

\* The key a request has read, and which row it would decrypt it from.
LEMMA WrappingIsARow ==
  ASSUME NEW k \in RowIds
  PROVE  <<k, Wrapping(k)>> \in Wrappings
<1> DEFINE i == CHOOSE j \in DOMAIN keys : keys[j].id = k
<1>1. i \in DOMAIN keys /\ keys[i].id = k
  BY DEF RowIds
<1> QED BY <1>1 DEF Wrapping, Wrappings

\* One entry written under a key that is known stores its value.
LEMMA StoresOne ==
  ASSUME CiphertextsMatch, CiphertextsMatch', faults' = faults,
         NEW n \in Name, NEW v \in Value,
         file'[n] # None, file'[n].value = v, file'[n].key_id \in KnownKeys',
         \A m \in Name \ {n} :
           /\ file'[m] = file[m]
           /\ file'[m].key_id \in KnownKeys' <=> file[m].key_id \in KnownKeys
  PROVE  VaultStep
<1>1. Readable(n)' = v
  BY ReadableIs
<1>2. \A m \in Name \ {n} : Readable(m)' = Readable(m)
  BY ReadableIs
<1>3. Shown' = [Shown EXCEPT ![n] = v]
  BY <1>1, <1>2 DEF Shown
<1>4. Promise!Store(n, v)
  BY <1>3 DEF Promise!Store, Shown
<1> QED BY <1>4 DEF VaultStep, Promise!Next

LEMMA StoreWritesShows ==
  ASSUME TypeOK, TableInv, CiphertextsMatch, CiphertextsMatch',
         NEW r \in Request, StoreWrites(r)
  PROVE  VaultStep
<1> DEFINE held == request[r]
<1>1. /\ Goes(r, Ended) /\ GetMasterKey /\ keys' = keys /\ faults' = faults
      /\ held.at = "write"
  BY DEF StoreWrites, Continues
<1>2. KnownKeys' = KnownKeys
  BY <1>1, KnownSame, EndedHoldsNoKey
<1>3. held \in Writing /\ held.key \in RowIds
  BY <1>1, HeldType DEF TableInv, HeldKeysAreRows
<1>4. CASE Wrapping(held.key) # MasterKey
  <2>1. file' = file
    BY <1>4 DEF StoreWrites
  <2> QED BY <1>1, <1>2, <2>1, ShowsSame
<1>5. CASE Wrapping(held.key) = MasterKey
  <2>1. file' = [file EXCEPT ![held.name] =
                   [under |-> held.key, key_id |-> held.key,
                    value |-> held.value]]
    BY <1>5 DEF StoreWrites
  <2>2. held.name \in Name /\ held.value \in Value /\ held.value # None
    BY <1>3, KeychainAssumption DEF Writing
  <2>3. held.key \in KnownKeys'
    <3>1. CurrentMaster' = MasterKey /\ Wrappings' = Wrappings
      BY <1>1, GetMasterKeyFinds DEF TableInv, Wrappings
    <3> QED BY <1>3, <1>5, <3>1, WrappingIsARow, KnownIs
  <2>4. /\ file'[held.name].key_id = held.key /\ file'[held.name] # None
        /\ file'[held.name].value = held.value
        /\ \A n \in Name \ {held.name} : file'[n] = file[n]
    <3>1. [under |-> held.key, key_id |-> held.key, value |-> held.value] # None
      BY <1>3, EntryAssumption DEF Writing, Entry
    <3> QED BY <2>1, <2>2, <3>1 DEF TypeOK
  <2>5. \A n \in Name \ {held.name} :
          file'[n].key_id \in KnownKeys' <=> file[n].key_id \in KnownKeys
    BY <1>2, <2>4
  <2> HIDE DEF held
  <2> QED BY <1>1, <2>2, <2>3, <2>4, <2>5, StoresOne
<1> QED BY <1>4, <1>5

LEMMA RotateFileShows ==
  ASSUME TypeOK, TableInv, CiphertextsMatch, CiphertextsMatch',
         NEW r \in Request, RotateFile(r)
  PROVE  VaultStep
<1> DEFINE old == request[r].key
           next == [at |-> "commit", old |-> old, new |-> made + 1]
<1>1. /\ request[r].at = "rotate" /\ GetMasterKey /\ keys' = keys
      /\ faults' = faults
  BY DEF RotateFile, Continues
<1>2. old \in RowIds /\ Wrappings' = Wrappings
  BY <1>1 DEF TableInv, HeldKeysAreRows, Wrappings
<1>3. CASE Wrapping(old) # MasterKey
  <2>1. Goes(r, Ended) /\ file' = file
    BY <1>3 DEF RotateFile
  <2> QED BY <1>1, <2>1, QuietShows, EndedHoldsNoKey
<1>4. CASE Wrapping(old) = MasterKey
  <2>1. /\ Goes(r, next) /\ file' = Reencrypted(old, made + 1)
    BY <1>4 DEF RotateFile
  <2>2. Uncommitted' = Uncommitted \cup {made + 1}
    <3>1. next.at = "commit" /\ next.new = made + 1
      OBVIOUS
    <3> HIDE DEF next
    <3>2. request'[r] = next /\ \A s \in Request \ {r} : request'[s] = request[s]
      BY <2>1, OthersStay
    <3>3. \A k : k \in Uncommitted' <=> k \in Uncommitted \/ k = made + 1
      BY <1>1, <3>1, <3>2 DEF Uncommitted
    <3> QED BY <3>3
  <2>3. CurrentMaster' = MasterKey
    BY <1>1, GetMasterKeyFinds DEF TableInv
  <2>4. <<old, CurrentMaster'>> \in Wrappings
    BY <1>2, <1>4, <2>3, WrappingIsARow
  <2>5. old \in KnownKeys
    BY <1>1, <2>4, KnownIs, CurrentStays
  <2>6. ASSUME NEW k \in Nat, k <= made
        PROVE  k \in KnownKeys' <=> k \in KnownKeys
    <3>1. k # made + 1
      BY <2>6 DEF TypeOK
    <3>2. <<k, CurrentMaster'>> \in Wrappings <=> <<k, CurrentMaster>> \in Wrappings
      BY <1>1, CurrentStays
    <3> QED BY <1>2, <2>2, <3>1, <3>2, KnownIs
  <2>7. made + 1 \in KnownKeys'
    BY <2>2, KnownIs
  <2>8. ASSUME NEW n \in Name
        PROVE  /\ file'[n] = None <=> file[n] = None
               /\ file[n] # None =>
                    /\ file'[n].value = file[n].value
                    /\ file'[n].key_id \in KnownKeys' <=> file[n].key_id \in KnownKeys
    <3>1. CASE file[n] # None /\ file[n].under = old
      <4>1. file'[n] = [file[n] EXCEPT !.under = made + 1, !.key_id = made + 1]
        BY <2>1, <3>1 DEF Reencrypted
      <4>2. file[n] \in Entry /\ made + 1 \in Key
        BY <3>1 DEF TypeOK, Key
      <4>3. /\ file'[n] \in Entry /\ file'[n].key_id = made + 1
            /\ file'[n].value = file[n].value
        BY <4>1, <4>2 DEF Entry
      <4>4. file[n].key_id = old
        BY <3>1 DEF CiphertextsMatch
      <4> QED BY <2>5, <2>7, <3>1, <4>3, <4>4, EntryAssumption
    <3>2. CASE ~ (file[n] # None /\ file[n].under = old)
      <4>1. file'[n] = file[n]
        BY <2>1, <3>2 DEF Reencrypted
      <4>2. file[n] # None => file[n].key_id \in Nat /\ file[n].key_id <= made
        BY DEF TypeOK, Entry, Key, TableInv
      <4> QED BY <2>6, <4>1, <4>2
    <3> QED BY <3>1, <3>2
  <2> QED BY <1>1, <2>8, ShowsSame
<1> QED BY <1>3, <1>4

\* What a rotation was about to commit is a row's.
LEMMA RotateCommitsShows ==
  ASSUME TypeOK, CommitHasMaster, TableInv, CiphertextsMatch, CiphertextsMatch',
         NEW r \in Request, RotateCommits(r)
  PROVE  VaultStep
<1>1. /\ Goes(r, Ended) /\ UNCHANGED <<masterVars, file, faults>>
      /\ request[r].at = "commit"
  BY DEF RotateCommits, Continues, KeepRest
<1>2. Wrappings' = Wrappings \cup {<<request[r].new, master>>}
  BY RotateCommitsWraps
<1>3. master # None /\ CurrentMaster = master /\ CurrentMaster' = master
  BY <1>1 DEF CommitHasMaster, CurrentMaster, masterVars
<1>4. request'[r] = Ended /\ \A s \in Request \ {r} : request'[s] = request[s]
  BY <1>1, OthersStay
<1>5. \A k : k \in Uncommitted <=> k \in Uncommitted' \/ k = request[r].new
  BY <1>1, <1>4, EndedHoldsNoKey DEF Uncommitted
<1>6. \A k : k \in KnownKeys' <=> k \in KnownKeys
  BY <1>2, <1>3, <1>5, KnownIs
<1> QED BY <1>1, <1>6, ShowsSame

LEMMA FaultShows ==
  ASSUME TypeOK, TableInv, CiphertextsMatch, CiphertextsMatch',
         \/ \E r \in Request : CommitFails(r)
         \/ MasterSpoiled
         \/ Crash
  PROVE  VaultStep
<1>1. /\ keys' = keys /\ faults' = faults - 1
      /\ \A n \in Name : file'[n] = file[n] \/ file'[n] = None
      /\ env' = env /\ masterFile' = masterFile /\ (readable' => readable)
      /\ master' = master \/ master' = None
  BY DEF CommitFails, MasterSpoiled, Crash, Fault, masterVars
<1>2. ASSUME NEW s \in Request
      PROVE  request'[s] = request[s] \/ request'[s] = Ended
  BY DEF CommitFails, MasterSpoiled, Crash, Goes, TypeOK
<1>3. Wrappings' = Wrappings
  BY <1>1 DEF Wrappings
<1>4. Uncommitted' \subseteq Uncommitted
  BY <1>2, EndedHoldsNoKey DEF Uncommitted
<1>5. CurrentMaster' = CurrentMaster \/ CurrentMaster' = None
  BY <1>1 DEF TableInv, CurrentMaster, Kept, Found
<1>6. \A k : <<k, None>> \notin Wrappings
  BY WrappingsType, KeychainAssumption DEF Master
<1>7. KnownKeys' \subseteq KnownKeys
  BY <1>3, <1>4, <1>5, <1>6, KnownIs
<1> QED BY <1>1, <1>7, Loses

LEMMA NextShows ==
  ASSUME TypeOK, CommitHasMaster, TableInv, CiphertextsMatch, CiphertextsMatch',
         [Next]_vars
  PROVE  VaultStep
<1>1. ASSUME NEW r \in Request, NEW next \in {"write", "rotate"}, NEW n, NEW v,
             ReadActiveKey(r, next, n, v)
      PROVE  VaultStep
  <2> DEFINE held == IF ActiveRows = {}
                     THEN [at |-> "keyless", name |-> n, value |-> v]
                     ELSE [at |-> next, name |-> n, value |-> v,
                           key |-> keys[ActiveRow].id]
  <2>1. /\ Goes(r, held) /\ keys' = keys /\ file' = file /\ faults' = faults
        /\ UNCHANGED masterVars /\ request[r].at = "waiting"
    BY <1>1 DEF ReadActiveKey, Begins, KeepRest
  <2>2. held.at # "commit"
    OBVIOUS
  <2> HIDE DEF held
  <2> QED BY <2>1, <2>2, QuietShows
<1>2. ASSUME NEW r \in Request, NEW n \in Name, Delete(r, n)
      PROVE  VaultStep
  <2>1. /\ Goes(r, Ended) /\ keys' = keys /\ UNCHANGED masterVars
        /\ request[r].at = "waiting" /\ faults' = faults
        /\ file' = [file EXCEPT ![n] = None]
    BY <1>2 DEF Delete, Begins
  <2>2. KnownKeys' = KnownKeys
    BY <2>1, KnownSame, EndedHoldsNoKey
  <2>3. Readable(n)' = None /\ \A m \in Name \ {n} : Readable(m)' = Readable(m)
    BY <2>1, <2>2, ReadableIs DEF TypeOK
  <2>4. Shown' = [Shown EXCEPT ![n] = None]
    BY <2>3 DEF Shown
  <2>5. Promise!Delete(n)
    BY <2>1, <2>4 DEF Promise!Delete, Shown
  <2> QED BY <2>5 DEF VaultStep, Promise!Next
<1>3. ASSUME NEW r \in Request, NEW n \in Name, GetReads(r, n)
      PROVE  VaultStep
  <2> DEFINE next == IF file[n] = None THEN Ended
                     ELSE [at |-> "got", entry |-> file[n]]
  <2>1. /\ Goes(r, next) /\ keys' = keys /\ file' = file /\ faults' = faults
        /\ UNCHANGED masterVars /\ request[r].at = "waiting"
    BY <1>3 DEF GetReads, Begins, KeepRest
  <2>2. next.at # "commit"
    BY EndedHoldsNoKey
  <2> HIDE DEF next
  <2> QED BY <2>1, <2>2, QuietShows
<1>4. ASSUME NEW r \in Request, GetAnswers(r)
      PROVE  VaultStep
  BY <1>4, QuietShows, EndedHoldsNoKey DEF GetAnswers, Continues, KeepRest
<1>5. ASSUME NEW r \in Request, RotateBegins(r)
      PROVE  VaultStep
  <2>1. CASE Begins(r) /\ Goes(r, Ended) /\ UNCHANGED <<masterVars, keys>> /\ KeepRest
    BY <2>1, QuietShows, EndedHoldsNoKey DEF Begins, KeepRest
  <2> QED BY <1>1, <1>5, <2>1 DEF RotateBegins
<1>6. CASE UNCHANGED vars
  <2>1. UNCHANGED <<file, faults, keys, masterVars, request>>
    BY <1>6 DEF vars
  <2>2. KnownKeys' = KnownKeys
    BY <2>1 DEF KnownKeys, Uncommitted, CurrentMaster, masterVars
  <2> QED BY <2>1, <2>2, ShowsSame
<1> QED BY <1>1, <1>2, <1>3, <1>4, <1>5, <1>6, CreateKeyShows, StoreWritesShows,
           RotateFileShows, RotateCommitsShows, FaultShows
        DEF Next, StoreBegins

\* The keychain acts as a vault of named values, also while keys are created and
\* rotated and while the server crashes, commits fail and the master file is
\* spoiled: what a name holds changes by store and delete alone, and a fault
\* only loses values.
THEOREM AlwaysActsAsVault == Spec => ActsAsVault
<1>1. Init => Promise!Init
  <2> SUFFICES ASSUME Init PROVE Promise!Init
    OBVIOUS
  <2>1. \A n \in Name : Readable(n) = None
    BY DEF Init, Readable
  <2>2. [n \in Name |-> Readable(n)] = [n \in Name |-> None]
    BY <2>1
  <2>3. faults \in Nat
    BY KeychainAssumption DEF Init
  <2> QED BY <2>2, <2>3 DEF Promise!Init
<1>2. IInv /\ IInv' /\ TableInv /\ [Next]_vars =>
        [Promise!Next]_<<[n \in Name |-> Readable(n)], faults>>
  BY NextShows DEF IInv, VaultStep, Shown
<1> QED BY <1>1, <1>2, Invariant, TableInvariant, PTL
        DEF Spec, ActsAsVault, Promise!Spec
-----------------------------------------------------------------------------
(* Requests one after the other, without faults: one active key. *)

ActiveKeys == {keys[i].id : i \in ActiveRows}

\* A request that is under way is alone and holds the active key, or has found
\* none; every entry is under that key, or under the one that is to replace it.
Serial ==
  /\ \A r, s \in Request : Running(r) /\ Running(s) => r = s
  /\ \A i, j \in ActiveRows : i = j
  /\ \A r \in Request :
       /\ request[r].at \in {"write", "rotate"} => request[r].key \in ActiveKeys
       /\ request[r].at = "keyless" => ActiveRows = {}
       /\ request[r].at = "commit" => request[r].old \in ActiveKeys
  /\ \A n \in Name : file[n] # None =>
       \/ /\ file[n].key_id \in ActiveKeys
          /\ \A r \in Request : request[r].at # "commit"
       \/ \E r \in Request : /\ request[r].at = "commit"
                             /\ file[n].key_id = request[r].new

SerialInv == ~ overlapped /\ faults = MaxFaults => Serial

\* What a request goes on to, when it is alone.
LEMMA SerialStep ==
  ASSUME TypeOK, NEW r \in Request, NEW next, Goes(r, next),
         \A s \in Request \ {r} : ~ Running(s),
         \A i, j \in ActiveRows' : i = j,
         next.at \in {"write", "rotate"} => next.key \in ActiveKeys',
         next.at = "keyless" => ActiveRows' = {},
         next.at = "commit" => next.old \in ActiveKeys',
         \A n \in Name : file'[n] # None =>
           \/ next.at # "commit" /\ file'[n].key_id \in ActiveKeys'
           \/ next.at = "commit" /\ file'[n].key_id = next.new
  PROVE  Serial'
<1>1. request'[r] = next /\ \A s \in Request \ {r} : request'[s] = request[s]
  BY OthersStay
<1>2. \A s \in Request \ {r} : request'[s].at \in {"waiting", "ended"}
  BY <1>1 DEF Running
<1>3. \A s, t \in Request : Running(s)' /\ Running(t)' => s = t
  BY <1>2 DEF Running
<1> QED BY <1>1, <1>2, <1>3 DEF Serial

LEMMA SameActive ==
  ASSUME keys' = keys
  PROVE  ActiveRows' = ActiveRows /\ ActiveKeys' = ActiveKeys
BY DEF ActiveRows, ActiveKeys

\* A request that begins and does not overlap finds no other under way, and one
\* that goes on has none beside it.
LEMMA BeginsAlone ==
  ASSUME TypeOK, NEW r \in Request, Begins(r), ~ overlapped'
  PROVE  ~ overlapped /\ \A s \in Request : ~ Running(s)
BY DEF Begins, TypeOK

LEMMA GoesOnAlone ==
  ASSUME TypeOK, Serial, NEW r \in Request, Running(r)
  PROVE  \A s \in Request \ {r} : ~ Running(s)
BY DEF Serial

\* No commit is to come when no other request is under way: the entries are
\* under the active key.
LEMMA EntriesUnderActive ==
  ASSUME Serial, NEW r \in Request, request[r].at # "commit",
         \A s \in Request \ {r} : ~ Running(s)
  PROVE  \A n \in Name : file[n] # None => file[n].key_id \in ActiveKeys
BY DEF Serial, Running

\* A step that leaves the keys alone, and writes only what is under the active
\* key.
LEMMA QuietSerial ==
  ASSUME TypeOK, Serial, NEW r \in Request, NEW next, Goes(r, next),
         request[r].at # "commit", next.at \notin {"keyless", "commit"},
         \A s \in Request \ {r} : ~ Running(s), keys' = keys,
         next.at \in {"write", "rotate"} => next.key \in ActiveKeys,
         \A n \in Name : \/ file'[n] = file[n] \/ file'[n] = None
                         \/ file'[n].key_id \in ActiveKeys
  PROVE  Serial'
<1>1. ActiveRows' = ActiveRows /\ ActiveKeys' = ActiveKeys
  BY SameActive
<1>2. \A n \in Name : file[n] # None => file[n].key_id \in ActiveKeys
  BY EntriesUnderActive
<1>3. \A i, j \in ActiveRows' : i = j
  BY <1>1 DEF Serial
<1> QED BY <1>1, <1>2, <1>3, SerialStep

LEMMA ReadActiveKeySerial ==
  ASSUME TypeOK, Serial, NEW r \in Request, NEW next \in {"write", "rotate"},
         NEW n, NEW v, ReadActiveKey(r, next, n, v), ~ overlapped'
  PROVE  Serial'
<1> DEFINE held == IF ActiveRows = {}
                   THEN [at |-> "keyless", name |-> n, value |-> v]
                   ELSE [at |-> next, name |-> n, value |-> v,
                         key |-> keys[ActiveRow].id]
<1>1. /\ Goes(r, held) /\ Begins(r) /\ keys' = keys /\ file' = file
      /\ request[r].at = "waiting"
  BY DEF ReadActiveKey, Begins, KeepRest
<1>2. \A s \in Request : ~ Running(s)
  BY <1>1, BeginsAlone
<1>3. CASE ActiveRows = {}
  <2>1. held.at = "keyless"
    BY <1>3
  <2>2. ActiveRows' = ActiveRows /\ ActiveKeys' = ActiveKeys
    BY <1>1, SameActive
  <2>3. \A m \in Name : file[m] # None => file[m].key_id \in ActiveKeys
    BY <1>1, <1>2, EntriesUnderActive
  <2>4. \A i, j \in ActiveRows' : i = j
    BY <2>2 DEF Serial
  <2> HIDE DEF held
  <2> QED BY <1>1, <1>2, <1>3, <2>1, <2>2, <2>3, <2>4, SerialStep
<1>4. CASE ActiveRows # {}
  <2>1. held.at = next /\ held.key = keys[ActiveRow].id
    BY <1>4
  <2>2. held.key \in ActiveKeys
    BY <1>4, <2>1, ActiveRowIsARow DEF ActiveKeys
  <2> HIDE DEF held
  <2> QED BY <1>1, <1>2, <2>1, <2>2, QuietSerial
<1> QED BY <1>3, <1>4

\* The first key becomes the active one.
LEMMA CreateKeySerial ==
  ASSUME TypeOK, Serial, NEW r \in Request, CreateKey(r)
  PROVE  Serial'
<1> DEFINE held == IF request[r].name = None THEN Ended
                   ELSE [at |-> "write", name |-> request[r].name,
                         value |-> request[r].value, key |-> made + 1]
           row == NewRow(made + 1, MasterKey)
<1>1. /\ Goes(r, held) /\ file' = file /\ keys' = Append(keys, row)
      /\ request[r].at = "keyless" /\ keys \in Seq(Row)
  BY DEF CreateKey, Continues, TypeOK
<1>2. row \in Row /\ row.id = made + 1 /\ row.active
  BY MasterKeyType DEF TypeOK, NewRow, Row, Key
<1>3. /\ held.at \notin {"keyless", "commit"}
      /\ held.at \in {"write", "rotate"} => held.key = made + 1
  BY DEF Ended
<1>4. ActiveRows = {}
  BY <1>1 DEF Serial
<1>5. \A n \in Name : file[n] = None
  <2>1. \A s \in Request \ {r} : ~ Running(s)
    BY <1>1, GoesOnAlone DEF Running
  <2>2. ActiveKeys = {}
    BY <1>4 DEF ActiveKeys
  <2> QED BY <1>1, <2>1, <2>2, EntriesUnderActive
<1>6. ActiveRows' = {Len(keys) + 1} /\ keys'[Len(keys) + 1] = row
  <2> HIDE DEF row
  <2>1. /\ DOMAIN keys = 1..Len(keys) /\ DOMAIN keys' = 1..(Len(keys) + 1)
        /\ Len(keys) \in Nat
        /\ \A i \in 1..Len(keys) : keys'[i] = keys[i]
        /\ keys'[Len(keys) + 1] = row
    BY <1>1, <1>2, AppendProperties
  <2>2. \A i \in DOMAIN keys : ~ keys[i].active
    BY <1>4 DEF ActiveRows
  <2>3. \A i \in DOMAIN keys' : keys'[i].active <=> i = Len(keys) + 1
    BY <1>2, <2>1, <2>2
  <2> QED BY <2>1, <2>3 DEF ActiveRows
<1>7. made + 1 \in ActiveKeys'
  BY <1>2, <1>6 DEF ActiveKeys
<1>8. \A s \in Request \ {r} : ~ Running(s)
  BY <1>1, GoesOnAlone DEF Running
<1> HIDE DEF held, row
<1>9. \A i, j \in ActiveRows' : i = j
  BY <1>6
<1> QED BY <1>1, <1>3, <1>5, <1>7, <1>8, <1>9, SerialStep

\* Every entry is under the key a rotation has read: it misses none.
LEMMA RotateFileSerial ==
  ASSUME TypeOK, CiphertextsMatch, Serial, NEW r \in Request, RotateFile(r)
  PROVE  Serial'
<1> DEFINE old == request[r].key
           next == [at |-> "commit", old |-> old, new |-> made + 1]
<1>1. /\ request[r].at = "rotate" /\ keys' = keys
      /\ \A s \in Request \ {r} : ~ Running(s)
  BY GoesOnAlone DEF RotateFile, Continues, Running
<1>2. CASE Goes(r, Ended) /\ file' = file
  BY <1>1, <1>2, QuietSerial DEF Ended
<1>3. CASE Goes(r, next) /\ file' = Reencrypted(old, made + 1)
  <2>1. old \in ActiveKeys /\ ActiveRows' = ActiveRows /\ ActiveKeys' = ActiveKeys
    BY <1>1, SameActive DEF Serial
  <2>2. \A k \in ActiveKeys : k = old
    BY <2>1 DEF ActiveKeys, Serial
  <2>3. ASSUME NEW n \in Name, file'[n] # None
        PROVE  file'[n].key_id = made + 1
    <3>1. file[n] # None
      BY <1>3, <2>3 DEF Reencrypted
    <3>2. file[n].under = old
      <4>1. file[n].key_id \in ActiveKeys
        BY <1>1, <3>1, EntriesUnderActive
      <4> QED BY <2>2, <3>1, <4>1 DEF CiphertextsMatch
    <3>3. file'[n] = [file[n] EXCEPT !.under = made + 1, !.key_id = made + 1]
      BY <1>3, <3>1, <3>2 DEF Reencrypted
    <3> QED BY <3>1, <3>3 DEF TypeOK, Entry
  <2>4. next.at = "commit" /\ next.old = old /\ next.new = made + 1
    OBVIOUS
  <2>5. \A i, j \in ActiveRows' : i = j
    BY <2>1 DEF Serial
  <2>6. next.old \in ActiveKeys'
    BY <2>1, <2>4, Zenon
  <2> HIDE DEF next
  <2> QED BY <1>1, <1>3, <2>3, <2>4, <2>5, <2>6, SerialStep
<1> QED BY <1>2, <1>3 DEF RotateFile

\* The new key replaces the active one.
LEMMA RotateCommitsSerial ==
  ASSUME TypeOK, CommitHasMaster, Serial, NEW r \in Request, RotateCommits(r)
  PROVE  Serial'
<1> DEFINE old == request[r].old
           new == request[r].new
           row == NewRow(new, master)
           kept == Deactivated(old)
<1>1. /\ Goes(r, Ended) /\ file' = file /\ keys' = Append(kept, row)
      /\ request[r].at = "commit"
      /\ \A s \in Request \ {r} : ~ Running(s)
  BY GoesOnAlone DEF RotateCommits, Continues, KeepRest, Rotated, Deactivated,
                     Running
<1>2. row \in Row /\ row.id = new /\ row.active
  BY <1>1, HeldType DEF CommitHasMaster, Committing, TypeOK, NewRow, Row
<1>3. \A n \in Name : file[n] # None => file[n].key_id = new
  BY <1>1 DEF Serial, Running
<1>4. \A i \in DOMAIN keys : keys[i].active => keys[i].id = old
  BY <1>1 DEF Serial, ActiveKeys, ActiveRows
<1>5. /\ kept \in Seq(Row) /\ DOMAIN kept = DOMAIN keys
      /\ \A i \in DOMAIN keys : ~ kept[i].active
  BY <1>4, DeactivatedRows
<1> HIDE DEF kept, row, old
<1>6. ActiveRows' = {Len(kept) + 1} /\ keys'[Len(kept) + 1] = row
  <2>1. /\ DOMAIN kept = 1..Len(kept) /\ DOMAIN keys' = 1..(Len(kept) + 1)
        /\ Len(kept) \in Nat
        /\ \A i \in 1..Len(kept) : keys'[i] = kept[i]
        /\ keys'[Len(kept) + 1] = row
    BY <1>1, <1>2, <1>5, AppendProperties
  <2>2. \A i \in DOMAIN keys' : keys'[i].active <=> i = Len(kept) + 1
    BY <1>2, <1>5, <2>1
  <2> QED BY <2>1, <2>2 DEF ActiveRows
<1>7. request[r].new \in ActiveKeys'
  BY <1>2, <1>6 DEF ActiveKeys
<1>8. \A i, j \in ActiveRows' : i = j
  BY <1>6
<1>9. Ended.at \notin {"write", "rotate", "keyless", "commit"}
  BY DEF Ended
<1> QED BY <1>1, <1>3, <1>7, <1>8, <1>9, SerialStep

LEMMA NextSerial ==
  ASSUME TypeOK, CommitHasMaster, CiphertextsMatch, Serial, [Next]_vars,
         ~ overlapped', faults' = MaxFaults
  PROVE  Serial'
<1>1. ~ Fault
  BY FaultSpends
<1>2. Ended.at \notin {"write", "rotate", "keyless", "commit"}
  BY DEF Ended
<1>3. ASSUME NEW r \in Request, NEW n \in Name, Delete(r, n)
      PROVE  Serial'
  <2>1. \A m \in Name : file'[m] = file[m] \/ file'[m] = None
    BY <1>3 DEF Delete, TypeOK
  <2>2. \A s \in Request : ~ Running(s)
    BY <1>3, BeginsAlone DEF Delete
  <2> QED BY <1>2, <1>3, <2>1, <2>2, QuietSerial DEF Delete, Begins
<1>4. ASSUME NEW r \in Request, NEW n \in Name, GetReads(r, n)
      PROVE  Serial'
  <2> DEFINE next == IF file[n] = None THEN Ended
                     ELSE [at |-> "got", entry |-> file[n]]
  <2>1. /\ Goes(r, next) /\ request[r].at = "waiting" /\ keys' = keys
        /\ file' = file
    BY <1>4 DEF GetReads, Begins, KeepRest
  <2>2. next.at \notin {"write", "rotate", "keyless", "commit"}
    BY <1>2
  <2>3. \A s \in Request : ~ Running(s)
    BY <1>4, BeginsAlone DEF GetReads
  <2> HIDE DEF next
  <2> QED BY <2>1, <2>2, <2>3, QuietSerial
<1>5. ASSUME NEW r \in Request, StoreWrites(r)
      PROVE  Serial'
  <2>1. /\ Goes(r, Ended) /\ request[r].at = "write" /\ keys' = keys
        /\ \A s \in Request \ {r} : ~ Running(s)
    BY <1>5, GoesOnAlone DEF StoreWrites, Continues, Running
  <2>2. request[r].key \in ActiveKeys
    BY <2>1 DEF Serial
  <2>3. \A m \in Name : file'[m] = file[m] \/ file'[m].key_id \in ActiveKeys
    BY <1>5, <2>2 DEF StoreWrites, TypeOK
  <2> QED BY <1>2, <2>1, <2>3, QuietSerial
<1>6. ASSUME NEW r \in Request, GetAnswers(r)
      PROVE  Serial'
  <2>1. /\ Goes(r, Ended) /\ request[r].at = "got" /\ keys' = keys
        /\ file' = file /\ \A s \in Request \ {r} : ~ Running(s)
    BY <1>6, GoesOnAlone DEF GetAnswers, Continues, KeepRest, Running
  <2> QED BY <1>2, <2>1, QuietSerial
<1>7. ASSUME NEW r \in Request, RotateBegins(r)
      PROVE  Serial'
  <2>1. CASE Begins(r) /\ Goes(r, Ended) /\ UNCHANGED <<masterVars, keys>> /\ KeepRest
    <3>1. \A s \in Request : ~ Running(s)
      BY <2>1, BeginsAlone
    <3> QED BY <1>2, <2>1, <3>1, QuietSerial DEF Begins, KeepRest
  <2> QED BY <1>7, <2>1, ReadActiveKeySerial DEF RotateBegins
<1>8. CASE UNCHANGED vars
  BY <1>8 DEF vars, Serial, Running, ActiveRows, ActiveKeys
<1> QED BY <1>1, <1>3, <1>4, <1>5, <1>6, <1>7, <1>8, ReadActiveKeySerial,
           CreateKeySerial, RotateFileSerial, RotateCommitsSerial
        DEF Next, StoreBegins, CommitFails, MasterSpoiled, Crash

\* Neither an overlap nor a fault is forgotten.
LEMMA SerialBefore ==
  ASSUME TypeOK, [Next]_vars, ~ overlapped', faults' = MaxFaults
  PROVE  ~ overlapped /\ faults = MaxFaults
<1>1. ~ Fault
  BY FaultSpends
<1>2. faults' = faults
  BY <1>1 DEF Next, StoreBegins, ReadActiveKey, Delete, GetReads, CreateKey,
       StoreWrites, GetAnswers, RotateBegins, RotateFile, RotateCommits,
       KeepRest, CommitFails, MasterSpoiled, Crash, vars
<1>3. overlapped => overlapped'
  BY <1>1 DEF Next, StoreBegins, ReadActiveKey, Delete, GetReads, CreateKey,
       StoreWrites, GetAnswers, RotateBegins, RotateFile, RotateCommits,
       Begins, Continues, CommitFails, MasterSpoiled, Crash, vars
<1> QED BY <1>2, <1>3

LEMMA SerialInvariant == Spec => []SerialInv
<1>1. Init => SerialInv
  BY DEF Init, SerialInv, Serial, Running, ActiveRows
<1>2. IInv /\ SerialInv /\ [Next]_vars => SerialInv'
  BY NextSerial, SerialBefore DEF IInv, SerialInv
<1> QED BY <1>1, <1>2, Invariant, PTL DEF Spec

\* Requests one after the other, without faults, leave one active key and every
\* value under it: rotate misses no value and store never takes a second key.
THEOREM SerialUseAlwaysKeepsOneKey == Spec => []SerialUseKeepsOneKey
<1>1. ASSUME IInv, SerialInv, ~ overlapped, faults = MaxFaults
      PROVE  /\ Cardinality(ActiveRows) <= 1
             /\ (\A r \in Request : ~ Running(r)) =>
                  \A n \in Name :
                    file[n] # None => file[n].key_id = keys[ActiveRow].id
  <2>1. TypeOK /\ Serial
    BY <1>1 DEF IInv, SerialInv
  <2>2. Cardinality(ActiveRows) <= 1
    <3>1. CASE ActiveRows = {}
      BY <3>1, FS_EmptySet
    <3>2. CASE ActiveRows # {}
      <4>1. PICK i \in ActiveRows : TRUE
        BY <3>2
      <4>2. ActiveRows = {i}
        BY <2>1, <4>1 DEF Serial
      <4>3. Cardinality({i}) = 1
        BY FS_Singleton
      <4> QED BY <4>2, <4>3
    <3> QED BY <3>1, <3>2
  <2>3. ASSUME \A r \in Request : ~ Running(r), NEW n \in Name, file[n] # None
        PROVE  file[n].key_id = keys[ActiveRow].id
    <3>1. file[n].key_id \in ActiveKeys
      BY <2>1, <2>3 DEF Serial, Running
    <3>2. PICK i \in ActiveRows : file[n].key_id = keys[i].id
      BY <3>1 DEF ActiveKeys
    <3>3. ActiveRow = i
      BY <2>1, <3>2, ActiveRowIsARow DEF Serial
    <3> QED BY <3>2, <3>3
  <2> QED BY <2>2, <2>3
<1>2. IInv /\ SerialInv => SerialUseKeepsOneKey
  BY <1>1 DEF SerialUseKeepsOneKey
<1> QED BY <1>2, Invariant, SerialInvariant, PTL
=============================================================================
