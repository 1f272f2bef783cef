------------------------------ MODULE Keychain ------------------------------
(***************************************************************************)
(* The keychain (server/services/keychain.py), its key rotation            *)
(* (key_rotation.py) and the requests of server/api/security.py that use   *)
(* them.  Values are encrypted under a data key and kept in a file; data   *)
(* keys are rows of a table, encrypted under the master key, which comes   *)
(* from the environment or from a file of its own.  The files are read and *)
(* written without suspending; a request suspends at its database calls,   *)
(* so an action is what it does from one of them to the next.              *)
(***************************************************************************)
EXTENDS Integers, Sequences, FiniteSets, SequencesExt

CONSTANTS
  Request,    \* requests to /security/keychain and /security/key-rotation
  Name,       \* names values are stored under
  Value,
  MaxFaults,  \* bound on crashes, failed commits and spoiled master files
  None

ASSUME KeychainAssumption ==
  /\ MaxFaults \in Nat
  /\ None \notin Nat /\ None \notin Value

VARIABLES
  env,         \* whether NEBULA_MASTER_KEY gives the master key
  masterFile,  \* which master key data/.master_key holds, 0 before the first
  readable,    \* whether that file can still be read
  master,      \* the process's _master_key, None until it is needed
  keys,        \* the EncryptionKey rows, oldest first
  made,        \* data keys generated so far; a new one's id is the next number
  file,        \* data/keychain.json: the entry of each name
  request,     \* the requests: where each is and what it holds
  faults,      \* faults still to come
  overlapped   \* whether two requests ever ran at a time

masterVars == <<env, masterFile, readable, master>>
vars == <<masterVars, keys, made, file, request, faults, overlapped>>

EnvKey == 0    \* master keys: the environment's, and those of the file, 1, 2..
Master == Nat
Key == Nat
Row == [id : Key, wrapped : Master, active : BOOLEAN]
Entry == [under : Key,    \* the data key the ciphertext was made with
          key_id : Key, value : Value]

\* None marks a name without an entry.
ASSUME EntryAssumption == None \notin Entry

Ended == [at |-> "ended"]
Running(r) == request[r].at \notin {"waiting", "ended"}
Goes(r, next) == request' = [request EXCEPT ![r] = next]

\* A request begins; beside another that is under way, it overlaps.
Begins(r) ==
  /\ request[r].at = "waiting"
  /\ overlapped' = (overlapped \/ \E s \in Request : Running(s))
Continues(r, at) == request[r].at = at /\ UNCHANGED overlapped
-----------------------------------------------------------------------------
(* The master key and the data keys. *)

\* Mutant: the key is looked up again each time.
MasterKeyUncached ==
  IF env THEN EnvKey
  ELSE IF masterFile # 0 /\ readable THEN masterFile
  ELSE masterFile + 1

\* What _get_master_key returns.
MasterKey ==
  IF master # None THEN master
  ELSE IF env THEN EnvKey
  ELSE IF masterFile # 0 /\ readable THEN masterFile
  ELSE masterFile + 1

\* What it leaves behind: a file that cannot be read is replaced by one with a
\* new key, as if there had been none.
GetMasterKey ==
  /\ master' = MasterKey
  /\ masterFile' = IF MasterKey = EnvKey THEN masterFile ELSE MasterKey
  /\ readable' = (readable \/ masterFile' # masterFile)
  /\ UNCHANGED env

ActiveRows == {i \in DOMAIN keys : keys[i].active}
\* The newest of the active rows, if there is one.
ActiveRow == CHOOSE i \in ActiveRows : \A j \in ActiveRows : j <= i

NewRow(id, m) == [id |-> id, wrapped |-> m, active |-> TRUE]
-----------------------------------------------------------------------------
Init ==
  /\ env \in BOOLEAN /\ masterFile = 0 /\ readable = TRUE /\ master = None
  /\ keys = <<>> /\ made = 0
  /\ file = [n \in Name |-> None]
  /\ request = [r \in Request |-> [at |-> "waiting"]]
  /\ faults = MaxFaults /\ overlapped = FALSE

KeepRest == UNCHANGED <<file, made, faults>>

\* store, and rotate for no name, look for the active key first.
ReadActiveKey(r, next, n, v) ==
  /\ Begins(r)
  /\ Goes(r, IF ActiveRows = {}
             THEN [at |-> "keyless", name |-> n, value |-> v]
             ELSE [at |-> next, name |-> n, value |-> v,
                   key |-> keys[ActiveRow].id])
  /\ UNCHANGED <<masterVars, keys>> /\ KeepRest

StoreBegins(r, n, v) == ReadActiveKey(r, "write", n, v)

\* _create_active_data_key: whoever found no key commits a new one.
CreateKey(r) ==
  /\ Continues(r, "keyless")
  /\ GetMasterKey
  /\ keys' = Append(keys, NewRow(made + 1, MasterKey))
  /\ made' = made + 1
  /\ Goes(r, IF request[r].name = None THEN Ended
             ELSE [at |-> "write", name |-> request[r].name,
                   value |-> request[r].value, key |-> made + 1])
  /\ UNCHANGED <<file, faults>>

Wrapping(id) == keys[CHOOSE i \in DOMAIN keys : keys[i].id = id].wrapped

\* store writes the entry; a data key under another master key raises.
StoreWrites(r) ==
  LET held == request[r]
  IN /\ Continues(r, "write")
     /\ GetMasterKey
     /\ file' = IF Wrapping(held.key) # MasterKey THEN file
                ELSE [file EXCEPT ![held.name] =
                        [under |-> held.key, key_id |-> held.key,
                         value |-> held.value]]
     /\ Goes(r, Ended)
     /\ UNCHANGED <<keys, made, faults>>

\* delete never suspends.
Delete(r, n) ==
  /\ Begins(r)
  /\ file' = [file EXCEPT ![n] = None]
  /\ Goes(r, Ended)
  /\ UNCHANGED <<masterVars, keys, made, faults>>

\* get reads the file, and then looks for the key the entry names ...
GetReads(r, n) ==
  /\ Begins(r)
  /\ Goes(r, IF file[n] = None THEN Ended
             ELSE [at |-> "got", entry |-> file[n]])
  /\ UNCHANGED <<masterVars, keys>> /\ KeepRest

\* ... which needs the master key when there is one.
GetAnswers(r) ==
  /\ Continues(r, "got")
  /\ IF \E i \in DOMAIN keys : keys[i].id = request[r].entry.key_id
     THEN GetMasterKey ELSE UNCHANGED masterVars
  /\ Goes(r, Ended)
  /\ UNCHANGED keys /\ KeepRest

\* A rotation that is not forced ends where the key is young enough.
RotateBegins(r) ==
  \/ ReadActiveKey(r, "rotate", None, None)
  \/ /\ Begins(r) /\ ActiveRows # {}
     /\ Goes(r, Ended)
     /\ UNCHANGED <<masterVars, keys>> /\ KeepRest

\* Only what the old key decrypts is encrypted anew.
Reencrypted(old, new) ==
  [n \in Name |->
     IF file[n] # None /\ file[n].under = old
     THEN [file[n] EXCEPT !.under = new, !.key_id = new] ELSE file[n]]

\* rotate writes the file under the new key ...
RotateFile(r) ==
  LET old == request[r].key IN
  /\ Continues(r, "rotate")
  /\ GetMasterKey
  /\ IF Wrapping(old) # MasterKey
     THEN Goes(r, Ended) /\ UNCHANGED <<file, made>>
     ELSE /\ file' = Reencrypted(old, made + 1)
          /\ made' = made + 1
          /\ Goes(r, [at |-> "commit", old |-> old, new |-> made + 1])
  /\ UNCHANGED <<keys, faults>>

\* Mutant: the old key stays active.
RotatedBeside(old, new) == Append(keys, NewRow(new, master))

\* Mutant: the old key is thrown away.
RotatedInPlace(old, new) ==
  Append(SelectSeq(keys, LAMBDA k : k.id # old), NewRow(new, master))

Rotated(old, new) ==
  Append([i \in DOMAIN keys |->
            IF keys[i].id = old THEN [keys[i] EXCEPT !.active = FALSE]
            ELSE keys[i]],
         NewRow(new, master))

\* ... and then commits that key's row.
RotateCommits(r) ==
  /\ Continues(r, "commit")
  /\ keys' = Rotated(request[r].old, request[r].new)
  /\ Goes(r, Ended)
  /\ UNCHANGED masterVars /\ KeepRest
-----------------------------------------------------------------------------
(* Faults. *)

Fault == faults > 0 /\ faults' = faults - 1

CommitFails(r) ==
  /\ Fault
  /\ request[r].at \in {"keyless", "commit"}
  /\ Goes(r, Ended)
  /\ UNCHANGED <<masterVars, keys, made, file, overlapped>>

\* The master file is damaged, or belongs to another account (DPAPI).
MasterSpoiled ==
  /\ Fault
  /\ masterFile # 0 /\ readable' = FALSE
  /\ UNCHANGED <<env, masterFile, master, keys, made, file, request,
                 overlapped>>

\* The server is killed and started again.  Killed while it writes
\* keychain.json (also for a delete, which is then sent again) it leaves a
\* file that is read as {}.
Crash ==
  /\ Fault
  /\ \/ UNCHANGED file
     \/ /\ \E r \in Request : request[r].at \in {"waiting", "write", "rotate"}
        /\ file' = [n \in Name |-> None]
  /\ master' = None
  /\ request' = [r \in Request |-> IF Running(r) THEN Ended ELSE request[r]]
  /\ UNCHANGED <<env, masterFile, readable, keys, made, overlapped>>

Next ==
  \/ \E r \in Request :
       \/ \E n \in Name :
            \/ \E v \in Value : StoreBegins(r, n, v)
            \/ Delete(r, n) \/ GetReads(r, n)
       \/ CreateKey(r) \/ StoreWrites(r) \/ GetAnswers(r)
       \/ RotateBegins(r) \/ RotateFile(r) \/ RotateCommits(r)
       \/ CommitFails(r)
  \/ MasterSpoiled \/ Crash

Spec == Init /\ [][Next]_vars
-----------------------------------------------------------------------------
(* Properties. *)

\* A value is encrypted under the key its entry names, in the file and in
\* what a get has read of it (_decrypt would raise otherwise).
CiphertextsMatch ==
  /\ \A n \in Name : file[n] # None => file[n].under = file[n].key_id
  /\ \A r \in Request :
       request[r].at = "got" =>
         request[r].entry.under = request[r].entry.key_id

\* The master key the process has, or would get.
CurrentMaster ==
  IF master # None THEN master
  ELSE IF env THEN EnvKey
  ELSE IF masterFile # 0 /\ readable THEN masterFile ELSE None

\* Keys rotations have generated but not committed.
Uncommitted ==
  {request[r].new : r \in {s \in Request : request[s].at = "commit"}}
KnownKeys ==
  Uncommitted \cup
  {keys[i].id : i \in {j \in DOMAIN keys : keys[j].wrapped = CurrentMaster}}

\* Without faults, whatever stores, rotations and creations of the first key
\* overlap, the key of every value is in the table, or about to be
\* committed by the rotation that wrote it.
KeysAreKnown ==
  faults = MaxFaults =>
    \A n \in Name : file[n] # None => file[n].key_id \in KnownKeys

\* Requests one after the other leave one active key, and every value under
\* it: a rotation misses nothing.  (Overlapping ones may leave two active
\* keys, and a value under a retired one.)
SerialUseKeepsOneKey ==
  ~overlapped /\ faults = MaxFaults =>
    /\ Cardinality(ActiveRows) <= 1
    /\ (\A r \in Request : ~Running(r)) =>
         \A n \in Name :
           file[n] # None => file[n].key_id = keys[ActiveRow].id

\* The promise: a store of named values, which changes by the requests alone;
\* key creation and rotation do not show, and faults only lose values.
Readable(n) ==
  IF /\ file[n] # None
     /\ file[n].under = file[n].key_id
     /\ file[n].key_id \in KnownKeys
  THEN file[n].value ELSE None
Promise == INSTANCE Vault WITH stored <- [n \in Name |-> Readable(n)]
ActsAsVault == Promise!Spec
=============================================================================
