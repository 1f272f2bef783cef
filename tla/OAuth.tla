-------------------------------- MODULE OAuth --------------------------------
(***************************************************************************)
(* Accounts at other services: the PKCE flow (server/services/             *)
(* oauth_service.py), the table of their tokens (token_manager.py) and the *)
(* requests of server/api/oauth.py.  A request suspends while it waits for *)
(* the provider, and between a row's read and its commit; an action is     *)
(* what happens from one suspension to the next.  The provider is          *)
(* external: it exchanges a code once, for the verifier its flow began     *)
(* with, and may replace a refresh token each time it is used.             *)
(***************************************************************************)
EXTENDS Integers, Sequences, FiniteSets, FiniteSetsExt

CONSTANTS
  Request,    \* requests to /oauth
  State,      \* state parameters; a client may give one twice
  MaxFlows,   \* bound on authorizations
  MaxGrants,  \* bound on what the providers grant
  MaxId,      \* bound on row ids
  MaxFaults,  \* bound on lost answers, failed commits and crashes
  None

ASSUME OAuthAssumption ==
  /\ MaxFlows \in Nat /\ MaxGrants \in Nat /\ MaxId \in Nat /\ MaxFaults \in Nat
  /\ None \notin Nat

VARIABLES
  flows,     \* the state parameter of each authorization
  verifier,  \* _pkce_store: the flow whose code_verifier is kept for a state
  codes,     \* flows whose authorization code has not been exchanged
  rotates,   \* whether providers replace refresh tokens
  grants,    \* the provider's side: the version of each grant's refresh token
  rows,      \* the oauth_tokens table
  request,   \* the requests: where each is and what it holds
  faults,    \* faults still to come
  crossed    \* ids deleted under another request that had read the row

vars == <<flows, verifier, codes, rotates, grants, rows, request, faults, crossed>>
provider == <<codes, rotates, grants>>

Id == 1..MaxId
Token == [grant : 1..MaxGrants, version : Nat]
Row == [grant : 1..MaxGrants,      \* provider and account_id
        token : Token \cup {None}, \* the refresh token, if there is one
        revoked : BOOLEAN]         \* expires_at was set to the past

\* None marks an id without a row.
ASSUME RowAssumption == None \notin Row

Ended == [at |-> "ended"]
Running(r) == request[r].at \notin {"waiting", "ended"}
Goes(r, next) == request' = [request EXCEPT ![r] = next]
Begins(r) == request[r].at = "waiting"

Init ==
  /\ flows = <<>> /\ verifier = [s \in State |-> None] /\ codes = {}
  /\ rotates \in BOOLEAN /\ grants = <<>>
  /\ rows = [i \in Id |-> None]
  /\ request = [r \in Request |-> [at |-> "waiting"]]
  /\ faults = MaxFaults /\ crossed = {}

Fault == faults > 0 /\ faults' = faults - 1
-----------------------------------------------------------------------------
(* The flow. *)

\* get_authorize_url, with the client's state or a new one; the user is taken
\* to grant the access.
Authorize(s) ==
  LET flow == Len(flows) + 1
  IN /\ flow <= MaxFlows
     /\ flows' = Append(flows, s)
     /\ verifier' = [verifier EXCEPT ![s] = flow]
     /\ codes' = codes \cup {flow}
     /\ UNCHANGED <<rotates, grants, rows, request, faults, crossed>>

\* Mutant: the verifier is taken out of the store.
CallbackTakes(r, flow) ==
  /\ Begins(r)
  /\ Goes(r, [at |-> "exchange", flow |-> flow,
              verifier |-> verifier[flows[flow]]])
  /\ verifier' = [verifier EXCEPT ![flows[flow]] = None]
  /\ UNCHANGED <<flows, provider, rows, faults, crossed>>

\* exchange_code reads the verifier and asks the provider.
Callback(r, flow) ==
  /\ Begins(r)
  /\ Goes(r, [at |-> "exchange", flow |-> flow,
              verifier |-> verifier[flows[flow]]])
  /\ UNCHANGED <<flows, verifier, provider, rows, faults, crossed>>

\* The first token of a new grant; some providers give no refresh token.
Granted ==
  LET grant == Len(grants) + 1
  IN {[grant |-> grant, token |-> t, revoked |-> FALSE] :
        t \in {None, [grant |-> grant, version |-> 1]}}

\* The provider accepts the code ...
Exchange(r) ==
  LET held == request[r]
  IN /\ held.at = "exchange"
     /\ held.flow \in codes /\ held.verifier = held.flow
     /\ Len(grants) < MaxGrants
     /\ codes' = codes \ {held.flow}
     /\ grants' = Append(grants, 1)
     /\ UNCHANGED <<flows, verifier, rotates, rows, crossed>>
Exchanged(r) ==
  /\ Exchange(r)
  /\ \E row \in Granted :
       Goes(r, [at |-> "store", row |-> row, flow |-> request[r].flow])
  /\ UNCHANGED faults
\* ... and its answer may be lost.
ExchangeLost(r) == Exchange(r) /\ Goes(r, Ended) /\ Fault

\* The provider refuses, or cannot be reached; the code is not spent.
AskingFails(r) ==
  /\ request[r].at \in {"exchange", "ask"}
  /\ Goes(r, Ended)
  /\ UNCHANGED <<flows, verifier, provider, rows, faults, crossed>>

\* POST /oauth/tokens: a token obtained in some other way.
StoreManually(r) ==
  /\ Begins(r) /\ Len(grants) < MaxGrants
  /\ grants' = Append(grants, 1)
  /\ \E row \in Granted : Goes(r, [at |-> "store", row |-> row, flow |-> None])
  /\ UNCHANGED <<flows, verifier, codes, rotates, rows, faults, crossed>>

\* The id of a deleted last row is given out again (no AUTOINCREMENT).
NewId == 1 + Max({0} \cup {i \in Id : rows[i] # None})

\* store_token.
StoreToken(r) ==
  /\ request[r].at = "store" /\ NewId \in Id
  /\ rows' = [rows EXCEPT ![NewId] = request[r].row]
  /\ Goes(r, IF request[r].flow = None THEN Ended
             ELSE [at |-> "clean", flow |-> request[r].flow])
  /\ UNCHANGED <<flows, verifier, provider, faults, crossed>>

\* exchange_code drops the verifier of the state, whoever's it is by now.
CleanUp(r) ==
  /\ request[r].at = "clean"
  /\ verifier' = [verifier EXCEPT ![flows[request[r].flow]] = None]
  /\ Goes(r, Ended)
  /\ UNCHANGED <<flows, provider, rows, faults, crossed>>
-----------------------------------------------------------------------------
(* Requests on a row that is there. *)

\* refresh_token, revoke_token and delete_token load the row.
Load(r, op, id) ==
  LET row == rows[id]
  IN /\ Begins(r)
     /\ Goes(r, IF row = None \/ (op = "refresh" /\ row.token = None) THEN Ended
                ELSE [at |-> IF op = "refresh" THEN "ask" ELSE "commit",
                      op |-> op, id |-> id, token |-> row.token])
     /\ UNCHANGED <<flows, verifier, provider, rows, faults, crossed>>

\* The provider accepts the refresh token it gave last; with a new one, the
\* old one is spent.
Refresh(r) ==
  LET token == request[r].token
  IN /\ request[r].at = "ask"
     /\ token.version = grants[token.grant]
     /\ grants' = [grants EXCEPT ![token.grant] = IF rotates THEN @ + 1 ELSE @]
     /\ UNCHANGED <<flows, verifier, codes, rotates, rows, crossed>>
Refreshed(r) ==
  /\ Refresh(r)
  /\ \E expires \in BOOLEAN :
       Goes(r, [at |-> "commit", op |-> "refresh", id |-> request[r].id,
                read |-> request[r].token, expires |-> expires,
                token |-> [request[r].token EXCEPT
                             !.version = grants'[request[r].token.grant]]])
  /\ UNCHANGED faults
RefreshLost(r) == Refresh(r) /\ Goes(r, Ended) /\ Fault

\* Each commit ends its request; the UPDATE of a row that has gone raises.
Commits(r, op) ==
  /\ request[r].at = "commit" /\ request[r].op = op
  /\ Goes(r, Ended)
  /\ UNCHANGED <<flows, verifier, provider, faults>>

\* Mutant: a new refresh token is not stored.
CommitRefreshKeepsToken(r) ==
  LET held == request[r]
  IN /\ Commits(r, "refresh")
     /\ rows' = IF rows[held.id] = None THEN rows
                ELSE [rows EXCEPT
                       ![held.id].revoked = IF held.expires THEN FALSE ELSE @]
     /\ UNCHANGED crossed

\* The columns that differ from what was read; a new time of expiry ends a
\* revocation.
CommitRefresh(r) ==
  LET held == request[r]
  IN /\ Commits(r, "refresh")
     /\ rows' = IF rows[held.id] = None THEN rows
                ELSE [rows EXCEPT
                       ![held.id].token = IF held.token # held.read
                                          THEN held.token ELSE @,
                       ![held.id].revoked = IF held.expires THEN FALSE ELSE @]
     /\ UNCHANGED crossed

CommitRevoke(r) ==
  LET id == request[r].id
  IN /\ Commits(r, "revoke")
     /\ rows' = IF rows[id] = None THEN rows
                ELSE [rows EXCEPT ![id].revoked = TRUE]
     /\ UNCHANGED crossed

CommitDelete(r) ==
  LET id == request[r].id
  IN /\ Commits(r, "delete")
     /\ rows' = [rows EXCEPT ![id] = None]
     /\ crossed' =
          IF \E s \in Request \ {r} :
               request[s].at \in {"ask", "commit"} /\ request[s].id = id
          THEN crossed \cup {id} ELSE crossed
-----------------------------------------------------------------------------
(* Faults. *)

CommitFails(r) ==
  /\ Fault
  /\ request[r].at \in {"store", "commit"}
  /\ Goes(r, Ended)
  /\ UNCHANGED <<flows, verifier, provider, rows, crossed>>

\* The server is killed and started again: verifiers are only in memory.
Crash ==
  /\ Fault
  /\ verifier' = [s \in State |-> None]
  /\ request' = [r \in Request |-> IF Running(r) THEN Ended ELSE request[r]]
  /\ UNCHANGED <<flows, provider, rows, crossed>>

Next ==
  \/ \E s \in State : Authorize(s)
  \/ \E r \in Request :
       \/ \E flow \in 1..Len(flows) : Callback(r, flow)
       \/ Exchanged(r) \/ ExchangeLost(r) \/ AskingFails(r)
       \/ StoreManually(r) \/ StoreToken(r) \/ CleanUp(r)
       \/ \E id \in Id, op \in {"refresh", "revoke", "delete"} : Load(r, op, id)
       \/ Refreshed(r) \/ RefreshLost(r)
       \/ CommitRefresh(r) \/ CommitRevoke(r) \/ CommitDelete(r)
       \/ CommitFails(r)
  \/ Crash

Spec == Init /\ [][Next]_vars
-----------------------------------------------------------------------------
(* Properties. *)

\* A token a refresh has been given and is about to store.
OnItsWay(id, token) ==
  \E r \in Request :
    /\ request[r].at = "commit" /\ request[r].op = "refresh"
    /\ request[r].id = id /\ request[r].token = token

\* However refreshes, revocations and new tokens overlap, a row's refresh
\* token is its own account's and the one the provider accepts, or a refresh
\* is about to store that.  Excepted are lost answers and commits (the spent
\* token then stays, and the account must be authorized anew), and a row
\* deleted under a refresh: the next row is given its id, and the tokens of
\* the deleted row's account with it.
TokensStayUsable ==
  faults = MaxFaults =>
    \A id \in Id \ crossed :
      rows[id] # None /\ rows[id].token # None =>
        LET grant == rows[id].grant
            usable == [grant |-> grant, version |-> grants[grant]]
        IN rows[id].token = usable \/ OnItsWay(id, usable)

\* A callback that failed can be sent again: while a code has not been
\* exchanged its verifier is kept, unless the server was restarted or the
\* client used the state for another flow.
CodesKeepTheirVerifier ==
  faults = MaxFaults =>
    \A flow \in codes :
      (\A other \in DOMAIN flows \ {flow} : flows[other] # flows[flow])
        => verifier[flows[flow]] = flow
=============================================================================
