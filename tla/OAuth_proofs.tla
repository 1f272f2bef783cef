---------------------------- MODULE OAuth_proofs ----------------------------
(***************************************************************************)
(* Theorems about OAuth, for every number of requests, states, flows,      *)
(* grants, rows and faults: a callback that failed can be sent again, and  *)
(* the token of a row stays usable.                                        *)
(***************************************************************************)
EXTENDS OAuth, WellFoundedInduction, TLAPS

Flow == DOMAIN flows

\* Requests that came from a callback name a flow that began; once the code
\* has been exchanged it is spent.
SpentCodesAreGone ==
  \A r \in Request :
    /\ request[r].at = "exchange" => request[r].flow \in Flow
    /\ request[r].at \in {"store", "clean"} /\ request[r].flow # None =>
         request[r].flow \in Flow \ codes
    /\ request[r].at = "clean" => request[r].flow # None

TypeInv ==
  /\ flows \in Seq(State)
  /\ codes \subseteq Flow
  /\ DOMAIN verifier = State
  /\ verifier = [s \in State |-> verifier[s]]
  /\ DOMAIN request = Request
  /\ request = [r \in Request |-> request[r]]
  /\ faults \in 0..MaxFaults

\* The inductive invariant.
IInv == TypeInv /\ SpentCodesAreGone /\ CodesKeepTheirVerifier
-----------------------------------------------------------------------------
LEMMA InitIInv == ASSUME Init PROVE IInv
BY OAuthAssumption
   DEF Init, IInv, TypeInv, SpentCodesAreGone, CodesKeepTheirVerifier, Flow

\* Every request's step sets where that request is and leaves the others.
LEMMA GoesOthers ==
  ASSUME TypeInv, NEW r \in Request, NEW next, Goes(r, next)
  PROVE  /\ DOMAIN request' = Request
         /\ request' = [s \in Request |-> request'[s]]
         /\ request'[r] = next
         /\ \A s \in Request \ {r} : request'[s] = request[s]
BY DEF TypeInv, Goes

\* A flow begins: its state's verifier is the new one's, and another flow with
\* that state is no longer alone with it.
LEMMA AuthorizeKeepsIInv ==
  ASSUME IInv, NEW s \in State, Authorize(s)
  PROVE  IInv'
<1> DEFINE flow == Len(flows) + 1
<1>1. /\ flows' = Append(flows, s) /\ verifier' = [verifier EXCEPT ![s] = flow]
      /\ codes' = codes \cup {flow} /\ UNCHANGED <<request, faults>>
  BY DEF Authorize
<1>2. /\ flows' \in Seq(State) /\ Flow' = Flow \cup {flow} /\ flow \notin Flow
      /\ \A f \in Flow : flows'[f] = flows[f]
      /\ flows'[flow] = s
  BY <1>1 DEF IInv, TypeInv, Flow
<1> HIDE DEF flow
<1>3. TypeInv' BY <1>1, <1>2 DEF IInv, TypeInv
<1>4. SpentCodesAreGone' BY <1>1, <1>2 DEF IInv, SpentCodesAreGone
<1>5. CodesKeepTheirVerifier'
  <2> SUFFICES ASSUME faults' = MaxFaults, NEW f \in codes',
                      \A other \in Flow' \ {f} : flows'[other] # flows'[f]
               PROVE  verifier'[flows'[f]] = f
    BY DEF CodesKeepTheirVerifier, Flow
  <2>1. CASE f = flow BY <1>1, <1>2, <2>1 DEF IInv, TypeInv
  <2>2. CASE f # flow
    <3>1. f \in codes /\ f \in Flow /\ flows[f] # s
      BY <1>1, <1>2, <2>2 DEF IInv, TypeInv
    <3>2. \A other \in Flow \ {f} : flows[other] # flows[f]
      BY <1>2, <3>1
    <3>3. verifier[flows[f]] = f
      BY <1>1, <3>1, <3>2 DEF IInv, CodesKeepTheirVerifier, Flow
    <3>4. flows[f] \in State BY <3>1 DEF IInv, TypeInv, Flow
    <3>5. verifier'[flows[f]] = verifier[flows[f]]
      BY <1>1, <3>1, <3>4 DEF IInv, TypeInv
    <3> QED BY <1>2, <3>1, <3>3, <3>5
  <2> QED BY <2>1, <2>2
<1> QED BY <1>3, <1>4, <1>5 DEF IInv

\* A step that leaves flows and verifiers alone and adds no code.
LEMMA QuietStepKeepsIInv ==
  ASSUME IInv, UNCHANGED <<flows, verifier>>, codes' \subseteq codes,
         faults' \in 0..MaxFaults, faults' <= faults,
         NEW r \in Request, NEW next, Goes(r, next),
         next.at = "exchange" => next.flow \in Flow,
         next.at \in {"store", "clean"} /\ next.flow # None =>
           next.flow \in Flow \ codes',
         next.at = "clean" => next.flow # None
  PROVE  IInv'
<1>1. TypeInv' BY GoesOthers DEF IInv, TypeInv, Flow
<1>2. SpentCodesAreGone'
  BY GoesOthers DEF IInv, SpentCodesAreGone, Flow
<1>3. CodesKeepTheirVerifier'
  BY OAuthAssumption DEF IInv, TypeInv, CodesKeepTheirVerifier
<1> QED BY <1>1, <1>2, <1>3 DEF IInv

\* The clean-up takes the verifier of a spent code, or of a flow that shares
\* its state with another.
LEMMA CleanUpKeepsIInv ==
  ASSUME IInv, NEW r \in Request, CleanUp(r)
  PROVE  IInv'
<1> DEFINE f == request[r].flow
<1>1. /\ f \in Flow \ codes
      /\ verifier' = [verifier EXCEPT ![flows[f]] = None]
      /\ Goes(r, Ended) /\ UNCHANGED <<flows, codes, faults>>
  BY DEF CleanUp, IInv, SpentCodesAreGone, provider
<1> HIDE DEF f
<1>2. TypeInv' BY <1>1, GoesOthers DEF IInv, TypeInv, Flow
<1>3. SpentCodesAreGone'
  BY <1>1, GoesOthers DEF IInv, SpentCodesAreGone, Flow, Ended
<1>4. CodesKeepTheirVerifier'
  <2> SUFFICES ASSUME faults = MaxFaults, NEW g \in codes,
                      \A other \in Flow \ {g} : flows[other] # flows[g]
               PROVE  verifier'[flows[g]] = g
    BY <1>1 DEF CodesKeepTheirVerifier, Flow
  <2>1. flows[f] # flows[g] BY <1>1
  <2>2. verifier[flows[g]] = g BY DEF IInv, CodesKeepTheirVerifier, Flow
  <2> QED BY <1>1, <2>1, <2>2 DEF IInv, TypeInv, Flow
<1> QED BY <1>2, <1>3, <1>4 DEF IInv

LEMMA FaultSpendsOne ==
  ASSUME TypeInv, Fault
  PROVE  faults' \in 0..MaxFaults /\ faults' < faults /\ faults' # MaxFaults
BY OAuthAssumption DEF TypeInv, Fault

LEMMA NextIInv == ASSUME IInv, [Next]_vars PROVE IInv'
<1> USE OAuthAssumption DEF Ended, provider
<1>0. faults \in 0..MaxFaults /\ faults <= faults BY DEF IInv, TypeInv
<1>1. ASSUME NEW s \in State, Authorize(s) PROVE IInv'
  BY <1>1, AuthorizeKeepsIInv
<1>2. ASSUME NEW r \in Request, NEW f \in 1..Len(flows), Callback(r, f)
      PROVE  IInv'
  <2>1. f \in Flow BY DEF IInv, TypeInv, Flow
  <2> QED BY <1>0, <1>2, <2>1, QuietStepKeepsIInv DEF Callback
<1>3. ASSUME NEW r \in Request, Exchanged(r) PROVE IInv'
  <2>1. PICK row \in Granted :
          Goes(r, [at |-> "store", row |-> row, flow |-> request[r].flow])
    BY <1>3 DEF Exchanged
  <2>2. /\ UNCHANGED <<flows, verifier, faults>>
        /\ codes' = codes \ {request[r].flow} /\ request[r].flow \in Flow
    BY <1>3 DEF Exchanged, Exchange, IInv, SpentCodesAreGone
  <2> QED BY <1>0, <2>1, <2>2, QuietStepKeepsIInv
<1>4. ASSUME NEW r \in Request, ExchangeLost(r) PROVE IInv'
  <2>1. /\ UNCHANGED <<flows, verifier>> /\ codes' \subseteq codes
        /\ Goes(r, Ended)
    BY <1>4 DEF ExchangeLost, Exchange
  <2>2. faults' \in 0..MaxFaults /\ faults' <= faults
    BY <1>0, <1>4, FaultSpendsOne DEF ExchangeLost, IInv
  <2> QED BY <2>1, <2>2, QuietStepKeepsIInv
<1>5. ASSUME NEW r \in Request, AskingFails(r) PROVE IInv'
  BY <1>0, <1>5, QuietStepKeepsIInv DEF AskingFails
<1>6. ASSUME NEW r \in Request, StoreManually(r) PROVE IInv'
  <2>1. PICK row \in Granted :
          Goes(r, [at |-> "store", row |-> row, flow |-> None])
    BY <1>6 DEF StoreManually
  <2>2. UNCHANGED <<flows, verifier, codes, faults>>
    BY <1>6 DEF StoreManually
  <2> QED BY <1>0, <2>1, <2>2, QuietStepKeepsIInv
<1>7. ASSUME NEW r \in Request, StoreToken(r) PROVE IInv'
  <2>1. UNCHANGED <<flows, verifier, codes, faults>>
        /\ request[r].at = "store"
    BY <1>7 DEF StoreToken
  <2>2. CASE request[r].flow = None
    BY <1>0, <1>7, <2>1, <2>2, QuietStepKeepsIInv DEF StoreToken
  <2>3. CASE request[r].flow # None
    <3>1. Goes(r, [at |-> "clean", flow |-> request[r].flow])
          /\ request[r].flow \in Flow \ codes
      BY <1>7, <2>1, <2>3 DEF StoreToken, IInv, SpentCodesAreGone
    <3> QED BY <1>0, <2>1, <2>3, <3>1, QuietStepKeepsIInv
  <2> QED BY <2>2, <2>3
<1>8. ASSUME NEW r \in Request, CleanUp(r) PROVE IInv'
  BY <1>8, CleanUpKeepsIInv
<1>9. ASSUME NEW r \in Request, NEW id \in Id,
             NEW op \in {"refresh", "revoke", "delete"}, Load(r, op, id)
      PROVE  IInv'
  <2>1. UNCHANGED <<flows, verifier, codes, faults>>
    BY <1>9 DEF Load
  <2>2. CASE Goes(r, Ended) BY <1>0, <2>1, <2>2, QuietStepKeepsIInv
  <2>3. ASSUME NEW at \in {"ask", "commit"},
               Goes(r, [at |-> at, op |-> op, id |-> id,
                        token |-> rows[id].token])
        PROVE  IInv'
    BY <1>0, <2>1, <2>3, QuietStepKeepsIInv
  <2> QED BY <1>9, <2>2, <2>3 DEF Load
<1>10. ASSUME NEW r \in Request, Refreshed(r) PROVE IInv'
  <2>1. UNCHANGED <<flows, verifier, codes, faults>>
    BY <1>10 DEF Refreshed, Refresh
  <2>2. PICK next : Goes(r, next) /\ next.at = "commit"
    BY <1>10 DEF Refreshed
  <2> QED BY <1>0, <2>1, <2>2, QuietStepKeepsIInv
<1>11. ASSUME NEW r \in Request, RefreshLost(r) PROVE IInv'
  <2>1. UNCHANGED <<flows, verifier, codes>> /\ Goes(r, Ended)
    BY <1>11 DEF RefreshLost, Refresh
  <2>2. faults' \in 0..MaxFaults /\ faults' <= faults
    BY <1>0, <1>11, FaultSpendsOne DEF RefreshLost, IInv
  <2> QED BY <2>1, <2>2, QuietStepKeepsIInv
<1>12. ASSUME NEW r \in Request,
              CommitRefresh(r) \/ CommitRevoke(r) \/ CommitDelete(r)
       PROVE  IInv'
  <2>1. UNCHANGED <<flows, verifier, codes, faults>> /\ Goes(r, Ended)
    BY <1>12 DEF CommitRefresh, CommitRevoke, CommitDelete, Commits
  <2> QED BY <1>0, <2>1, QuietStepKeepsIInv
<1>13. ASSUME NEW r \in Request, CommitFails(r) PROVE IInv'
  <2>1. UNCHANGED <<flows, verifier, codes>> /\ Goes(r, Ended)
    BY <1>13 DEF CommitFails
  <2>2. faults' \in 0..MaxFaults /\ faults' <= faults
    BY <1>0, <1>13, FaultSpendsOne DEF CommitFails, IInv
  <2> QED BY <2>1, <2>2, QuietStepKeepsIInv
<1>14. CASE Crash
  <2>1. faults' \in 0..MaxFaults /\ faults' # MaxFaults
    BY <1>14, FaultSpendsOne DEF Crash, IInv
  <2>2. /\ verifier' = [s \in State |-> None] /\ UNCHANGED <<flows, codes>>
        /\ request' = [r \in Request |-> IF Running(r) THEN Ended
                                         ELSE request[r]]
    BY <1>14 DEF Crash
  <2>3. TypeInv' BY <2>1, <2>2 DEF IInv, TypeInv, Flow
  <2>4. SpentCodesAreGone' BY <2>2 DEF IInv, SpentCodesAreGone, Flow
  <2> QED BY <2>1, <2>3, <2>4 DEF IInv, CodesKeepTheirVerifier
<1>15. CASE UNCHANGED vars
  BY <1>15 DEF vars, IInv, TypeInv, SpentCodesAreGone,
               CodesKeepTheirVerifier, Flow
<1> QED
  BY <1>1, <1>2, <1>3, <1>4, <1>5, <1>6, <1>7, <1>8, <1>9, <1>10, <1>11,
     <1>12, <1>13, <1>14, <1>15 DEF Next

\* A callback that failed can be sent again: exchange_code keeps the verifier
\* of a state until the provider has taken its code, however other flows,
\* callbacks and clean-ups interleave, unless the server was restarted or the
\* client used the state for another flow.
THEOREM CodesAlwaysKeepTheirVerifier == Spec => []CodesKeepTheirVerifier
<1>1. IInv => CodesKeepTheirVerifier BY DEF IInv
<1> QED BY <1>1, InitIInv, NextIInv, PTL DEF Spec
-----------------------------------------------------------------------------
(* Tokens stay usable. *)

\* A request that has loaded row i; one that refreshes its token; one that has
\* been given a new token for it.
Holds(r, i) == request[r].at \in {"ask", "commit"} /\ request[r].id = i
Refreshes(r, i) == Holds(r, i) /\ request[r].op = "refresh"
Brings(r, i) ==
  /\ request[r].at = "commit" /\ request[r].id = i
  /\ request[r].op = "refresh" /\ request[r].token # request[r].read

\* The token of a row's account that the provider accepts.
Usable(i) == [grant |-> rows[i].grant, version |-> grants[rows[i].grant]]
HasToken(i) == rows[i] # None /\ rows[i].token # None

RowsTyped ==
  /\ grants \in Seq(Nat) /\ Len(grants) <= MaxGrants
  /\ rows \in [Id -> Row \cup {None}]
  /\ \A r \in Request :
       /\ request[r].at = "store" => request[r].row \in Row
       /\ request[r].at \in {"ask", "commit"} =>
            /\ request[r].id \in Id
            /\ request[r].op \in {"refresh", "revoke", "delete"}
       /\ request[r].at = "ask" => request[r].op = "refresh"

\* Tokens are ones the provider gave; a row that is yet to be stored has the
\* first of its grant.
Known(t) ==
  t \in Token /\ t.grant \in DOMAIN grants /\ t.version <= grants[t.grant]
TokensAreKnown ==
  /\ \A i \in Id : /\ rows[i] # None => rows[i].grant \in DOMAIN grants
                   /\ HasToken(i) => Known(rows[i].token)
  /\ \A r \in Request, i \in Id : Refreshes(r, i) => Known(request[r].token)
  /\ \A r \in Request : request[r].at = "store" =>
       /\ request[r].row.grant \in DOMAIN grants
       /\ request[r].row.token # None =>
            request[r].row.token = [grant |-> request[r].row.grant,
                                    version |-> grants[request[r].row.grant]]

\* A grant is one id's, in the row or in hand, or of a row yet to be stored.
At(i, grant) ==
  \/ rows[i] # None /\ rows[i].grant = grant
  \/ HasToken(i) /\ rows[i].token.grant = grant
  \/ \E r \in Request : Refreshes(r, i) /\ request[r].token.grant = grant
GrantsAreSeparate ==
  /\ \A i, j \in Id : \A grant \in DOMAIN grants :
       At(i, grant) /\ At(j, grant) => i = j
  /\ \A r \in Request, grant \in DOMAIN grants :
       request[r].at = "store" /\ request[r].row.grant = grant =>
         /\ \A i \in Id : ~ At(i, grant)
         /\ \A s \in Request : request[s].at = "store" =>
              (request[s].row.grant = grant => s = r)

\* But for crossed ids, a row is there while a request holds it, and the tokens
\* are its own account's.
HoldersKnowTheRow ==
  \A i \in Id \ crossed :
    /\ \A r \in Request : Holds(r, i) => rows[i] # None
    /\ \A r \in Request : Refreshes(r, i) =>
         request[r].token.grant = rows[i].grant
    /\ HasToken(i) => rows[i].token.grant = rows[i].grant

\* The usable token is in the row or in one request's hands only.
OneHasTheUsable ==
  \A i \in Id \ crossed : rows[i] # None =>
    /\ \A r \in Request : Brings(r, i) =>
         /\ request[r].token = Usable(i)
         /\ \A s \in Request : Brings(s, i) => s = r
         /\ HasToken(i) => rows[i].token # Usable(i)
         /\ \A s \in Request : request[s].at = "ask" /\ request[s].id = i =>
              request[s].token # Usable(i)
    /\ (\A r \in Request : ~ Brings(r, i)) =>
         (HasToken(i) => rows[i].token = Usable(i))

\* The inductive invariant, on top of IInv.
TokensInv ==
  /\ RowsTyped /\ TokensAreKnown /\ GrantsAreSeparate
  /\ HoldersKnowTheRow /\ OneHasTheUsable
FaultlessInv == faults = MaxFaults => TokensInv

LEMMA LargestOfSome ==
  ASSUME NEW n \in Nat, NEW S \in SUBSET (0..n), S # {}
  PROVE  \E x \in S : \A y \in S : x >= y
<1> DEFINE Behind == {n - x : x \in S}
           Less == {ss \in Nat \X Nat : ss[1] < ss[2]}
<1>1. Behind \in SUBSET Nat /\ Behind # {}
  <2>1. \A x \in S : n - x \in Nat OBVIOUS
  <2>2. Behind # {} OBVIOUS
  <2> QED BY <2>1, <2>2
<1>2. IsWellFoundedOn(Less, Nat) BY NatLessThanWellFounded DEF OpToRel
<1>3. PICK m \in Behind : \A k \in Behind : <<k, m>> \notin Less
  <2> HIDE DEF Behind, Less
  <2> QED BY <1>1, <1>2, WFMin
<1>4. \A k \in Behind : m <= k
  <2> TAKE k \in Behind
  <2> HIDE DEF Behind
  <2>1. m \in Nat /\ k \in Nat /\ ~ (k < m) BY <1>1, <1>3
  <2> QED BY <2>1
<1>5. PICK x \in S : m = n - x OBVIOUS
<1>6. \A y \in S : n - x <= n - y BY <1>4, <1>5
<1> QED BY <1>6

\* The id of a new row has none: it is past the last.
LEMMA NewIdIsFree == ASSUME NewId \in Id PROVE rows[NewId] = None
<1> DEFINE S == {0} \cup {i \in Id : rows[i] # None}
<1>1. S \in SUBSET (0..MaxId) /\ S # {} /\ MaxId \in Nat
  BY OAuthAssumption DEF Id
<1>2. NewId = 1 + Max(S) BY DEF NewId
<1> HIDE DEF S
<1>3. \E x \in S : \A y \in S : x >= y BY <1>1, LargestOfSome
<1>4. Max(S) \in S /\ \A y \in S : Max(S) >= y BY <1>3 DEF Max
<1>5. NewId \notin S
  <2> DEFINE last == Max(S)
  <2>1. last \in S /\ NewId = 1 + last /\ \A y \in S : last >= y
    BY <1>2, <1>4
  <2> HIDE DEF last
  <2>2. last \in 0..MaxId BY <1>1, <2>1
  <2>3. last \in Nat BY <1>1, <2>2
  <2> QED BY <2>1, <2>3
<1> QED BY <1>5 DEF S

\* A request's step leaves the others where they are.
LEMMA OthersStay ==
  ASSUME TypeInv, NEW r \in Request, NEW next, Goes(r, next)
  PROVE  /\ request'[r] = next
         /\ \A s \in Request \ {r} :
              /\ request'[s] = request[s]
              /\ \A i \in Id : /\ Holds(s, i)' <=> Holds(s, i)
                               /\ Refreshes(s, i)' <=> Refreshes(s, i)
                               /\ Brings(s, i)' <=> Brings(s, i)
BY GoesOthers DEF Holds, Refreshes, Brings

\* Every grant that occurs has been granted.
LEMMA AtIsGranted ==
  ASSUME TokensAreKnown, NEW i \in Id, NEW grant, At(i, grant)
  PROVE  grant \in DOMAIN grants
BY DEF TokensAreKnown, At, Known, HasToken

\* A request that neither stores, holds nor commits when it is done.
LEMMA QuietKeepsTokens ==
  ASSUME TypeInv, TokensInv, UNCHANGED <<grants, rows, crossed>>,
         NEW r \in Request, NEW next, Goes(r, next),
         request[r].at # "commit", next.at \notin {"store", "ask", "commit"}
  PROVE  TokensInv'
<1>1. /\ request'[r] = next
      /\ \A s \in Request \ {r} : request'[s] = request[s]
      /\ \A s \in Request \ {r}, i \in Id :
           /\ Holds(s, i)' <=> Holds(s, i)
           /\ Refreshes(s, i)' <=> Refreshes(s, i)
           /\ Brings(s, i)' <=> Brings(s, i)
  BY OthersStay
<1>2. \A i \in Id : ~ Holds(r, i)' /\ ~ Refreshes(r, i)' /\ ~ Brings(r, i)'
                    /\ ~ Brings(r, i)
  BY <1>1 DEF Holds, Refreshes, Brings
<1>3. RowsTyped' BY <1>1 DEF TokensInv, RowsTyped
<1>4. \A i \in Id : (HasToken(i)' <=> HasToken(i)) /\ Usable(i)' = Usable(i)
  BY DEF HasToken, Usable
<1>5. TokensAreKnown'
  BY <1>1, <1>2, <1>4 DEF TokensInv, TokensAreKnown, Known
<1>6. \A i \in Id : \A grant : At(i, grant)' => At(i, grant)
  BY <1>1, <1>2, <1>4 DEF At
<1>7. GrantsAreSeparate' BY <1>1, <1>6 DEF TokensInv, GrantsAreSeparate
<1>8. HoldersKnowTheRow'
  BY <1>1, <1>2, <1>4 DEF TokensInv, HoldersKnowTheRow
<1>9. OneHasTheUsable'
  <2> SUFFICES ASSUME NEW i \in Id \ crossed, rows[i] # None
      PROVE  /\ \A q \in Request : Brings(q, i)' =>
                  /\ request'[q].token = Usable(i)
                  /\ \A s \in Request : Brings(s, i)' => s = q
                  /\ HasToken(i) => rows[i].token # Usable(i)
                  /\ \A s \in Request :
                       request'[s].at = "ask" /\ request'[s].id = i =>
                         request'[s].token # Usable(i)
             /\ (\A q \in Request : ~ Brings(q, i)') =>
                  (HasToken(i) => rows[i].token = Usable(i))
    BY <1>4 DEF OneHasTheUsable
  <2>1. \A q \in Request : Brings(q, i)' => q # r /\ Brings(q, i)
    BY <1>1, <1>2
  <2>2. \A q \in Request : Brings(q, i) => Brings(q, i)' BY <1>1, <1>2
  <2> QED BY <1>1, <2>1, <2>2 DEF TokensInv, OneHasTheUsable
<1> QED BY <1>3, <1>5, <1>7, <1>8, <1>9 DEF TokensInv

\* A new grant, in the hands of the request that will store it.
LEMMA GrantKeepsTokens ==
  ASSUME TypeInv, TokensInv, UNCHANGED <<rows, crossed>>,
         Len(grants) < MaxGrants, grants' = Append(grants, 1),
         NEW r \in Request, request[r].at # "commit",
         NEW row \in Granted, NEW flow,
         Goes(r, [at |-> "store", row |-> row, flow |-> flow])
  PROVE  TokensInv'
<1> DEFINE next == [at |-> "store", row |-> row, flow |-> flow]
<1> PICK new : new = Len(grants) + 1 OBVIOUS
<1>1. /\ request'[r] = next
      /\ \A s \in Request \ {r} : request'[s] = request[s]
      /\ \A s \in Request \ {r}, i \in Id :
           /\ Holds(s, i)' <=> Holds(s, i)
           /\ Refreshes(s, i)' <=> Refreshes(s, i)
           /\ Brings(s, i)' <=> Brings(s, i)
  BY OthersStay
<1>2. \A i \in Id : ~ Holds(r, i)' /\ ~ Refreshes(r, i)' /\ ~ Brings(r, i)'
                    /\ ~ Brings(r, i)
  BY <1>1 DEF Holds, Refreshes, Brings
<1>3. /\ grants' \in Seq(Nat) /\ Len(grants') = new /\ new <= MaxGrants
      /\ DOMAIN grants' = DOMAIN grants \cup {new} /\ new \notin DOMAIN grants
      /\ \A grant \in DOMAIN grants : grants'[grant] = grants[grant]
      /\ grants'[new] = 1 /\ new \in 1..MaxGrants
  BY OAuthAssumption DEF TokensInv, RowsTyped
<1>4. /\ row \in Row /\ row.grant = new
      /\ row.token # None => row.token = [grant |-> new, version |-> 1]
  <2>1. PICK t \in {None, [grant |-> new, version |-> 1]} :
          row = [grant |-> new, token |-> t, revoked |-> FALSE]
    BY DEF Granted
  <2>2. [grant |-> new, version |-> 1] \in Token BY <1>3 DEF Token
  <2> QED BY <1>3, <2>1, <2>2 DEF Row
<1>5. next.at = "store" /\ next.row = row OBVIOUS
<1> HIDE DEF next
<1>6. RowsTyped' BY <1>1, <1>3, <1>4, <1>5 DEF TokensInv, RowsTyped
<1>7. \A i \in Id : /\ HasToken(i)' <=> HasToken(i)
                    /\ rows[i] # None => Usable(i)' = Usable(i)
  BY <1>3 DEF HasToken, Usable, TokensInv, TokensAreKnown
<1>8. \A t : Known(t) => Known(t)'
  BY <1>3 DEF Known
<1>9. TokensAreKnown'
  <2>1. \A i \in Id : /\ rows'[i] # None => rows'[i].grant \in DOMAIN grants'
                      /\ HasToken(i)' => Known(rows[i].token)'
    BY <1>3, <1>7, <1>8 DEF TokensInv, TokensAreKnown
  <2>2. \A s \in Request, i \in Id : Refreshes(s, i)' =>
          Known(request[s].token)'
    BY <1>1, <1>2, <1>8 DEF TokensInv, TokensAreKnown
  <2>3. \A s \in Request : request'[s].at = "store" =>
          /\ request'[s].row.grant \in DOMAIN grants'
          /\ request'[s].row.token # None =>
               request'[s].row.token = [grant |-> request'[s].row.grant,
                                 version |-> grants'[request'[s].row.grant]]
    <3>1. ASSUME NEW s \in Request \ {r}, request[s].at = "store"
          PROVE  /\ request[s].row.grant \in DOMAIN grants
                 /\ request[s].row.token # None =>
                      request[s].row.token = [grant |-> request[s].row.grant,
                                 version |-> grants[request[s].row.grant]]
      BY <3>1 DEF TokensInv, TokensAreKnown
    <3> TAKE s \in Request
    <3> HAVE request'[s].at = "store"
    <3>2. CASE s = r
      <4>1. request'[s].row = row BY <1>1, <1>5, <3>2
      <4> QED BY <1>3, <1>4, <4>1
    <3>3. CASE s # r
      <4>1. request'[s] = request[s] BY <1>1, <3>3
      <4> QED BY <1>3, <3>1, <3>3, <4>1
    <3> QED BY <3>2, <3>3
  <2> QED BY <2>1, <2>2, <2>3 DEF TokensAreKnown
<1>10. \A i \in Id : \A grant : At(i, grant)' => At(i, grant)
  BY <1>1, <1>2, <1>7 DEF At
<1>11. \A i \in Id : \A grant : At(i, grant) => grant \in DOMAIN grants
  BY AtIsGranted DEF TokensInv
<1>12. GrantsAreSeparate'
  <2>1. \A i, j \in Id : \A grant \in DOMAIN grants' :
          At(i, grant)' /\ At(j, grant)' => i = j
    BY <1>10, <1>11 DEF TokensInv, GrantsAreSeparate
  <2>2. ASSUME NEW s \in Request, NEW grant \in DOMAIN grants',
               request'[s].at = "store", request'[s].row.grant = grant
        PROVE  /\ \A i \in Id : ~ At(i, grant)'
               /\ \A q \in Request : request'[q].at = "store" =>
                    (request'[q].row.grant = grant => q = s)
    <3>1. CASE s = r
      <4>1. grant = new BY <1>1, <1>4, <1>5, <2>2, <3>1
      <4>2. \A i \in Id : ~ At(i, new)' BY <1>3, <1>10, <1>11
      <4>3. \A q \in Request \ {r} : request'[q].at = "store" =>
              request'[q].row.grant # new
        BY <1>1, <1>3 DEF TokensInv, TokensAreKnown
      <4> QED BY <3>1, <4>1, <4>2, <4>3
    <3>2. CASE s # r
      <4>1. request'[s] = request[s] /\ request[s].at = "store"
            /\ request[s].row.grant = grant
        BY <1>1, <2>2, <3>2
      <4>2. grant # new /\ grant \in DOMAIN grants
        BY <1>3, <4>1 DEF TokensInv, TokensAreKnown
      <4>3. /\ \A i \in Id : ~ At(i, grant)
            /\ \A q \in Request : request[q].at = "store" =>
                 (request[q].row.grant = grant => q = s)
        BY <4>1, <4>2 DEF TokensInv, GrantsAreSeparate
      <4>4. \A q \in Request : request'[q].at = "store" =>
              (request'[q].row.grant = grant => q = s)
        BY <1>1, <1>4, <1>5, <4>2, <4>3
      <4> QED BY <1>10, <4>3, <4>4
    <3> QED BY <3>1, <3>2
  <2> QED BY <2>1, <2>2 DEF GrantsAreSeparate
<1>13. HoldersKnowTheRow'
  BY <1>1, <1>2, <1>7 DEF TokensInv, HoldersKnowTheRow
<1>14. OneHasTheUsable'
  <2> SUFFICES ASSUME NEW i \in Id \ crossed, rows[i] # None
      PROVE  /\ \A q \in Request : Brings(q, i)' =>
                  /\ request'[q].token = Usable(i)
                  /\ \A s \in Request : Brings(s, i)' => s = q
                  /\ HasToken(i) => rows[i].token # Usable(i)
                  /\ \A s \in Request :
                       request'[s].at = "ask" /\ request'[s].id = i =>
                         request'[s].token # Usable(i)
             /\ (\A q \in Request : ~ Brings(q, i)') =>
                  (HasToken(i) => rows[i].token = Usable(i))
    BY <1>7 DEF OneHasTheUsable
  <2>1. \A q \in Request : Brings(q, i)' => q # r /\ Brings(q, i)
    BY <1>1, <1>2
  <2>2. \A q \in Request : Brings(q, i) => Brings(q, i)' BY <1>1, <1>2
  <2> QED BY <1>1, <1>5, <2>1, <2>2 DEF TokensInv, OneHasTheUsable
<1> QED BY <1>6, <1>9, <1>12, <1>13, <1>14 DEF TokensInv

\* A row gets an id that no request holds, unless one was deleted under it.
LEMMA StoringKeepsTokens ==
  ASSUME TypeInv, TokensInv, NEW r \in Request, StoreToken(r)
  PROVE  TokensInv'
<1> PICK new \in Id : new = NewId BY DEF StoreToken
<1> PICK row : row = request[r].row OBVIOUS
<1>1. /\ rows' = [rows EXCEPT ![new] = row] /\ request[r].at = "store"
      /\ UNCHANGED <<grants, crossed>> /\ rows[new] = None
  BY NewIdIsFree DEF StoreToken, provider
<1>2. PICK next : Goes(r, next) /\ next.at \in {"ended", "clean"}
  BY DEF StoreToken, Ended
<1>3. /\ request'[r] = next
      /\ \A s \in Request \ {r} : request'[s] = request[s]
      /\ \A s \in Request \ {r}, i \in Id :
           /\ Holds(s, i)' <=> Holds(s, i)
           /\ Refreshes(s, i)' <=> Refreshes(s, i)
           /\ Brings(s, i)' <=> Brings(s, i)
  BY <1>2, OthersStay
<1>4. \A i \in Id : /\ ~ Holds(r, i)' /\ ~ Refreshes(r, i)' /\ ~ Brings(r, i)'
                    /\ ~ Holds(r, i) /\ ~ Refreshes(r, i) /\ ~ Brings(r, i)
  BY <1>1, <1>2, <1>3 DEF Holds, Refreshes, Brings
<1>5. /\ row \in Row /\ row.grant \in DOMAIN grants
      /\ row.token # None =>
           row.token = [grant |-> row.grant, version |-> grants[row.grant]]
  BY <1>1 DEF TokensInv, RowsTyped, TokensAreKnown
<1>6. rows'[new] = row /\ \A i \in Id \ {new} : rows'[i] = rows[i]
  BY <1>1 DEF TokensInv, RowsTyped
<1>7. /\ \A i \in Id \ {new} : /\ HasToken(i)' <=> HasToken(i)
                               /\ Usable(i)' = Usable(i)
      /\ HasToken(new)' <=> row.token # None
      /\ Usable(new)' = [grant |-> row.grant, version |-> grants[row.grant]]
  BY <1>1, <1>5, <1>6, RowAssumption DEF HasToken, Usable
<1>8. RowsTyped'
  BY <1>1, <1>2, <1>3, <1>5 DEF TokensInv, RowsTyped
<1>9. row.token # None => Known(row.token)
  <2>1. row.token # None => row.token \in Token BY <1>5 DEF Row
  <2>2. row.grant \in DOMAIN grants => grants[row.grant] \in Nat
    BY DEF TokensInv, RowsTyped
  <2> QED BY <1>5, <2>1, <2>2 DEF Known
<1>10. \A t : Known(t)' <=> Known(t) BY <1>1 DEF Known
<1>11. TokensAreKnown'
  <2>1. \A i \in Id : rows'[i] # None => rows'[i].grant \in DOMAIN grants'
    BY <1>1, <1>5, <1>6 DEF TokensInv, TokensAreKnown
  <2>2. \A i \in Id : HasToken(i)' => Known(rows[i].token)'
    BY <1>6, <1>7, <1>9, <1>10 DEF TokensInv, TokensAreKnown
  <2>3. \A s \in Request, i \in Id : Refreshes(s, i)' =>
          Known(request[s].token)'
    BY <1>3, <1>4, <1>10 DEF TokensInv, TokensAreKnown
  <2>4. \A s \in Request : request'[s].at = "store" => s # r
    BY <1>2, <1>3
  <2>5. \A s \in Request : request'[s].at = "store" =>
          /\ request'[s].row.grant \in DOMAIN grants'
          /\ request'[s].row.token # None =>
               request'[s].row.token = [grant |-> request'[s].row.grant,
                                 version |-> grants'[request'[s].row.grant]]
    BY <1>1, <1>3, <2>4 DEF TokensInv, TokensAreKnown
  <2> QED BY <2>1, <2>2, <2>3, <2>5 DEF TokensAreKnown
<1>12. \A i \in Id : \A grant :
         At(i, grant)' => At(i, grant) \/ (i = new /\ grant = row.grant)
  <2> TAKE i \in Id
  <2> TAKE grant
  <2>1. CASE i = new BY <1>3, <1>4, <1>5, <1>6, <1>7, <2>1 DEF At
  <2>2. CASE i # new BY <1>3, <1>4, <1>6, <1>7, <2>2 DEF At
  <2> QED BY <2>1, <2>2
<1>13. /\ \A i \in Id : ~ At(i, row.grant)
       /\ \A s \in Request \ {r} : request[s].at = "store" =>
            request[s].row.grant # row.grant
  BY <1>1, <1>5 DEF TokensInv, GrantsAreSeparate
<1>14. GrantsAreSeparate'
  <2>1. \A i, j \in Id : \A grant \in DOMAIN grants' :
          At(i, grant)' /\ At(j, grant)' => i = j
    BY <1>1, <1>12, <1>13 DEF TokensInv, GrantsAreSeparate
  <2>2. ASSUME NEW s \in Request, NEW grant \in DOMAIN grants',
               request'[s].at = "store", request'[s].row.grant = grant
        PROVE  /\ \A i \in Id : ~ At(i, grant)'
               /\ \A q \in Request : request'[q].at = "store" =>
                    (request'[q].row.grant = grant => q = s)
    <3>1. s # r /\ request[s].at = "store" /\ request[s].row.grant = grant
      BY <1>2, <1>3, <2>2
    <3>2. grant # row.grant BY <1>13, <3>1
    <3>3. /\ \A i \in Id : ~ At(i, grant)
          /\ \A q \in Request : request[q].at = "store" =>
               (request[q].row.grant = grant => q = s)
      BY <1>1, <3>1 DEF TokensInv, GrantsAreSeparate
    <3>4. \A q \in Request : request'[q].at = "store" => q # r
      BY <1>2, <1>3
    <3> QED BY <1>3, <1>12, <3>2, <3>3, <3>4
  <2> QED BY <2>1, <2>2 DEF GrantsAreSeparate
<1>15. \A s \in Request : ~ Holds(s, new) \/ new \in crossed
  BY <1>1 DEF TokensInv, HoldersKnowTheRow
<1>16. HoldersKnowTheRow'
  <2> SUFFICES ASSUME NEW i \in Id \ crossed
      PROVE  /\ \A s \in Request : Holds(s, i)' => rows'[i] # None
             /\ \A s \in Request : Refreshes(s, i)' =>
                  request'[s].token.grant = rows'[i].grant
             /\ HasToken(i)' => rows'[i].token.grant = rows'[i].grant
    BY <1>1 DEF HoldersKnowTheRow
  <2>1. CASE i = new
    <3>1. \A s \in Request : ~ Holds(s, i)' /\ ~ Refreshes(s, i)'
      BY <1>3, <1>4, <1>15, <2>1 DEF Refreshes
    <3> QED BY <1>5, <1>6, <1>7, <2>1, <3>1
  <2>2. CASE i # new
    BY <1>3, <1>4, <1>6, <1>7, <2>2 DEF TokensInv, HoldersKnowTheRow
  <2> QED BY <2>1, <2>2
<1>17. OneHasTheUsable'
  <2> SUFFICES ASSUME NEW i \in Id \ crossed, rows'[i] # None
      PROVE  /\ \A q \in Request : Brings(q, i)' =>
                  /\ request'[q].token = Usable(i)'
                  /\ \A s \in Request : Brings(s, i)' => s = q
                  /\ HasToken(i)' => rows'[i].token # Usable(i)'
                  /\ \A s \in Request :
                       request'[s].at = "ask" /\ request'[s].id = i =>
                         request'[s].token # Usable(i)'
             /\ (\A q \in Request : ~ Brings(q, i)') =>
                  (HasToken(i)' => rows'[i].token = Usable(i)')
    BY <1>1 DEF OneHasTheUsable
  <2>1. CASE i = new
    <3>1. \A s \in Request : ~ Brings(s, i)'
      BY <1>3, <1>4, <1>15, <2>1 DEF Brings, Holds
    <3> QED BY <1>5, <1>6, <1>7, <2>1, <3>1
  <2>2. CASE i # new
    <3>1. /\ rows'[i] = rows[i] /\ Usable(i)' = Usable(i)
          /\ HasToken(i)' <=> HasToken(i)
      BY <1>6, <1>7, <2>2
    <3>2. \A q \in Request : Brings(q, i)' <=> Brings(q, i) BY <1>3, <1>4
    <3>3. \A q \in Request : Brings(q, i) \/ request'[q].at = "ask" =>
            request'[q] = request[q]
      BY <1>2, <1>3, <1>4
    <3> QED BY <3>1, <3>2, <3>3 DEF TokensInv, OneHasTheUsable
  <2> QED BY <2>1, <2>2
<1> QED BY <1>8, <1>11, <1>14, <1>16, <1>17 DEF TokensInv

\* A request that loads a row has its token, as it is.
LEMMA LoadingKeepsTokens ==
  ASSUME TypeInv, TokensInv, NEW r \in Request, NEW k \in Id,
         NEW op \in {"refresh", "revoke", "delete"}, Load(r, op, k)
  PROVE  TokensInv'
<1>0. UNCHANGED <<grants, rows, crossed>> /\ request[r].at = "waiting"
  BY DEF Load, provider, Begins
<1>1. CASE rows[k] = None \/ (op = "refresh" /\ rows[k].token = None)
  <2>1. Goes(r, Ended) /\ Ended.at = "ended" BY <1>1 DEF Load, Ended
  <2> QED BY <1>0, <2>1, QuietKeepsTokens
<1>2. CASE ~ (rows[k] = None \/ (op = "refresh" /\ rows[k].token = None))
  <2> DEFINE next == [at |-> IF op = "refresh" THEN "ask" ELSE "commit",
                      op |-> op, id |-> k, token |-> rows[k].token]
  <2>1. Goes(r, next) BY <1>2 DEF Load
  <2>2. /\ next.op = op /\ next.id = k /\ next.token = rows[k].token
        /\ next.at \in {"ask", "commit"}
        /\ next.at = "ask" <=> op = "refresh"
    OBVIOUS
  <2> PICK held : held = next OBVIOUS
  <2>3. /\ held.op = op /\ held.id = k /\ held.token = rows[k].token
        /\ held.at \in {"ask", "commit"}
        /\ held.at = "ask" <=> op = "refresh"
        /\ Goes(r, held)
    BY <2>1, <2>2
  <2> HIDE DEF next
  <2>4. /\ request'[r] = held
        /\ \A s \in Request \ {r} : request'[s] = request[s]
        /\ \A s \in Request \ {r}, i \in Id :
             /\ Holds(s, i)' <=> Holds(s, i)
             /\ Refreshes(s, i)' <=> Refreshes(s, i)
             /\ Brings(s, i)' <=> Brings(s, i)
    BY <2>3, OthersStay
  <2>5. \A i \in Id : /\ Holds(r, i)' <=> i = k
                      /\ Refreshes(r, i)' <=> i = k /\ op = "refresh"
                      /\ ~ Brings(r, i)' /\ ~ Brings(r, i)
    BY <1>0, <2>3, <2>4 DEF Holds, Refreshes, Brings
  <2>6. RowsTyped' BY <1>0, <2>3, <2>4 DEF TokensInv, RowsTyped
  <2>7. \A i \in Id : (HasToken(i)' <=> HasToken(i)) /\ Usable(i)' = Usable(i)
    BY <1>0 DEF HasToken, Usable
  <2>8. op = "refresh" => HasToken(k) BY <1>2 DEF HasToken
  <2>9. \A t : Known(t)' <=> Known(t) BY <1>0 DEF Known
  <2>10. TokensAreKnown'
    <3>1. \A i \in Id : /\ rows'[i] # None => rows'[i].grant \in DOMAIN grants'
                        /\ HasToken(i)' => Known(rows[i].token)'
      BY <1>0, <2>7, <2>9 DEF TokensInv, TokensAreKnown
    <3>2. \A s \in Request, i \in Id : Refreshes(s, i)' =>
            Known(request[s].token)'
      BY <2>3, <2>4, <2>5, <2>8, <2>9 DEF TokensInv, TokensAreKnown
    <3>3. \A s \in Request : request'[s].at = "store" => s # r
      BY <2>3, <2>4
    <3>4. \A s \in Request : request'[s].at = "store" =>
            /\ request'[s].row.grant \in DOMAIN grants'
            /\ request'[s].row.token # None =>
                 request'[s].row.token = [grant |-> request'[s].row.grant,
                                 version |-> grants'[request'[s].row.grant]]
      BY <1>0, <2>4, <3>3 DEF TokensInv, TokensAreKnown
    <3> QED BY <3>1, <3>2, <3>4 DEF TokensAreKnown
  <2>11. \A i \in Id : \A grant : At(i, grant)' => At(i, grant)
    BY <1>0, <2>3, <2>4, <2>5, <2>7, <2>8 DEF At
  <2>12. GrantsAreSeparate'
    BY <1>0, <2>3, <2>4, <2>11 DEF TokensInv, GrantsAreSeparate
  <2>13. HoldersKnowTheRow'
    <3> SUFFICES ASSUME NEW i \in Id \ crossed
        PROVE  /\ \A s \in Request : Holds(s, i)' => rows'[i] # None
               /\ \A s \in Request : Refreshes(s, i)' =>
                    request'[s].token.grant = rows'[i].grant
               /\ HasToken(i)' => rows'[i].token.grant = rows'[i].grant
      BY <1>0 DEF HoldersKnowTheRow
    <3> QED BY <1>0, <1>2, <2>3, <2>4, <2>5, <2>7, <2>8
               DEF TokensInv, HoldersKnowTheRow
  <2>14. OneHasTheUsable'
    <3> SUFFICES ASSUME NEW i \in Id \ crossed, rows[i] # None
        PROVE  /\ \A q \in Request : Brings(q, i)' =>
                    /\ request'[q].token = Usable(i)
                    /\ \A s \in Request : Brings(s, i)' => s = q
                    /\ HasToken(i) => rows[i].token # Usable(i)
                    /\ \A s \in Request :
                         request'[s].at = "ask" /\ request'[s].id = i =>
                           request'[s].token # Usable(i)
               /\ (\A q \in Request : ~ Brings(q, i)') =>
                    (HasToken(i) => rows[i].token = Usable(i))
      BY <1>0, <2>7 DEF OneHasTheUsable
    <3>1. \A q \in Request : Brings(q, i)' <=> Brings(q, i)
      BY <2>4, <2>5
    <3>2. \A q \in Request : Brings(q, i) => request'[q] = request[q]
      BY <2>4, <2>5
    <3>3. ASSUME NEW q \in Request, Brings(q, i), NEW s \in Request,
                 request'[s].at = "ask", request'[s].id = i
          PROVE  request'[s].token # Usable(i)
      <4>1. CASE s = r
        <5>1. k = i /\ HasToken(k) /\ request'[s].token = rows[k].token
          BY <2>3, <2>4, <2>8, <3>3, <4>1
        <5> QED BY <3>3, <5>1 DEF TokensInv, OneHasTheUsable
      <4>2. CASE s # r
        <5>1. request'[s] = request[s] BY <2>4, <4>2
        <5> QED BY <3>3, <5>1 DEF TokensInv, OneHasTheUsable
      <4> QED BY <4>1, <4>2
    <3> QED BY <3>1, <3>2, <3>3 DEF TokensInv, OneHasTheUsable
  <2> QED BY <2>6, <2>10, <2>12, <2>13, <2>14 DEF TokensInv
<1> QED BY <1>1, <1>2

\* The provider takes the usable token; if it gives a new one, that is in this
\* request's hands only.
LEMMA RefreshingKeepsTokens ==
  ASSUME TypeInv, TokensInv, NEW r \in Request, Refreshed(r)
  PROVE  TokensInv'
<1> PICK t : t = request[r].token OBVIOUS
<1> PICK k : k = request[r].id OBVIOUS
<1>1. /\ request[r].at = "ask" /\ request[r].op = "refresh" /\ k \in Id
      /\ Refreshes(r, k) /\ ~ Brings(r, k)
  BY DEF Refreshed, Refresh, TokensInv, RowsTyped, Refreshes, Holds, Brings
<1>2. Known(t) BY <1>1 DEF TokensInv, TokensAreKnown
<1> PICK g : g = t.grant OBVIOUS
<1>3. /\ g \in DOMAIN grants /\ grants[g] \in Nat
      /\ t = [grant |-> g, version |-> grants[g]] /\ t \in Token
  <2>1. t.version = grants[t.grant] BY DEF Refreshed, Refresh
  <2>2. t \in Token /\ g \in DOMAIN grants BY <1>2 DEF Known
  <2> QED BY <2>1, <2>2 DEF Token, TokensInv, RowsTyped
<1> PICK v : v = IF rotates THEN grants[g] + 1 ELSE grants[g] OBVIOUS
<1> PICK new : new = [grant |-> g, version |-> v] OBVIOUS
<1>4. /\ grants' = [grants EXCEPT ![g] = v] /\ UNCHANGED <<rows, crossed>>
      /\ v \in Nat /\ grants[g] <= v
  BY <1>3 DEF Refreshed, Refresh
<1>5. /\ grants' \in Seq(Nat) /\ Len(grants') = Len(grants)
      /\ DOMAIN grants' = DOMAIN grants /\ grants'[g] = v
      /\ \A h \in DOMAIN grants \ {g} : grants'[h] = grants[h]
      /\ \A h \in DOMAIN grants : grants[h] \in Nat
  BY <1>3, <1>4 DEF TokensInv, RowsTyped
<1>6. new = [t EXCEPT !.version = grants'[t.grant]] /\ new \in Token
  BY <1>3, <1>4, <1>5 DEF Token
<1>7. PICK expires \in BOOLEAN :
        Goes(r, [at |-> "commit", op |-> "refresh", id |-> k, read |-> t,
                 expires |-> expires, token |-> new])
  BY <1>6 DEF Refreshed
<1> PICK next : next = [at |-> "commit", op |-> "refresh", id |-> k, read |-> t,
                        expires |-> expires, token |-> new]
  OBVIOUS
<1>8. /\ next.at = "commit" /\ next.op = "refresh" /\ next.id = k
      /\ next.read = t /\ next.token = new /\ Goes(r, next)
  BY <1>7
<1>9. /\ request'[r] = next
      /\ \A s \in Request \ {r} : request'[s] = request[s]
      /\ \A s \in Request \ {r}, i \in Id :
           /\ Holds(s, i)' <=> Holds(s, i)
           /\ Refreshes(s, i)' <=> Refreshes(s, i)
           /\ Brings(s, i)' <=> Brings(s, i)
  BY <1>8, OthersStay
<1>10. \A i \in Id : /\ Holds(r, i)' <=> i = k
                     /\ Refreshes(r, i)' <=> i = k
                     /\ Holds(r, i) <=> i = k
                     /\ Refreshes(r, i) <=> i = k
                     /\ Brings(r, i)' <=> i = k /\ new # t
                     /\ ~ Brings(r, i)
  BY <1>1, <1>8, <1>9 DEF Holds, Refreshes, Brings
<1>11. RowsTyped'
  BY <1>1, <1>4, <1>5, <1>8, <1>9 DEF TokensInv, RowsTyped
<1>12. \A i \in Id : HasToken(i)' <=> HasToken(i) BY <1>4 DEF HasToken
<1>13. \A x : Known(x) => Known(x)'
  <2> TAKE x
  <2> HAVE Known(x)
  <2>1. x \in Token /\ x.grant \in DOMAIN grants /\ x.version <= grants[x.grant]
    BY DEF Known
  <2>2. x.version \in Nat BY <2>1 DEF Token
  <2>3. grants[x.grant] <= grants'[x.grant] /\ grants'[x.grant] \in Nat
        /\ grants[x.grant] \in Nat
    BY <1>4, <1>5, <2>1
  <2>4. x.version <= grants'[x.grant] BY <2>1, <2>2, <2>3
  <2> QED BY <1>5, <2>1, <2>4 DEF Known
<1>14. Known(new)'
  BY <1>3, <1>4, <1>5, <1>6 DEF Known
<1>15. At(k, g) BY <1>1, <1>3 DEF At
<1>16. \A s \in Request : request[s].at = "store" => request[s].row.grant # g
  BY <1>3, <1>1, <1>15 DEF TokensInv, GrantsAreSeparate
<1>17. TokensAreKnown'
  <2>1. \A i \in Id : /\ rows'[i] # None => rows'[i].grant \in DOMAIN grants'
                      /\ HasToken(i)' => Known(rows[i].token)'
    BY <1>4, <1>5, <1>12, <1>13 DEF TokensInv, TokensAreKnown
  <2>2. ASSUME NEW s \in Request, NEW i \in Id, Refreshes(s, i)'
        PROVE  Known(request[s].token)'
    <3>1. CASE s = r
      <4>1. request'[s].token = new BY <1>8, <1>9, <3>1
      <4> QED BY <1>14, <4>1
    <3>2. CASE s # r
      BY <1>9, <1>13, <2>2, <3>2 DEF TokensInv, TokensAreKnown
    <3> QED BY <3>1, <3>2
  <2>3. \A s \in Request : request'[s].at = "store" =>
          s # r /\ request'[s] = request[s]
    BY <1>8, <1>9
  <2>4. \A s \in Request : request[s].at = "store" =>
          /\ request[s].row.grant \in DOMAIN grants
          /\ grants'[request[s].row.grant] = grants[request[s].row.grant]
          /\ request[s].row.token # None =>
               request[s].row.token = [grant |-> request[s].row.grant,
                                version |-> grants[request[s].row.grant]]
    BY <1>5, <1>16 DEF TokensInv, TokensAreKnown
  <2>5. \A s \in Request : request'[s].at = "store" =>
          /\ request'[s].row.grant \in DOMAIN grants'
          /\ request'[s].row.token # None =>
               request'[s].row.token = [grant |-> request'[s].row.grant,
                                version |-> grants'[request'[s].row.grant]]
    <3> TAKE s \in Request
    <3> HAVE request'[s].at = "store"
    <3>1. request'[s] = request[s] /\ request[s].at = "store" BY <2>3
    <3> QED BY <1>5, <2>4, <3>1
  <2> QED BY <2>1, <2>2, <2>5 DEF TokensAreKnown
<1>18. \A i \in Id : \A grant : At(i, grant)' => At(i, grant)
  <2>1. new.grant = g OBVIOUS
  <2> QED BY <1>4, <1>8, <1>9, <1>10, <1>12, <2>1 DEF At
<1>19. GrantsAreSeparate'
  <2>1. \A i, j \in Id : \A grant \in DOMAIN grants' :
          At(i, grant)' /\ At(j, grant)' => i = j
    BY <1>5, <1>18 DEF TokensInv, GrantsAreSeparate
  <2>2. \A s \in Request : request'[s].at = "store" =>
          request[s].at = "store" /\ request'[s] = request[s]
    BY <1>8, <1>9
  <2>3. \A s \in Request, grant \in DOMAIN grants' :
          request'[s].at = "store" /\ request'[s].row.grant = grant =>
            /\ \A i \in Id : ~ At(i, grant)'
            /\ \A q \in Request : request'[q].at = "store" =>
                 (request'[q].row.grant = grant => q = s)
    BY <1>5, <1>18, <2>2 DEF TokensInv, GrantsAreSeparate
  <2> QED BY <2>1, <2>3 DEF GrantsAreSeparate
<1>20. HoldersKnowTheRow'
  <2>1. new.grant = g OBVIOUS
  <2> SUFFICES ASSUME NEW i \in Id \ crossed
      PROVE  /\ \A s \in Request : Holds(s, i)' => rows[i] # None
             /\ \A s \in Request : Refreshes(s, i)' =>
                  request'[s].token.grant = rows[i].grant
             /\ HasToken(i)' => rows[i].token.grant = rows[i].grant
    BY <1>4 DEF HoldersKnowTheRow
  <2> QED BY <1>8, <1>9, <1>10, <1>12, <2>1 DEF TokensInv, HoldersKnowTheRow
<1>21. OneHasTheUsable'
  <2> SUFFICES ASSUME NEW i \in Id \ crossed, rows[i] # None
      PROVE  /\ \A q \in Request : Brings(q, i)' =>
                  /\ request'[q].token = Usable(i)'
                  /\ \A s \in Request : Brings(s, i)' => s = q
                  /\ HasToken(i) => rows[i].token # Usable(i)'
                  /\ \A s \in Request :
                       request'[s].at = "ask" /\ request'[s].id = i =>
                         request'[s].token # Usable(i)'
             /\ (\A q \in Request : ~ Brings(q, i)') =>
                  (HasToken(i) => rows[i].token = Usable(i)')
    BY <1>4, <1>12 DEF OneHasTheUsable
  <2>1. CASE i # k \/ new = t
    <3>1. Usable(i)' = Usable(i)
      <4>1. CASE i # k
        <5>1. rows[i].grant \in DOMAIN grants /\ At(i, rows[i].grant)
          BY DEF TokensInv, TokensAreKnown, At
        <5>2. rows[i].grant # g
          BY <1>1, <1>15, <4>1, <5>1 DEF TokensInv, GrantsAreSeparate
        <5> QED BY <1>4, <1>5, <5>1, <5>2 DEF Usable
      <4>2. CASE new = t
        <5>1. v = grants[g] BY <1>3, <4>2
        <5>2. grants' = grants BY <1>3, <1>4, <5>1 DEF TokensInv, RowsTyped
        <5> QED BY <1>4, <5>2 DEF Usable
      <4> QED BY <2>1, <4>1, <4>2
    <3>2. \A q \in Request : Brings(q, i)' <=> Brings(q, i)
      BY <1>9, <1>10, <2>1
    <3>3. \A q \in Request : Brings(q, i) => request'[q] = request[q]
      BY <1>9, <1>10
    <3>4. \A s \in Request : request'[s].at = "ask" => request'[s] = request[s]
      BY <1>8, <1>9
    <3> QED BY <3>1, <3>2, <3>3, <3>4 DEF TokensInv, OneHasTheUsable
  <2>2. CASE i = k /\ new # t
    <3>1. rows[i].grant = g
      BY <1>1, <1>3, <2>2 DEF TokensInv, HoldersKnowTheRow
    <3>2. Usable(i) = t /\ Usable(i)' = new
      BY <1>3, <1>4, <1>5, <3>1 DEF Usable
    <3>3. \A q \in Request : ~ Brings(q, i)
      BY <1>1, <2>2, <3>2 DEF TokensInv, OneHasTheUsable
    <3>4. \A q \in Request : Brings(q, i)' <=> q = r
      BY <1>9, <1>10, <2>2, <3>3
    <3>5. \A x : Known(x) => x # new
      <4>1. v # grants[g] BY <1>3, <2>2
      <4>2. ~ (v <= grants[g]) BY <1>3, <1>4, <4>1
      <4> QED BY <4>2 DEF Known
    <3>6. HasToken(i) => rows[i].token # new
      BY <3>5 DEF TokensInv, TokensAreKnown
    <3>7. \A s \in Request :
            request'[s].at = "ask" /\ request'[s].id = i =>
              request'[s].token # new
      <4>1. \A s \in Request : request[s].at = "ask" /\ request[s].id = i =>
              Refreshes(s, i)
        BY DEF TokensInv, RowsTyped, Refreshes, Holds
      <4> QED BY <1>8, <1>9, <3>5, <4>1 DEF TokensInv, TokensAreKnown
    <3> QED BY <1>8, <1>9, <3>2, <3>4, <3>6, <3>7
  <2> QED BY <2>1, <2>2
<1> QED BY <1>11, <1>17, <1>19, <1>20, <1>21 DEF TokensInv

\* A commit that changes a row, if it is there still, stores the token that
\* was brought, if one was.
LEMMA CommittingKeepsTokens ==
  ASSUME TypeInv, TokensInv, UNCHANGED <<grants, crossed>>,
         NEW r \in Request, request[r].at = "commit", Goes(r, Ended),
         NEW k, k = request[r].id, NEW new,
         rows[k] # None =>
           /\ new \in Row /\ new.grant = rows[k].grant
           /\ new.token = IF Brings(r, k) THEN request[r].token
                          ELSE rows[k].token,
         rows' = IF rows[k] = None THEN rows ELSE [rows EXCEPT ![k] = new]
  PROVE  TokensInv'
<1>1. k \in Id /\ Ended.at = "ended"
  BY DEF TokensInv, RowsTyped, Ended
<1>2. /\ request'[r] = Ended
      /\ \A s \in Request \ {r} : request'[s] = request[s]
      /\ \A s \in Request \ {r}, i \in Id :
           /\ Holds(s, i)' <=> Holds(s, i)
           /\ Refreshes(s, i)' <=> Refreshes(s, i)
           /\ Brings(s, i)' <=> Brings(s, i)
  BY OthersStay
<1>3. \A i \in Id : /\ ~ Holds(r, i)' /\ ~ Refreshes(r, i)' /\ ~ Brings(r, i)'
                    /\ Brings(r, i) => i = k /\ Refreshes(r, i)
                    /\ Holds(r, i) <=> i = k
  BY <1>1, <1>2 DEF Holds, Refreshes, Brings
<1>4. /\ \A i \in Id \ {k} : rows'[i] = rows[i]
      /\ rows'[k] = IF rows[k] = None THEN None ELSE new
  BY <1>1 DEF TokensInv, RowsTyped
<1>5. \A i \in Id : /\ rows'[i] # None <=> rows[i] # None
                    /\ rows[i] # None => rows'[i].grant = rows[i].grant
                    /\ rows[i] # None => Usable(i)' = Usable(i)
  <2>1. \A i \in Id : /\ rows'[i] # None <=> rows[i] # None
                      /\ rows[i] # None => rows'[i].grant = rows[i].grant
    BY <1>1, <1>4, RowAssumption
  <2> QED BY <2>1 DEF Usable
<1>6. \A i \in Id :
        /\ i = k /\ Brings(r, k) /\ rows[k] # None =>
             rows'[i].token = request[r].token
        /\ ~ (i = k /\ Brings(r, k)) /\ rows[i] # None =>
             rows'[i].token = rows[i].token
  BY <1>4
<1>7. \A i \in Id :
        HasToken(i)' =>
          \/ HasToken(i) /\ rows'[i].token = rows[i].token
          \/ i = k /\ Brings(r, k) /\ rows'[i].token = request[r].token
  BY <1>5, <1>6 DEF HasToken
<1>8. RowsTyped'
  <2>1. rows' \in [Id -> Row \cup {None}]
    BY <1>1 DEF TokensInv, RowsTyped
  <2> QED BY <1>1, <1>2, <2>1 DEF TokensInv, RowsTyped
<1>9. \A x : Known(x)' <=> Known(x) BY DEF Known
<1>10. Brings(r, k) => Known(request[r].token)
  BY <1>1, <1>3 DEF TokensInv, TokensAreKnown
<1>11. TokensAreKnown'
  <2>1. \A i \in Id : rows'[i] # None => rows'[i].grant \in DOMAIN grants'
    BY <1>5 DEF TokensInv, TokensAreKnown
  <2>2. \A i \in Id : HasToken(i)' => Known(rows[i].token)'
    BY <1>7, <1>9, <1>10 DEF TokensInv, TokensAreKnown
  <2>3. \A s \in Request, i \in Id : Refreshes(s, i)' =>
          Known(request[s].token)'
    BY <1>2, <1>3, <1>9 DEF TokensInv, TokensAreKnown
  <2>4. \A s \in Request : request'[s].at = "store" =>
          /\ request'[s].row.grant \in DOMAIN grants'
          /\ request'[s].row.token # None =>
               request'[s].row.token = [grant |-> request'[s].row.grant,
                                 version |-> grants'[request'[s].row.grant]]
    BY <1>1, <1>2 DEF TokensInv, TokensAreKnown
  <2> QED BY <2>1, <2>2, <2>3, <2>4 DEF TokensAreKnown
<1>12. \A i \in Id : \A grant : At(i, grant)' => At(i, grant)
  BY <1>2, <1>3, <1>5, <1>7 DEF At
<1>13. GrantsAreSeparate'
  BY <1>1, <1>2, <1>12 DEF TokensInv, GrantsAreSeparate
<1>14. HoldersKnowTheRow'
  <2> SUFFICES ASSUME NEW i \in Id \ crossed
      PROVE  /\ \A s \in Request : Holds(s, i)' => rows'[i] # None
             /\ \A s \in Request : Refreshes(s, i)' =>
                  request'[s].token.grant = rows'[i].grant
             /\ HasToken(i)' => rows'[i].token.grant = rows'[i].grant
    BY DEF HoldersKnowTheRow
  <2>1. \A s \in Request : Holds(s, i)' => rows'[i] # None
    BY <1>2, <1>3, <1>5 DEF TokensInv, HoldersKnowTheRow
  <2>2. \A s \in Request : Refreshes(s, i) => Holds(s, i)
    BY DEF Refreshes
  <2>3. \A s \in Request : Refreshes(s, i)' =>
          request'[s].token.grant = rows'[i].grant
    BY <1>2, <1>3, <1>5, <2>2 DEF TokensInv, HoldersKnowTheRow
  <2>4. HasToken(i)' => rows'[i].token.grant = rows'[i].grant
    BY <1>3, <1>5, <1>7, <2>2 DEF TokensInv, HoldersKnowTheRow, HasToken
  <2> QED BY <2>1, <2>3, <2>4
<1>15. OneHasTheUsable'
  <2> SUFFICES ASSUME NEW i \in Id \ crossed, rows[i] # None
      PROVE  /\ \A q \in Request : Brings(q, i)' =>
                  /\ request'[q].token = Usable(i)
                  /\ \A s \in Request : Brings(s, i)' => s = q
                  /\ HasToken(i)' => rows'[i].token # Usable(i)
                  /\ \A s \in Request :
                       request'[s].at = "ask" /\ request'[s].id = i =>
                         request'[s].token # Usable(i)
             /\ (\A q \in Request : ~ Brings(q, i)') =>
                  (HasToken(i)' => rows'[i].token = Usable(i))
    BY <1>5 DEF OneHasTheUsable
  <2>1. CASE i = k /\ Brings(r, k)
    <3>1. rows'[i].token = Usable(i)
      BY <1>6, <2>1 DEF TokensInv, OneHasTheUsable
    <3>2. \A q \in Request : ~ Brings(q, i)'
      BY <1>2, <1>3, <2>1 DEF TokensInv, OneHasTheUsable
    <3> QED BY <3>1, <3>2
  <2>2. CASE ~ (i = k /\ Brings(r, k))
    <3>1. \A q \in Request : Brings(q, i)' <=> Brings(q, i)
      BY <1>2, <1>3, <2>2
    <3>2. rows'[i].token = rows[i].token /\ (HasToken(i)' <=> HasToken(i))
      BY <1>5, <1>6, <2>2 DEF HasToken
    <3>3. \A q \in Request : Brings(q, i)' \/ request'[q].at = "ask" =>
            request'[q] = request[q]
      BY <1>1, <1>2, <1>3
    <3> QED BY <3>1, <3>2, <3>3 DEF TokensInv, OneHasTheUsable
  <2> QED BY <2>1, <2>2
<1> QED BY <1>8, <1>11, <1>13, <1>14, <1>15 DEF TokensInv

\* A row that is deleted under another request crosses its id.
LEMMA DeletingKeepsTokens ==
  ASSUME TypeInv, TokensInv, NEW r \in Request, CommitDelete(r)
  PROVE  TokensInv'
<1> PICK k : k = request[r].id OBVIOUS
<1>1. /\ k \in Id /\ Ended.at = "ended" /\ Goes(r, Ended)
      /\ request[r].at = "commit" /\ request[r].op = "delete"
      /\ rows' = [rows EXCEPT ![k] = None] /\ UNCHANGED grants
      /\ crossed \subseteq crossed'
  BY DEF TokensInv, RowsTyped, Ended, CommitDelete, Commits, provider
<1>2. /\ request'[r] = Ended
      /\ \A s \in Request \ {r} : request'[s] = request[s]
      /\ \A s \in Request \ {r}, i \in Id :
           /\ Holds(s, i)' <=> Holds(s, i)
           /\ Refreshes(s, i)' <=> Refreshes(s, i)
           /\ Brings(s, i)' <=> Brings(s, i)
  BY <1>1, OthersStay
<1>3. \A i \in Id : /\ ~ Holds(r, i)' /\ ~ Refreshes(r, i)' /\ ~ Brings(r, i)'
                    /\ ~ Brings(r, i)
  BY <1>1, <1>2 DEF Holds, Refreshes, Brings
<1>4. rows'[k] = None /\ \A i \in Id \ {k} : rows'[i] = rows[i]
  BY <1>1 DEF TokensInv, RowsTyped
<1>5. k \notin crossed' => \A s \in Request \ {r} : ~ Holds(s, k)
  BY <1>1 DEF CommitDelete, Holds
<1>6. \A i \in Id : rows'[i] # None =>
        i # k /\ (HasToken(i)' <=> HasToken(i)) /\ Usable(i)' = Usable(i)
  BY <1>1, <1>4 DEF HasToken, Usable
<1>7. RowsTyped'
  <2>1. rows' \in [Id -> Row \cup {None}]
    BY <1>1 DEF TokensInv, RowsTyped
  <2> QED BY <1>1, <1>2, <2>1 DEF TokensInv, RowsTyped
<1>8. \A x : Known(x)' <=> Known(x) BY <1>1 DEF Known
<1>9. \A i \in Id : HasToken(i)' => /\ rows'[i] # None /\ rows'[i] = rows[i]
                                    /\ HasToken(i)
  BY <1>4, <1>6 DEF HasToken
<1>10. TokensAreKnown'
  <2>1. \A i \in Id : rows'[i] # None => rows'[i].grant \in DOMAIN grants'
    BY <1>1, <1>4 DEF TokensInv, TokensAreKnown
  <2>2. \A i \in Id : HasToken(i)' => Known(rows[i].token)'
    BY <1>8, <1>9 DEF TokensInv, TokensAreKnown
  <2>3. \A s \in Request, i \in Id : Refreshes(s, i)' =>
          Known(request[s].token)'
    BY <1>2, <1>3, <1>8 DEF TokensInv, TokensAreKnown
  <2>4. \A s \in Request : request'[s].at = "store" =>
          /\ request'[s].row.grant \in DOMAIN grants'
          /\ request'[s].row.token # None =>
               request'[s].row.token = [grant |-> request'[s].row.grant,
                                 version |-> grants'[request'[s].row.grant]]
    BY <1>1, <1>2 DEF TokensInv, TokensAreKnown
  <2> QED BY <2>1, <2>2, <2>3, <2>4 DEF TokensAreKnown
<1>11. \A i \in Id : \A grant : At(i, grant)' => At(i, grant)
  BY <1>2, <1>3, <1>4, <1>9 DEF At
<1>12. GrantsAreSeparate'
  BY <1>1, <1>2, <1>11 DEF TokensInv, GrantsAreSeparate
<1>13. HoldersKnowTheRow'
  <2> SUFFICES ASSUME NEW i \in Id \ crossed'
      PROVE  /\ \A s \in Request : Holds(s, i)' => rows'[i] # None
             /\ \A s \in Request : Refreshes(s, i)' =>
                  request'[s].token.grant = rows'[i].grant
             /\ HasToken(i)' => rows'[i].token.grant = rows'[i].grant
    BY DEF HoldersKnowTheRow
  <2>1. i \in Id \ crossed BY <1>1
  <2>2. \A s \in Request : Refreshes(s, i) => Holds(s, i) BY DEF Refreshes
  <2>3. CASE i = k
    <3>1. \A s \in Request : ~ Holds(s, i)' /\ ~ Refreshes(s, i)'
      BY <1>2, <1>3, <1>5, <2>2, <2>3
    <3> QED BY <1>4, <1>9, <2>3, <3>1
  <2>4. CASE i # k
    BY <1>2, <1>3, <1>4, <1>9, <2>1, <2>4 DEF TokensInv, HoldersKnowTheRow
  <2> QED BY <2>3, <2>4
<1>14. OneHasTheUsable'
  <2> SUFFICES ASSUME NEW i \in Id \ crossed', rows'[i] # None
      PROVE  /\ \A q \in Request : Brings(q, i)' =>
                  /\ request'[q].token = Usable(i)'
                  /\ \A s \in Request : Brings(s, i)' => s = q
                  /\ HasToken(i)' => rows'[i].token # Usable(i)'
                  /\ \A s \in Request :
                       request'[s].at = "ask" /\ request'[s].id = i =>
                         request'[s].token # Usable(i)'
             /\ (\A q \in Request : ~ Brings(q, i)') =>
                  (HasToken(i)' => rows'[i].token = Usable(i)')
    BY DEF OneHasTheUsable
  <2>1. /\ i \in Id \ crossed /\ rows'[i] = rows[i] /\ rows[i] # None
        /\ Usable(i)' = Usable(i) /\ (HasToken(i)' <=> HasToken(i))
    BY <1>1, <1>4, <1>6
  <2>2. \A q \in Request : Brings(q, i)' <=> Brings(q, i) BY <1>2, <1>3
  <2>3. \A q \in Request : Brings(q, i)' \/ request'[q].at = "ask" =>
          request'[q] = request[q]
    BY <1>1, <1>2, <1>3
  <2> QED BY <2>1, <2>2, <2>3 DEF TokensInv, OneHasTheUsable
<1> QED BY <1>7, <1>10, <1>12, <1>13, <1>14 DEF TokensInv

LEMMA InitTokensInv == ASSUME Init PROVE TokensInv
<1> USE OAuthAssumption
<1>1. /\ grants = <<>> /\ \A i \in Id : rows[i] = None
      /\ \A r \in Request : request[r].at = "waiting"
  BY DEF Init
<1>2. \A i \in Id : /\ ~ HasToken(i)
                    /\ \A r \in Request : ~ Holds(r, i) /\ ~ Refreshes(r, i)
  BY <1>1 DEF HasToken, Holds, Refreshes
<1>3. RowsTyped BY <1>1 DEF Init, RowsTyped
<1>4. TokensAreKnown BY <1>1, <1>2 DEF TokensAreKnown
<1>5. GrantsAreSeparate BY <1>1 DEF GrantsAreSeparate
<1>6. HoldersKnowTheRow BY <1>2 DEF HoldersKnowTheRow
<1>7. OneHasTheUsable BY <1>1 DEF OneHasTheUsable
<1> QED BY <1>3, <1>4, <1>5, <1>6, <1>7 DEF TokensInv

LEMMA UnchangedTokens ==
  ASSUME TokensInv, UNCHANGED <<grants, rows, crossed, request>>
  PROVE  TokensInv'
<1>1. RowsTyped' BY DEF TokensInv, RowsTyped
<1>2. TokensAreKnown'
  BY DEF TokensInv, TokensAreKnown, Known, HasToken, Refreshes, Holds
<1>3. \A i \in Id : \A grant : At(i, grant)' <=> At(i, grant)
  BY DEF At, HasToken, Refreshes, Holds
<1>4. GrantsAreSeparate' BY <1>3 DEF TokensInv, GrantsAreSeparate
<1>5. HoldersKnowTheRow'
  BY DEF TokensInv, HoldersKnowTheRow, HasToken, Refreshes, Holds
<1>6. OneHasTheUsable'
  BY DEF TokensInv, OneHasTheUsable, HasToken, Brings, Usable
<1> QED BY <1>1, <1>2, <1>4, <1>5, <1>6 DEF TokensInv

LEMMA NextTokensInv ==
  ASSUME TypeInv, TokensInv, ~ Fault, [Next]_vars
  PROVE  TokensInv'
<1> USE DEF Ended, provider
<1>1. ASSUME NEW s \in State, Authorize(s) PROVE TokensInv'
  BY <1>1, UnchangedTokens DEF Authorize
<1>2. ASSUME NEW r \in Request, NEW f \in 1..Len(flows), Callback(r, f)
      PROVE  TokensInv'
  BY <1>2, QuietKeepsTokens DEF Callback, Begins
<1>3. ASSUME NEW r \in Request, Exchanged(r) PROVE TokensInv'
  <2>1. PICK row \in Granted :
          Goes(r, [at |-> "store", row |-> row, flow |-> request[r].flow])
    BY <1>3 DEF Exchanged
  <2>2. /\ UNCHANGED <<rows, crossed>> /\ Len(grants) < MaxGrants
        /\ grants' = Append(grants, 1) /\ request[r].at = "exchange"
    BY <1>3 DEF Exchanged, Exchange
  <2> QED BY <2>1, <2>2, GrantKeepsTokens
<1>4. ASSUME NEW r \in Request, AskingFails(r) PROVE TokensInv'
  BY <1>4, QuietKeepsTokens DEF AskingFails
<1>5. ASSUME NEW r \in Request, StoreManually(r) PROVE TokensInv'
  <2>1. PICK row \in Granted :
          Goes(r, [at |-> "store", row |-> row, flow |-> None])
    BY <1>5 DEF StoreManually
  <2>2. /\ UNCHANGED <<rows, crossed>> /\ Len(grants) < MaxGrants
        /\ grants' = Append(grants, 1) /\ request[r].at = "waiting"
    BY <1>5 DEF StoreManually, Begins
  <2> QED BY <2>1, <2>2, GrantKeepsTokens
<1>6. ASSUME NEW r \in Request, CleanUp(r) PROVE TokensInv'
  BY <1>6, QuietKeepsTokens DEF CleanUp
<1>7. ASSUME NEW r \in Request, CommitRefresh(r) PROVE TokensInv'
  <2> PICK k : k = request[r].id OBVIOUS
  <2> DEFINE held == request[r]
             new == [rows[k] EXCEPT
                       !.token = IF held.token # held.read THEN held.token ELSE @,
                       !.revoked = IF held.expires THEN FALSE ELSE @]
  <2>1. /\ held.at = "commit" /\ held.op = "refresh" /\ Goes(r, Ended)
        /\ UNCHANGED <<grants, crossed>> /\ k \in Id
        /\ Refreshes(r, k)
    BY <1>7 DEF CommitRefresh, Commits, TokensInv, RowsTyped, Refreshes, Holds
  <2>2. rows' = IF rows[k] = None THEN rows ELSE [rows EXCEPT ![k] = new]
    BY <1>7 DEF CommitRefresh
  <2>3. Brings(r, k) <=> held.token # held.read BY <2>1 DEF Brings
  <2>4. held.token \in Token
    BY <2>1 DEF TokensInv, TokensAreKnown, Known
  <2>5. ASSUME rows[k] # None
        PROVE  /\ new \in [grant : 1..MaxGrants, token : Token \cup {None},
                           revoked : {rows[k].revoked, FALSE}]
               /\ new.grant = rows[k].grant
               /\ new.token = IF Brings(r, k) THEN request[r].token
                              ELSE rows[k].token
    <3>1. rows[k] \in Row BY <2>1, <2>5 DEF TokensInv, RowsTyped
    <3> QED BY <2>3, <2>4, <3>1 DEF Row
  <2>6. ASSUME rows[k] # None PROVE rows[k].revoked \in BOOLEAN
    BY <2>1, <2>6 DEF TokensInv, RowsTyped, Row
  <2>7. rows[k] # None => new \in Row
    <3> HIDE DEF new
    <3> QED BY <2>5, <2>6 DEF Row
  <2> HIDE DEF new
  <2> QED BY <2>1, <2>2, <2>5, <2>7, CommittingKeepsTokens
<1>8. ASSUME NEW r \in Request, CommitRevoke(r) PROVE TokensInv'
  <2> PICK k : k = request[r].id OBVIOUS
  <2> DEFINE new == [rows[k] EXCEPT !.revoked = TRUE]
  <2>1. /\ request[r].at = "commit" /\ Goes(r, Ended) /\ ~ Brings(r, k)
        /\ UNCHANGED <<grants, crossed>> /\ k \in Id
    BY <1>8 DEF CommitRevoke, Commits, TokensInv, RowsTyped, Brings
  <2>2. rows' = IF rows[k] = None THEN rows ELSE [rows EXCEPT ![k] = new]
    BY <1>8 DEF CommitRevoke
  <2>3. ASSUME rows[k] # None
        PROVE  /\ new \in Row /\ new.grant = rows[k].grant
               /\ new.token = rows[k].token
    <3>1. rows[k] \in Row BY <2>1, <2>3 DEF TokensInv, RowsTyped
    <3> QED BY <3>1 DEF Row
  <2> HIDE DEF new
  <2> QED BY <2>1, <2>2, <2>3, CommittingKeepsTokens
<1>9. CASE UNCHANGED vars BY <1>9, UnchangedTokens DEF vars
<1>10. ASSUME NEW r \in Request,
              ExchangeLost(r) \/ RefreshLost(r) \/ CommitFails(r) \/ Crash
       PROVE  FALSE
  BY <1>10 DEF ExchangeLost, RefreshLost, CommitFails, Crash
<1>11. ~ Crash BY DEF Crash
<1> QED
  BY <1>1, <1>2, <1>3, <1>4, <1>5, <1>6, <1>7, <1>8, <1>9, <1>10, <1>11,
     StoringKeepsTokens, LoadingKeepsTokens, RefreshingKeepsTokens,
     DeletingKeepsTokens DEF Next

LEMMA NextFaultlessInv ==
  ASSUME IInv, FaultlessInv, [Next]_vars
  PROVE  FaultlessInv'
<1> SUFFICES ASSUME faults' = MaxFaults PROVE TokensInv'
  BY DEF FaultlessInv
<1>1. ~ Fault BY FaultSpendsOne DEF IInv
<1>2. faults = MaxFaults
  BY <1>1 DEF Next, vars, Authorize, Callback, Exchanged, Exchange,
     ExchangeLost, AskingFails, StoreManually, StoreToken, CleanUp, Load,
     Refreshed, Refresh, RefreshLost, CommitRefresh, CommitRevoke,
     CommitDelete, Commits, CommitFails, Crash
<1> QED BY <1>1, <1>2, NextTokensInv DEF FaultlessInv, IInv

\* However refreshes, revocations, deletions and new tokens overlap, the
\* refresh token in a row is its own account's and the one the provider
\* accepts, or the one request that was given that is about to store it:
\* refresh_token stores what it was given, and store_token takes an id that no
\* request holds.  Excepted are faults, and ids whose row was deleted under a
\* request.
THEOREM TokensAlwaysStayUsable == Spec => []TokensStayUsable
<1>1. ASSUME FaultlessInv PROVE TokensStayUsable
  <2> SUFFICES ASSUME faults = MaxFaults, NEW i \in Id \ crossed, HasToken(i)
               PROVE  rows[i].token = Usable(i) \/ OnItsWay(i, Usable(i))
    BY DEF TokensStayUsable, HasToken, Usable
  <2>1. rows[i] # None BY DEF HasToken
  <2>2. \A r \in Request : Brings(r, i) => OnItsWay(i, Usable(i))
    BY <1>1, <2>1 DEF FaultlessInv, TokensInv, OneHasTheUsable, OnItsWay, Brings
  <2> QED BY <1>1, <2>1, <2>2 DEF FaultlessInv, TokensInv, OneHasTheUsable
<1>2. Init => FaultlessInv BY InitTokensInv DEF FaultlessInv
<1> QED BY <1>1, <1>2, InitIInv, NextIInv, NextFaultlessInv, PTL DEF Spec
=============================================================================
