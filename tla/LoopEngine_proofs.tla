-------------------------- MODULE LoopEngine_proofs --------------------------
(***************************************************************************)
(* Theorems about LoopEngine, for every set of streams, scores and limits: *)
(* each run implements GuardedLoop, a completed loop has a result, the row *)
(* of a run that is alone is consistent, and a cancellation holds.         *)
(***************************************************************************)
EXTENDS LoopEngine, FiniteSetTheorems, TLAPS

Status == {"pending", "running", "completed", "failed", "cancelled", "gone"}
PC == {"idle", "check", "work", "persist", "save", "judge", "finalize",
       "commit", "report", "failing", "ended"}
Reason == {"", "error", "cancelled", "disconnect", "stagnation",
           "threshold_reached", "max_iterations"}
RowRead == [status : Status, iteration : Nat, stored : Seq(Evaluation)]

TypeInv ==
  /\ status \in Status /\ maximum \in Nat \ {0}
  /\ iteration \in Nat /\ stored \in Seq(Evaluation)
  /\ pc \in [Run -> PC]
  /\ inherited \in [Run -> Seq(Evaluation)]
  /\ own \in [Run -> Seq(Evaluation)]
  /\ last \in [Run -> Score \cup {None}]
  /\ stagnation \in [Run -> Nat]
  /\ seen \in [Run -> RowRead \cup {None}]
  /\ reason \in [Run -> Reason]

-----------------------------------------------------------------------------
(* Histories: the counters against the guard. *)

\* Of the first n scores the last s failed to beat the one before, and no more.
Flat(h, n, s) ==
  /\ n = 0 => s = 0
  /\ n > 0 => s < n
  /\ \A k \in (n - s + 1)..n : h[k].score <= h[k - 1].score
  /\ s + 1 < n => h[n - s].score > h[n - s - 1].score

LEMMA ScoresAreInts ==
  ASSUME NEW h \in Seq(Evaluation), NEW k \in 1..Len(h)
  PROVE  h[k].score \in Int /\ h[k].score # None /\ h[k].score \in Score
<1>1. h[k] \in Evaluation OBVIOUS
<1>2. h[k].score \in Score BY <1>1 DEF Evaluation
<1> QED BY <1>2, LoopAssumption

\* Fewer flat scores than the limit: the history is not stagnant.
LEMMA FewAreNotStagnant ==
  ASSUME NEW h \in Seq(Evaluation), NEW s \in Nat, Flat(h, Len(h), s),
         s < StagnationLimit, NEW r \in Run
  PROVE  ~ Guard(r)!Stagnant(h)
<1> SUFFICES ASSUME Len(h) > StagnationLimit,
                    \A k \in (Len(h) - StagnationLimit + 1)..Len(h) :
                      h[k].score <= h[k - 1].score
             PROVE  FALSE
  BY DEF Guard!Stagnant
<1> DEFINE k == Len(h) - s
<1>1. /\ k \in (Len(h) - StagnationLimit + 1)..Len(h)
      /\ k \in 1..Len(h) /\ k - 1 \in 1..Len(h) /\ s + 1 < Len(h)
  BY LoopAssumption
<1>2. h[k].score <= h[k - 1].score BY <1>1
<1>3. h[k].score > h[k - 1].score BY <1>1 DEF Flat
<1>4. h[k].score \in Int /\ h[k - 1].score \in Int BY <1>1, ScoresAreInts
<1> QED BY <1>2, <1>3, <1>4

\* As many as the limit: it is.
LEMMA LimitIsStagnant ==
  ASSUME NEW h \in Seq(Evaluation), Len(h) > 0, NEW s \in Nat,
         Flat(h, Len(h), s), s = StagnationLimit, NEW r \in Run
  PROVE  Guard(r)!Stagnant(h)
BY LoopAssumption DEF Flat, Guard!Stagnant

\* The next score: the counter goes on when it is no better, else starts again.
LEMMA FlatNext ==
  ASSUME NEW h \in Seq(Evaluation), NEW n \in Nat, n + 1 = Len(h),
         NEW s \in Nat, Flat(h, n, s)
  PROVE  /\ n > 0 /\ h[n + 1].score <= h[n].score => Flat(h, n + 1, s + 1)
         /\ n = 0 \/ h[n + 1].score > h[n].score => Flat(h, n + 1, 0)
<1>1. ASSUME n > 0, h[n + 1].score <= h[n].score
      PROVE  Flat(h, n + 1, s + 1)
  <2>1. s + 1 < n + 1 BY <1>1 DEF Flat
  <2>2. ASSUME NEW k \in (n + 1 - (s + 1) + 1)..(n + 1)
        PROVE  h[k].score <= h[k - 1].score
    <3>1. CASE k = n + 1
      <4>1. k - 1 = n BY <3>1
      <4> QED BY <1>1, <3>1, <4>1
    <3>2. CASE k # n + 1
      <4>1. k \in (n - s + 1)..n BY <3>2
      <4> QED BY <4>1 DEF Flat
    <3> QED BY <3>1, <3>2
  <2>3. ASSUME s + 1 + 1 < n + 1
        PROVE  h[n + 1 - (s + 1)].score > h[n + 1 - (s + 1) - 1].score
    <3>1. n + 1 - (s + 1) = n - s /\ n + 1 - (s + 1) - 1 = n - s - 1 OBVIOUS
    <3>2. h[n - s].score > h[n - s - 1].score BY <2>3 DEF Flat
    <3> QED BY <3>1, <3>2
  <2> QED BY <2>1, <2>2, <2>3 DEF Flat
<1>2. ASSUME n = 0 \/ h[n + 1].score > h[n].score
      PROVE  Flat(h, n + 1, 0)
  <2>1. n + 1 - 0 = n + 1 /\ n + 1 - 0 - 1 = n /\ 0 + 1 = 1 OBVIOUS
  <2>2. (n + 1 - 0 + 1)..(n + 1) = {} OBVIOUS
  <2>3. 1 < n + 1 => h[n + 1].score > h[n].score BY <1>2
  <2> QED BY <2>1, <2>2, <2>3 DEF Flat
<1> QED BY <1>1, <1>2

LEMMA LimitIsPositive ==
  StagnationLimit \in Nat /\ 0 < StagnationLimit /\ Threshold \in Int
BY LoopAssumption

LEMMA NotAtLeast ==
  \A a \in Int : \A b \in Int : ~ (a >= b) => a < b
OBVIOUS

\* The counter after the next score, if that does not reach the limit; previous
\* is last_score.
LEMMA CounterGoesOn ==
  ASSUME NEW h \in Seq(Evaluation), NEW n \in Nat, n + 1 = Len(h),
         NEW s \in Nat, Flat(h, n, s), s < StagnationLimit,
         NEW previous, n = 0 => previous = None,
         n > 0 => previous = h[n].score,
         NEW next, \/ /\ previous # None /\ h[n + 1].score <= previous
                      /\ next = s + 1 /\ ~ (next >= StagnationLimit)
                   \/ /\ ~ (previous # None /\ h[n + 1].score <= previous)
                      /\ next = 0
  PROVE  Flat(h, n + 1, next) /\ next < StagnationLimit
<1>1. CASE n = 0
  <2>1. next = 0 BY <1>1
  <2>2. Flat(h, n + 1, 0) BY <1>1, FlatNext
  <2> QED BY <2>1, <2>2, LimitIsPositive
<1>2. CASE n > 0
  <2>1. n \in 1..Len(h) /\ n + 1 \in 1..Len(h) BY <1>2
  <2>2. /\ h[n].score \in Int /\ h[n].score # None
        /\ h[n + 1].score \in Int
    BY <2>1, ScoresAreInts
  <2>3. CASE h[n + 1].score <= h[n].score
    <3>1. next = s + 1 /\ ~ (next >= StagnationLimit)
      BY <1>2, <2>2, <2>3
    <3>2. next < StagnationLimit BY <3>1, LimitIsPositive
    <3>3. Flat(h, n + 1, s + 1) BY <1>2, <2>3, FlatNext
    <3> QED BY <3>1, <3>2, <3>3
  <2>4. CASE ~ (h[n + 1].score <= h[n].score)
    <3>1. next = 0 BY <1>2, <2>4
    <3>2. h[n + 1].score > h[n].score BY <2>2, <2>4
    <3>3. Flat(h, n + 1, 0) BY <3>2, FlatNext
    <3> QED BY <3>1, <3>3, LimitIsPositive
  <2> QED BY <2>3, <2>4
<1> QED BY <1>1, <1>2
-----------------------------------------------------------------------------
(* One run. *)

\* Before its reason is known a run's counters tell the history of the
\* evaluations it has judged, which has not asked to stop.
Open == {"idle", "check", "work", "persist", "save", "judge"}
Judging == {"persist", "save", "judge"}
Judged(r) == IF pc[r] \in Judging THEN Len(own[r]) - 1 ELSE Len(own[r])
GoesOn(r) ==
  /\ reason[r] = ""
  /\ Judged(r) \in Nat
  /\ Flat(own[r], Judged(r), stagnation[r])
  /\ stagnation[r] < StagnationLimit
  /\ Judged(r) = 0 => last[r] = None
  /\ Judged(r) > 0 => /\ last[r] = own[r][Judged(r)].score
                      /\ last[r] < Threshold /\ own[r][Judged(r)].again

RunInv(r) ==
  /\ Len(own[r]) <= maximum
  /\ pc[r] = "work" => Len(own[r]) < maximum
  /\ pc[r] = "idle" => own[r] = <<>>
  /\ pc[r] \in Open => GoesOn(r)

\* A run that may complete the row has made a step; what a session has read of
\* the row can only have been emptier than the row is.
RowInv(r) ==
  /\ pc[r] \in Judging \cup {"finalize", "commit"} => own[r] # <<>>
  /\ pc[r] \in {"save", "commit"} =>
       /\ seen[r] \in RowRead
       /\ seen[r].iteration > 0 => iteration > 0
       /\ seen[r].stored # <<>> => stored # <<>>

\* The inductive invariant.
IInv == TypeInv /\ (\A r \in Run : RunInv(r) /\ RowInv(r)) /\ CompletedHasResult

\* What a step of run r does to another run.
Apart(r) ==
  \A s \in Run \ {r} :
    /\ pc'[s] = pc[s] /\ own'[s] = own[s] /\ last'[s] = last[s]
    /\ stagnation'[s] = stagnation[s] /\ reason'[s] = reason[s]
    /\ seen'[s] = seen[s]

StreamStep(r) == Stream(r) \/ StartRun(r) \/ RejectRun(r) \/ Disconnect(r)

LEMMA InitIInv == ASSUME Init PROVE IInv
<1>1. TypeInv
  <2>1. maximum \in Nat \ {0}
    <3>1. PICK n \in AskedIterations : maximum = Capped(n) BY DEF Init
    <3> QED BY <3>1, LoopAssumption DEF Capped
  <2>2. <<>> \in Seq(Evaluation) OBVIOUS
  <2>3. /\ inherited \in [Run -> Seq(Evaluation)]
        /\ own \in [Run -> Seq(Evaluation)] /\ stored \in Seq(Evaluation)
    BY <2>2 DEF Init
  <2>4. pc \in [Run -> PC] /\ reason \in [Run -> Reason]
    BY DEF Init, PC, Reason
  <2> QED BY <2>1, <2>3, <2>4 DEF Init, TypeInv, Status
<1>2. ASSUME NEW r \in Run PROVE RunInv(r)
  <2>1. own[r] = <<>> /\ pc[r] = "idle" /\ last[r] = None /\ reason[r] = ""
    BY DEF Init
  <2>2. Len(own[r]) = 0 BY DEF Init
  <2>3. stagnation[r] = 0 BY DEF Init
  <2>4. Judged(r) = 0 BY <2>1, <2>2 DEF Judged, Judging
  <2>5. Flat(own[r], 0, 0) BY DEF Flat
  <2>6. 0 < StagnationLimit BY LoopAssumption
  <2>7. GoesOn(r)
    <3>1. Flat(own[r], Judged(r), stagnation[r]) BY <2>3, <2>4, <2>5
    <3>2. stagnation[r] < StagnationLimit BY <2>3, <2>6
    <3>3. Judged(r) \in Nat /\ ~ (Judged(r) > 0) BY <2>4
    <3> HIDE DEF Judged
    <3> QED BY <2>1, <3>1, <3>2, <3>3 DEF GoesOn
  <2>8. 0 <= maximum BY <1>1 DEF TypeInv
  <2>9. Len(own[r]) <= maximum BY <2>2, <2>8
  <2> QED BY <2>1, <2>7, <2>9 DEF RunInv
<1>3. ASSUME NEW r \in Run PROVE RowInv(r)
  BY DEF Init, RowInv, Judging
<1> QED BY <1>1, <1>2, <1>3 DEF IInv, Init, CompletedHasResult
-----------------------------------------------------------------------------
(* Types. *)

\* A save keeps what there is, or stores the run's own list, and after it the
\* row is not empty.
LEMMA SavedTyped ==
  ASSUME TypeInv, NEW r \in Run, RowInv(r), pc[r] \in {"save", "commit"},
         Saved(r)
  PROVE  /\ iteration' \in Nat /\ stored' \in Seq(Evaluation)
         /\ iteration' > 0 /\ stored' # <<>>
<1>1. /\ own[r] \in Seq(Evaluation) /\ inherited[r] \in Seq(Evaluation)
      /\ own[r] # <<>> /\ seen[r] \in RowRead
      /\ iteration \in Nat /\ stored \in Seq(Evaluation)
  BY DEF TypeInv, RowInv, Judging
<1>2. Len(own[r]) \in Nat \ {0} BY <1>1
<1>3. inherited[r] \o own[r] \in Seq(Evaluation) /\ inherited[r] \o own[r] # <<>>
  BY <1>1
<1>4. /\ iteration' = IF seen[r].iteration = Len(own[r]) THEN iteration
                      ELSE Len(own[r])
      /\ stored' = IF seen[r].stored = inherited[r] \o own[r] THEN stored
                   ELSE inherited[r] \o own[r]
  BY DEF Saved, Written, Row
<1>5. /\ seen[r].iteration > 0 => iteration > 0
      /\ seen[r].stored # <<>> => stored # <<>>
  BY DEF RowInv
<1>6. iteration' \in Nat /\ iteration' > 0
  BY <1>1, <1>2, <1>4, <1>5 DEF RowRead
<1>7. stored' \in Seq(Evaluation) /\ stored' # <<>>
  BY <1>1, <1>3, <1>4, <1>5
<1> QED BY <1>6, <1>7

LEMMA StreamTyped ==
  ASSUME TypeInv, NEW r \in Run, RowInv(r), StreamStep(r)
  PROVE  TypeInv' /\ Apart(r)
<1> USE DEF TypeInv, Apart, Step, Because, Counters, row
<1>1. CASE NoProvider(r) BY <1>1 DEF NoProvider, PC, Reason
<1>2. CASE CheckCancelled(r) BY <1>2 DEF CheckCancelled, PC, Reason
<1>3. CASE WorkFails(r) BY <1>3 DEF WorkFails, PC, Reason
<1>4. CASE Work(r)
  <2>1. PICK e \in Evaluation : own' = [own EXCEPT ![r] = Append(own[r], e)]
    BY <1>4 DEF Work
  <2>2. Append(own[r], e) \in Seq(Evaluation) OBVIOUS
  <2> QED BY <1>4, <2>1, <2>2 DEF Work, PC
<1>5. CASE PersistRead(r)
  <2>1. Row \in RowRead BY DEF Row, RowRead
  <2> QED BY <1>5, <2>1 DEF PersistRead, Read, PC
<1>6. CASE PersistCommit(r)
  BY <1>6, SavedTyped DEF PersistCommit, PC
<1>7. CASE Judge(r)
  <2>1. Stagnation(r) \in Nat BY DEF Stagnation
  <2>2. /\ stagnation' = [stagnation EXCEPT ![r] = Stagnation(r)]
        /\ UNCHANGED <<row, inherited, own, seen>> /\ pc[r] = "judge"
    BY <1>7 DEF Judge
  <2>3. stagnation' \in [Run -> Nat]
        /\ \A s \in Run \ {r} : stagnation'[s] = stagnation[s]
    BY <2>1, <2>2
  <2>4. CASE own[r] # <<>>
    <3>1. Latest(r).score \in Score
      BY <2>4, ScoresAreInts DEF Latest
    <3>2. last' \in [Run -> Score \cup {None}]
          /\ \A s \in Run \ {r} : last'[s] = last[s]
      BY <1>7, <3>1 DEF Judge
    <3>3. /\ pc' \in [Run -> PC] /\ reason' \in [Run -> Reason]
          /\ \A s \in Run \ {r} : pc'[s] = pc[s] /\ reason'[s] = reason[s]
      BY <1>7 DEF Judge, PC, Reason
    <3> QED BY <2>2, <2>3, <3>2, <3>3
  <2> QED BY <2>2, <2>4 DEF RowInv, Judging
<1>8. CASE MaximumReached(r) BY <1>8 DEF MaximumReached, PC, Reason
<1>9. CASE FinalizeRead(r)
  <2>1. Row \in RowRead BY DEF Row, RowRead
  <2> QED BY <1>9, <2>1 DEF FinalizeRead, Read, PC
<1>10. CASE FinalizeCommit(r)
  <2>1. status' \in Status
    BY <1>10 DEF FinalizeCommit, Written, Row, Status
  <2> QED BY <1>10, <2>1, SavedTyped DEF FinalizeCommit, PC
<1>11. CASE RowLost(r) BY <1>11 DEF RowLost, PC, Reason
<1>12. CASE ReportDone(r) BY <1>12 DEF ReportDone, PC
<1>13. CASE SetFailed(r) BY <1>13 DEF SetFailed, PC, Status
<1>14. CASE StartRun(r) BY <1>14 DEF StartRun, PC, Status
<1>15. CASE RejectRun(r) BY <1>15 DEF RejectRun, PC, Reason
<1>16. CASE Disconnect(r) BY <1>16 DEF Disconnect, PC, Reason
<1> QED BY <1>1, <1>2, <1>3, <1>4, <1>5, <1>6, <1>7, <1>8, <1>9, <1>10, <1>11,
           <1>12, <1>13, <1>14, <1>15, <1>16 DEF StreamStep, Stream
-----------------------------------------------------------------------------
(* What each step of a run keeps. *)

LEMMA GoesOnKept ==
  ASSUME TypeInv, NEW r \in Run, GoesOn(r), Judged(r)' = Judged(r),
         UNCHANGED <<own[r], last[r], stagnation[r], reason[r]>>
  PROVE  GoesOn(r)'
<1> HIDE DEF Judged
<1> QED BY DEF GoesOn

LEMMA WorkKeepsRunInv ==
  ASSUME TypeInv, NEW r \in Run, RunInv(r), Work(r)
  PROVE  RunInv(r)'
<1>1. PICK e \in Evaluation : own' = [own EXCEPT ![r] = Append(own[r], e)]
  BY DEF Work
<1>2. /\ pc[r] = "work" /\ pc'[r] = "persist" /\ maximum' = maximum
      /\ last'[r] = last[r] /\ stagnation'[r] = stagnation[r]
      /\ reason'[r] = reason[r]
  BY DEF Work, Step, TypeInv, row
<1>3. own[r] \in Seq(Evaluation) /\ own'[r] = Append(own[r], e)
  BY <1>1 DEF TypeInv
<1>4. /\ Len(own'[r]) = Len(own[r]) + 1 /\ Len(own[r]) \in Nat
      /\ \A k \in 1..Len(own[r]) : own'[r][k] = own[r][k]
  BY <1>3
<1>5. Judged(r) = Len(own[r]) /\ Judged(r)' = Len(own[r])
  BY <1>2, <1>4 DEF Judged, Judging
<1>6. GoesOn(r) BY <1>2 DEF RunInv, Open
<1>7. Flat(own'[r], Len(own[r]), stagnation[r])
  <2>1. Flat(own[r], Len(own[r]), stagnation[r]) /\ stagnation[r] \in Nat
    BY <1>5, <1>6 DEF GoesOn, TypeInv
  <2> DEFINE n == Len(own[r])
             s == stagnation[r]
  <2>2. ASSUME NEW k \in (n - s + 1)..n PROVE own'[r][k].score <= own'[r][k - 1].score
    <3>1. n > 0 /\ s < n BY <1>4, <2>1 DEF Flat
    <3>2. k \in 1..n /\ k - 1 \in 1..n BY <1>4, <2>1, <3>1
    <3>3. own[r][k].score <= own[r][k - 1].score BY <2>1 DEF Flat
    <3> QED BY <1>4, <3>2, <3>3
  <2>3. ASSUME s + 1 < n PROVE own'[r][n - s].score > own'[r][n - s - 1].score
    <3>1. n - s \in 1..n /\ n - s - 1 \in 1..n BY <1>4, <2>1, <2>3
    <3>2. own[r][n - s].score > own[r][n - s - 1].score BY <2>1, <2>3 DEF Flat
    <3> QED BY <1>4, <3>1, <3>2
  <2> QED BY <2>1, <2>2, <2>3 DEF Flat
<1>8. GoesOn(r)'
  <2>1. Judged(r) > 0 => own'[r][Judged(r)] = own[r][Judged(r)]
    BY <1>4, <1>5
  <2>2. Judged(r)' = Judged(r) /\ Judged(r) = Len(own[r]) BY <1>5
  <2> HIDE DEF Judged
  <2> QED BY <1>2, <1>6, <1>7, <2>1, <2>2 DEF GoesOn
<1>9. Len(own'[r]) <= maximum' BY <1>2, <1>4 DEF RunInv, TypeInv
<1> QED BY <1>2, <1>8, <1>9 DEF RunInv

\* Judging goes on only if the new score is better or the counter is below the
\* limit, and the score is below the threshold.
LEMMA JudgeKeepsRunInv ==
  ASSUME TypeInv, NEW r \in Run, RunInv(r), RowInv(r), Judge(r)
  PROVE  RunInv(r)'
<1>1. /\ pc[r] = "judge" /\ own' = own /\ maximum' = maximum
      /\ stagnation'[r] = Stagnation(r)
      /\ pc'[r] \in {"check", "finalize"}
      /\ pc'[r] = "check" => /\ ~ Stagnates(r) /\ reason'[r] = reason[r]
                             /\ last'[r] = Latest(r).score
                             /\ ~ (Latest(r).score >= Threshold)
                             /\ Latest(r).again
  BY DEF Judge, Step, Because, TypeInv, row
<1>2. CASE pc'[r] = "finalize" BY <1>1, <1>2 DEF RunInv, Open
<1>3. CASE pc'[r] = "check"
  <2> DEFINE h == own[r]
             n == Len(h) - 1
             s == stagnation[r]
  <2>1. h \in Seq(Evaluation) /\ Len(h) \in Nat \ {0} /\ n \in Nat
        /\ n + 1 = Len(h)
    BY <1>1 DEF RowInv, Judging, TypeInv
  <2>2. GoesOn(r) /\ Judged(r) = n
    BY <1>1 DEF RunInv, Open, Judged, Judging
  <2>3. /\ Flat(h, n, s) /\ s \in Nat /\ s < StagnationLimit
        /\ reason[r] = "" /\ (n = 0 => last[r] = None)
    BY <2>2 DEF GoesOn, TypeInv
  <2>4. n > 0 => last[r] = h[n].score BY <2>2 DEF GoesOn
  <2>5. Latest(r) = h[n + 1] BY <2>1 DEF Latest
  <2>6. Judged(r)' = n + 1 BY <1>1, <1>3, <2>1 DEF Judged, Judging
  <2>7. h[n + 1].score \in Int /\ Threshold \in Int
    BY <2>1, ScoresAreInts, LimitIsPositive
  <2>8. n > 0 => h[n].score \in Int /\ h[n].score # None
    BY <2>1, ScoresAreInts
  <2>9. Flat(h, n + 1, Stagnation(r)) /\ Stagnation(r) < StagnationLimit
    <3>1. \/ /\ last[r] # None /\ h[n + 1].score <= last[r]
             /\ Stagnation(r) = s + 1 /\ ~ (Stagnation(r) >= StagnationLimit)
          \/ /\ ~ (last[r] # None /\ h[n + 1].score <= last[r])
             /\ Stagnation(r) = 0
      BY <1>1, <1>3, <2>5 DEF NoBetter, Stagnation, Stagnates
    <3> HIDE DEF h, n, s
    <3> QED BY <2>1, <2>3, <2>4, <3>1, CounterGoesOn
  <2>10. GoesOn(r)'
    <3>1. /\ own'[r] = h /\ stagnation'[r] = Stagnation(r)
          /\ last'[r] = h[n + 1].score /\ reason'[r] = ""
          /\ ~ (h[n + 1].score >= Threshold) /\ h[n + 1].again
      BY <1>1, <1>3, <2>3, <2>5
    <3>3. h[n + 1].score < Threshold
      BY <2>7, <3>1, NotAtLeast
    <3>2. n + 1 \in Nat /\ n + 1 # 0 BY <2>1
    <3> HIDE DEF h, n, Judged
    <3> QED BY <2>6, <2>9, <3>1, <3>2, <3>3 DEF GoesOn
  <2> QED BY <1>1, <1>3, <2>10 DEF RunInv
<1> QED BY <1>1, <1>2, <1>3

\* Every other step leaves the run's history and counters alone, and goes on to
\* work only below the maximum.
LEMMA OtherStepsKeepRunInv ==
  ASSUME TypeInv, NEW r \in Run, RunInv(r), StreamStep(r), ~ Work(r), ~ Judge(r)
  PROVE  RunInv(r)'
<1> USE DEF TypeInv, Step, Because, Counters, row
<1>1. /\ maximum' = maximum /\ own'[r] = own[r]
      /\ last'[r] = last[r] /\ stagnation'[r] = stagnation[r]
  BY DEF StreamStep, Stream, NoProvider, CheckCancelled, WorkFails, PersistRead,
         PersistCommit, MaximumReached, FinalizeRead, FinalizeCommit, RowLost,
         ReportDone, SetFailed, StartRun, RejectRun, Disconnect
<1>2. \/ pc'[r] \notin Open
      \/ /\ reason'[r] = reason[r]
         /\ \/ pc[r] = "idle" /\ pc'[r] = "check"
            \/ pc[r] = "check" /\ pc'[r] = "work" /\ Len(own[r]) < maximum
            \/ pc[r] = "persist" /\ pc'[r] \in {"save", "judge"}
            \/ pc[r] = "save" /\ pc'[r] = "judge"
  BY DEF StreamStep, Stream, NoProvider, CheckCancelled, WorkFails, PersistRead,
         PersistCommit, MaximumReached, FinalizeRead, FinalizeCommit, RowLost,
         ReportDone, SetFailed, StartRun, RejectRun, Disconnect, Open
<1>3. CASE pc'[r] \notin Open
  BY <1>1, <1>3 DEF RunInv, Open
<1>4. CASE pc'[r] \in Open
  <2>1. Judged(r)' = Judged(r) BY <1>1, <1>2, <1>4 DEF Judged, Judging
  <2>2. GoesOn(r) /\ reason'[r] = reason[r] BY <1>2, <1>4 DEF RunInv, Open
  <2>3. GoesOn(r)' BY <1>1, <2>1, <2>2, GoesOnKept
  <2> QED BY <1>1, <1>2, <1>4, <2>3 DEF RunInv
<1> QED BY <1>3, <1>4
-----------------------------------------------------------------------------
(* The row. *)

\* No step empties the row, and one that completes it has stored a step.
LEMMA RowGrows ==
  ASSUME TypeInv, NEW r \in Run, RowInv(r), StreamStep(r)
  PROVE  /\ maximum' = maximum
         /\ iteration > 0 => iteration' > 0
         /\ stored # <<>> => stored' # <<>>
         /\ CompletedHasResult => CompletedHasResult'
<1>1. CASE PersistCommit(r)
  BY <1>1, SavedTyped DEF PersistCommit, Step, CompletedHasResult
<1>2. CASE FinalizeCommit(r)
  BY <1>2, SavedTyped DEF FinalizeCommit, Step, CompletedHasResult
<1>3. CASE ~ PersistCommit(r) /\ ~ FinalizeCommit(r)
  BY <1>3 DEF StreamStep, Stream, NoProvider, CheckCancelled, WorkFails, Work,
       PersistRead, Judge, MaximumReached, FinalizeRead, RowLost, ReportDone,
       SetFailed, StartRun, RejectRun, Disconnect, row, CompletedHasResult
<1> QED BY <1>1, <1>2, <1>3

LEMMA AppendedIsNotEmpty ==
  ASSUME NEW h \in Seq(Evaluation), NEW e \in Evaluation
  PROVE  Append(h, e) # <<>>
<1>1. Len(Append(h, e)) = Len(h) + 1 /\ Len(h) \in Nat OBVIOUS
<1>2. Len(<<>>) = 0 OBVIOUS
<1> QED BY <1>1, <1>2

LEMMA StreamKeepsRowInv ==
  ASSUME TypeInv, NEW r \in Run, RowInv(r), StreamStep(r)
  PROVE  RowInv(r)'
<1> USE DEF TypeInv, Step, Because, Counters, row
<1>1. ASSUME pc'[r] \in Judging \cup {"finalize", "commit"}
      PROVE  own'[r] # <<>>
  <2>1. CASE Work(r)
    <3>1. PICK e \in Evaluation : own' = [own EXCEPT ![r] = Append(own[r], e)]
      BY <2>1 DEF Work
    <3>2. own[r] \in Seq(Evaluation) /\ own'[r] = Append(own[r], e) BY <3>1
    <3> QED BY <3>2, AppendedIsNotEmpty
  <2>2. CASE MaximumReached(r)
    <3>1. Len(own[r]) >= maximum /\ own'[r] = own[r]
      BY <2>2 DEF MaximumReached
    <3> QED BY <3>1
  <2>3. CASE ~ Work(r) /\ ~ MaximumReached(r)
    <3>1. own'[r] = own[r] /\ pc[r] \in Judging \cup {"finalize", "commit"}
      BY <1>1, <2>3 DEF StreamStep, Stream, NoProvider, CheckCancelled,
           WorkFails, PersistRead, PersistCommit, Judge, FinalizeRead,
           FinalizeCommit, RowLost, ReportDone, SetFailed, StartRun, RejectRun,
           Disconnect, Judging
    <3> QED BY <3>1 DEF RowInv
  <2> QED BY <2>1, <2>2, <2>3
<1>2. ASSUME pc'[r] \in {"save", "commit"}
      PROVE  /\ seen'[r] = Row
             /\ iteration' = iteration /\ stored' = stored
  <2>1. PersistRead(r) \/ FinalizeRead(r)
    BY <1>2 DEF StreamStep, Stream, NoProvider, CheckCancelled, WorkFails, Work,
         PersistCommit, Judge, MaximumReached, FinalizeCommit, RowLost,
         ReportDone, SetFailed, StartRun, RejectRun, Disconnect
  <2> QED BY <2>1 DEF PersistRead, FinalizeRead, Read
<1>3. /\ Row \in RowRead /\ Row.iteration = iteration /\ Row.stored = stored
  BY DEF Row, RowRead
<1> QED BY <1>1, <1>2, <1>3 DEF RowInv

LEMMA OthersAreKept ==
  ASSUME TypeInv, NEW r \in Run, Apart(r), NEW s \in Run \ {r},
         RunInv(s), RowInv(s), maximum' = maximum,
         iteration > 0 => iteration' > 0, stored # <<>> => stored' # <<>>
  PROVE  RunInv(s)' /\ RowInv(s)'
<1>1. /\ pc'[s] = pc[s] /\ own'[s] = own[s] /\ last'[s] = last[s]
      /\ stagnation'[s] = stagnation[s] /\ reason'[s] = reason[s]
      /\ seen'[s] = seen[s]
  BY DEF Apart
<1>2. Judged(s)' = Judged(s) BY <1>1 DEF Judged
<1>3. GoesOn(s) => GoesOn(s)' BY <1>1, <1>2, GoesOnKept
<1>4. RunInv(s)' BY <1>1, <1>3 DEF RunInv
<1>5. RowInv(s)' BY <1>1 DEF RowInv
<1> QED BY <1>4, <1>5

\* What users do leaves the runs and what they store alone.
LEMMA RunsAreLeftAlone ==
  ASSUME TypeInv, UNCHANGED <<maximum, iteration, stored, pc, Counters, reason>>,
         NEW s \in Run, RunInv(s), RowInv(s)
  PROVE  RunInv(s)' /\ RowInv(s)'
<1>1. Judged(s)' = Judged(s) BY DEF Judged, Counters
<1>2. GoesOn(s) => GoesOn(s)' BY <1>1, GoesOnKept DEF Counters
<1>3. RunInv(s)' BY <1>2 DEF RunInv, Counters
<1>4. RowInv(s)' BY DEF RowInv, Counters
<1> QED BY <1>3, <1>4

LEMMA NextKeepsIInv == ASSUME IInv, [Next]_vars PROVE IInv'
<1>1. ASSUME NEW r \in Run, StreamStep(r) PROVE IInv'
  <2>1. TypeInv /\ RunInv(r) /\ RowInv(r) BY DEF IInv
  <2>2. TypeInv' /\ Apart(r) BY <1>1, <2>1, StreamTyped
  <2>3. RunInv(r)'
    BY <1>1, <2>1, WorkKeepsRunInv, JudgeKeepsRunInv, OtherStepsKeepRunInv
  <2>4. RowInv(r)' BY <1>1, <2>1, StreamKeepsRowInv
  <2>5. /\ maximum' = maximum
        /\ iteration > 0 => iteration' > 0
        /\ stored # <<>> => stored' # <<>>
        /\ CompletedHasResult'
    BY <1>1, <2>1, RowGrows DEF IInv
  <2>6. ASSUME NEW s \in Run \ {r} PROVE RunInv(s)' /\ RowInv(s)'
    <3>1. RunInv(s) /\ RowInv(s) BY DEF IInv
    <3> QED BY <2>1, <2>2, <2>5, <3>1, OthersAreKept
  <2>7. \A s \in Run : RunInv(s)' /\ RowInv(s)' BY <2>3, <2>4, <2>6
  <2> QED BY <2>2, <2>5, <2>7 DEF IInv
<1>2. CASE CancelLoop
  <2>1. /\ UNCHANGED <<maximum, iteration, stored, pc, Counters, reason>>
        /\ status' = "cancelled"
    BY <1>2 DEF CancelLoop
  <2>2. \A s \in Run : RunInv(s)' /\ RowInv(s)'
    BY <2>1, RunsAreLeftAlone DEF IInv
  <2>3. TypeInv' BY <2>1 DEF IInv, TypeInv, Status, Counters
  <2> QED BY <2>1, <2>2, <2>3 DEF IInv, CompletedHasResult
<1>3. CASE DeleteLoop
  <2>1. /\ UNCHANGED <<maximum, iteration, stored, pc, Counters, reason>>
        /\ status' = "gone"
    BY <1>3 DEF DeleteLoop
  <2>2. \A s \in Run : RunInv(s)' /\ RowInv(s)'
    BY <2>1, RunsAreLeftAlone DEF IInv
  <2>3. TypeInv' BY <2>1 DEF IInv, TypeInv, Status, Counters
  <2> QED BY <2>1, <2>2, <2>3 DEF IInv, CompletedHasResult
<1>4. CASE UNCHANGED vars
  <2>1. UNCHANGED <<maximum, iteration, stored, pc, Counters, reason>>
        /\ status' = status
    BY <1>4 DEF vars, row, Counters
  <2>2. \A s \in Run : RunInv(s)' /\ RowInv(s)'
    BY <2>1, RunsAreLeftAlone DEF IInv
  <2>3. TypeInv' BY <2>1 DEF IInv, TypeInv, Counters
  <2> QED BY <2>1, <2>2, <2>3 DEF IInv, CompletedHasResult
<1> QED BY <1>1, <1>2, <1>3, <1>4 DEF Next, StreamStep

-----------------------------------------------------------------------------
(* Each run implements GuardedLoop. *)

\* While the run goes on its counters say that the history does not ask to stop.
LEMMA GoesOnUnasked ==
  ASSUME TypeInv, NEW r \in Run, GoesOn(r), Judged(r) = Len(own[r]),
         Len(own[r]) < maximum
  PROVE  ~ Guard(r)!MustStop(own[r])
<1>1. own[r] \in Seq(Evaluation) /\ Len(own[r]) \in Nat BY DEF TypeInv
<1>2. ~ Guard(r)!Stagnant(own[r])
  <2>1. /\ Flat(own[r], Len(own[r]), stagnation[r])
        /\ stagnation[r] < StagnationLimit /\ stagnation[r] \in Nat
    BY DEF GoesOn, TypeInv
  <2> QED BY <1>1, <2>1, FewAreNotStagnant
<1>3. ~ Guard(r)!Satisfied(own[r])
  <2>1. CASE Len(own[r]) > 0
    <3>1. /\ own[r][Len(own[r])].score < Threshold
          /\ own[r][Len(own[r])].again
      BY <2>1 DEF GoesOn
    <3>2. own[r][Len(own[r])].score \in Int
      BY <1>1, <2>1, ScoresAreInts
    <3>3. ~ (own[r][Len(own[r])].score >= Threshold)
      BY <3>1, <3>2, LimitIsPositive
    <3> QED BY <3>1, <3>3 DEF Guard!Satisfied
  <2>2. CASE ~ (Len(own[r]) > 0) BY <2>2 DEF Guard!Satisfied
  <2> QED BY <2>1, <2>2
<1>4. Len(own[r]) # maximum BY <1>1 DEF TypeInv
<1> QED BY <1>2, <1>3, <1>4 DEF Guard!MustStop

LEMMA WorkIterates ==
  ASSUME TypeInv, NEW r \in Run, RunInv(r), Work(r)
  PROVE  Guard(r)!Iterate
<1>1. /\ pc[r] = "work" /\ maximum' = maximum /\ reason' = reason
  BY DEF Work, Step, row
<1>2. GoesOn(r) /\ Judged(r) = Len(own[r]) /\ Len(own[r]) < maximum
  BY <1>1 DEF RunInv, Open, Judged, Judging
<1>3. ~ Guard(r)!MustStop(own[r]) BY <1>2, GoesOnUnasked
<1>4. Outcome(r) = "open" /\ Outcome(r)' = Outcome(r)
  BY <1>1, <1>2 DEF GoesOn, Outcome
<1>5. PICK e \in Evaluation : own' = [own EXCEPT ![r] = Append(own[r], e)]
  BY DEF Work
<1>6. own'[r] = Append(own[r], [score |-> e.score, again |-> e.again])
  BY <1>5 DEF TypeInv, Evaluation
<1>7. e.score \in Score /\ e.again \in BOOLEAN BY DEF Evaluation
<1> QED BY <1>1, <1>3, <1>4, <1>6, <1>7 DEF Guard!Iterate

\* A run that judges its last evaluation finishes only as its history asks.
LEMMA JudgeFinishes ==
  ASSUME TypeInv, NEW r \in Run, RunInv(r), RowInv(r), Judge(r)
  PROVE  Guard(r)!Finish \/ UNCHANGED <<maximum, own[r], Outcome(r)>>
<1>1. pc[r] = "judge" /\ own' = own /\ maximum' = maximum
  BY DEF Judge, row
<1>2. GoesOn(r) BY <1>1 DEF RunInv, Open
<1>3. reason[r] = "" /\ Outcome(r) = "open" BY <1>2 DEF GoesOn, Outcome
<1>4. own[r] \in Seq(Evaluation) /\ own[r] # <<>> /\ Len(own[r]) \in Nat \ {0}
  BY <1>1 DEF TypeInv, RowInv, Judging
<1>5. CASE Stagnates(r)
  <2>1. reason'[r] = "stagnation"
    BY <1>5 DEF Judge, Because, TypeInv
  <2>2. Outcome(r)' = "finished" BY <2>1 DEF Outcome
  <2>3. Guard(r)!Stagnant(own[r])
    <3> DEFINE n == Len(own[r]) - 1
               s == stagnation[r]
    <3>1. n \in Nat /\ n + 1 = Len(own[r]) /\ Judged(r) = n
      BY <1>1, <1>4 DEF Judged, Judging
    <3>2. /\ Flat(own[r], n, s) /\ s \in Nat /\ s < StagnationLimit
          /\ n = 0 => last[r] = None
          /\ n > 0 => last[r] = own[r][n].score
      BY <1>2, <3>1 DEF GoesOn, TypeInv
    <3>3. /\ last[r] # None /\ own[r][n + 1].score <= last[r]
          /\ s + 1 >= StagnationLimit
      BY <1>5, <3>1 DEF Stagnates, NoBetter, Stagnation, Latest
    <3>4. n > 0
      <4> HIDE DEF n, s
      <4> QED BY <3>1, <3>2, <3>3
    <3>5. Flat(own[r], n + 1, s + 1)
      <4> HIDE DEF n, s
      <4> QED BY <1>4, <3>1, <3>2, <3>3, <3>4, FlatNext
    <3>6. s + 1 = StagnationLimit BY <3>2, <3>3, LimitIsPositive
    <3>7. Flat(own[r], Len(own[r]), StagnationLimit) BY <3>1, <3>5, <3>6
    <3> QED BY <1>4, <3>7, LimitIsStagnant, LimitIsPositive
  <2> QED BY <1>1, <1>3, <2>2, <2>3 DEF Guard!Finish, Guard!MustStop
<1>6. CASE ~ Stagnates(r) /\ (Latest(r).score >= Threshold \/ ~ Latest(r).again)
  <2>1. reason'[r] = "threshold_reached"
    BY <1>6 DEF Judge, Because, TypeInv
  <2>2. Outcome(r)' = "finished" BY <2>1 DEF Outcome
  <2>3. Guard(r)!Satisfied(own[r]) BY <1>4, <1>6 DEF Guard!Satisfied, Latest
  <2> QED BY <1>1, <1>3, <2>2, <2>3 DEF Guard!Finish, Guard!MustStop
<1>7. CASE ~ Stagnates(r) /\ ~ (Latest(r).score >= Threshold \/ ~ Latest(r).again)
  <2>1. reason' = reason BY <1>7 DEF Judge
  <2> QED BY <1>1, <2>1 DEF Outcome
<1> QED BY <1>5, <1>6, <1>7

LEMMA MaximumFinishes ==
  ASSUME TypeInv, NEW r \in Run, RunInv(r), MaximumReached(r)
  PROVE  Guard(r)!Finish
<1>1. /\ pc[r] = "check" /\ Len(own[r]) >= maximum
      /\ own' = own /\ maximum' = maximum /\ reason'[r] = "max_iterations"
  BY DEF MaximumReached, Step, Because, row, Counters, TypeInv
<1>2. own[r] \in Seq(Evaluation) /\ Len(own[r]) \in Nat BY DEF TypeInv
<1>3. Len(own[r]) = maximum BY <1>1, <1>2 DEF RunInv, TypeInv
<1>4. reason[r] = "" BY <1>1 DEF RunInv, Open, GoesOn
<1>5. Outcome(r) = "open" /\ Outcome(r)' = "finished"
  BY <1>1, <1>4 DEF Outcome
<1> QED BY <1>1, <1>3, <1>5 DEF Guard!Finish, Guard!MustStop

\* The other steps give up, or do not concern the guard.
LEMMA OtherStepsAbort ==
  ASSUME TypeInv, NEW r \in Run, RunInv(r), StreamStep(r),
         ~ Work(r), ~ Judge(r), ~ MaximumReached(r)
  PROVE  Guard(r)!Abort \/ UNCHANGED <<maximum, own[r], Outcome(r)>>
<1>1. maximum' = maximum /\ own'[r] = own[r]
  BY DEF StreamStep, Stream, NoProvider, CheckCancelled, WorkFails, PersistRead,
         PersistCommit, FinalizeRead, FinalizeCommit, RowLost, ReportDone,
         SetFailed, StartRun, RejectRun, Disconnect, Counters, row
<1>2. pc[r] \in {"idle", "check", "work"} => reason[r] = ""
  BY DEF RunInv, Open, GoesOn
<1>3. \/ reason'[r] = reason[r]
      \/ reason[r] = "" /\ reason'[r] \in {"error", "cancelled", "disconnect"}
  BY <1>2 DEF StreamStep, Stream, NoProvider, CheckCancelled, WorkFails,
         PersistRead, PersistCommit, FinalizeRead, FinalizeCommit, RowLost,
         ReportDone, SetFailed, StartRun, RejectRun, Disconnect, Counters, row,
         Because, Step, TypeInv
<1>4. CASE reason'[r] = reason[r] BY <1>1, <1>4 DEF Outcome
<1>5. CASE /\ reason[r] = ""
           /\ reason'[r] \in {"error", "cancelled", "disconnect"}
  <2>1. Outcome(r) = "open" /\ Outcome(r)' = "aborted"
    BY <1>5 DEF Outcome
  <2> QED BY <1>1, <2>1 DEF Guard!Abort
<1> QED BY <1>3, <1>4, <1>5

LEMMA StepsAreGuarded ==
  ASSUME IInv, [Next]_vars, NEW r \in Run
  PROVE  Guard(r)!Next \/ UNCHANGED <<maximum, own[r], Outcome(r)>>
<1>1. TypeInv /\ RunInv(r) /\ RowInv(r) BY DEF IInv
<1>2. CASE StreamStep(r)
  BY <1>1, <1>2, WorkIterates, JudgeFinishes, MaximumFinishes, OtherStepsAbort
     DEF Guard!Next
<1>3. ASSUME NEW q \in Run, StreamStep(q), q # r
      PROVE  UNCHANGED <<maximum, own[r], Outcome(r)>>
  <2>1. TypeInv /\ RowInv(q) BY DEF IInv
  <2>2. Apart(q) /\ maximum' = maximum BY <1>3, <2>1, StreamTyped, RowGrows
  <2>3. own'[r] = own[r] /\ reason'[r] = reason[r] BY <1>3, <2>2 DEF Apart
  <2> QED BY <2>2, <2>3 DEF Outcome
<1>4. CASE CancelLoop \/ DeleteLoop \/ UNCHANGED vars
  BY <1>4 DEF CancelLoop, DeleteLoop, vars, row, Counters, Outcome
<1> QED BY <1>2, <1>3, <1>4 DEF Next, StreamStep

LEMMA RunsBeginGuarded == ASSUME Init PROVE \A r \in Run : Guard(r)!Init
<1>1. maximum \in Nat \ {0} BY InitIInv DEF IInv, TypeInv
<1>2. ASSUME NEW r \in Run PROVE own[r] = <<>> /\ Outcome(r) = "open"
  BY DEF Init, Outcome
<1> QED BY <1>1, <1>2 DEF Guard!Init

LEMMA Invariant == Spec => []IInv
<1>1. Init => IInv BY InitIInv
<1>2. IInv /\ [Next]_vars => IInv' BY NextKeepsIInv
<1> QED BY <1>1, <1>2, PTL DEF Spec

\* A loop that says "completed" has a result (_finalize), for every number of
\* streams, whatever cancels, fails or overwrites in between.
THEOREM CompletedAlwaysHasResult == Spec => []CompletedHasResult
<1>1. IInv => CompletedHasResult BY DEF IInv
<1> QED BY <1>1, Invariant, PTL
\* run_loop's counters (iterations, last_score, stagnation_count) implement the
\* guard over the whole history: no iteration after it asked to stop, none
\* missing, and an ending it explains.
THEOREM RunsAreAlwaysGuarded == Spec => RunsAreGuarded
<1>1. Init => \A r \in Run : Guard(r)!Init BY RunsBeginGuarded
<1>2. IInv /\ [Next]_vars =>
        [\A r \in Run :
           Guard(r)!Next \/ UNCHANGED <<maximum, own[r], Outcome(r)>>]_vars
  BY StepsAreGuarded
<1> QED BY <1>1, <1>2, Invariant, PTL DEF Spec, RunsAreGuarded
-----------------------------------------------------------------------------
(* The row while at most one run has begun, and what a cancellation survives. *)

Active == {r \in Run : pc[r] # "idle"}
AtMostOne(S) == \A r, s \in S : r = s

\* A run that is alone inherits nothing, and the row its session has read is
\* still the row when it commits.
Alone ==
  /\ iteration = Len(stored)
  /\ \A r \in Run : inherited[r] = <<>>
  /\ \A r \in Run : pc[r] \in {"save", "commit"} =>
       seen[r].iteration = iteration /\ seen[r].stored = stored

\* A run completes the row only if it has read it before a cancellation.
CommitsUncancelled ==
  \A r \in Run : pc[r] = "commit" => seen[r].status # "cancelled"

ProgressInv ==
  /\ IsFiniteSet(Active)
  /\ Active = {} => stored = <<>>
  /\ AtMostOne(Active) => Alone
  /\ CommitsUncancelled

LEMMA InitProgress == ASSUME Init PROVE ProgressInv
<1>1. Active = {} BY DEF Init, Active
<1>2. IsFiniteSet(Active) BY <1>1, FS_EmptySet
<1>3. Len(<<>>) = 0 OBVIOUS
<1>4. Alone BY <1>3 DEF Init, Alone
<1> QED BY <1>2, <1>4 DEF Init, ProgressInv, CommitsUncancelled

LEMMA StreamIsActive ==
  ASSUME TypeInv, TypeInv', NEW r \in Run, Apart(r), StreamStep(r)
  PROVE  Active' = Active \cup {r}
<1>1. pc'[r] # "idle"
  BY DEF StreamStep, Stream, NoProvider, CheckCancelled, WorkFails, Work,
         PersistRead, PersistCommit, Judge, MaximumReached, FinalizeRead,
         FinalizeCommit, RowLost, ReportDone, SetFailed, StartRun, RejectRun,
         Disconnect, Step, TypeInv
<1>2. \A s \in Run \ {r} : pc'[s] = pc[s] BY DEF Apart
<1> QED BY <1>1, <1>2 DEF Active

\* A run that saves what it alone has made leaves counter and list in step.
LEMMA SavedAlone ==
  ASSUME TypeInv, Alone, NEW r \in Run, pc[r] \in {"save", "commit"}, Saved(r)
  PROVE  iteration' = Len(stored')
<1>1. /\ seen[r].iteration = iteration /\ seen[r].stored = stored
      /\ inherited[r] = <<>> /\ own[r] \in Seq(Evaluation)
  BY DEF Alone, TypeInv
<1>2. <<>> \o own[r] = own[r] BY <1>1
<1>3. iteration' = Len(own[r]) BY <1>1 DEF Saved, Written, Row
<1>4. stored' = own[r] BY <1>1, <1>2 DEF Saved, Written, Row
<1> QED BY <1>3, <1>4

LEMMA StreamKeepsAlone ==
  ASSUME TypeInv, TypeInv', NEW r \in Run, Apart(r), StreamStep(r),
         ProgressInv, AtMostOne(Active')
  PROVE  Alone'
<1>1. Active \subseteq {r} /\ \A s \in Run \ {r} : pc'[s] = "idle"
  <2>1. Active' = Active \cup {r} BY StreamIsActive
  <2> QED BY <2>1 DEF AtMostOne, Active
<1>2. Alone BY <1>1 DEF ProgressInv, AtMostOne
<1>3. iteration' = Len(stored')
  <2>1. CASE PersistCommit(r) \/ FinalizeCommit(r)
    BY <1>2, <2>1, SavedAlone DEF PersistCommit, FinalizeCommit, Step
  <2>2. CASE ~ PersistCommit(r) /\ ~ FinalizeCommit(r)
    <3>1. iteration' = iteration /\ stored' = stored
      BY <2>2 DEF StreamStep, Stream, NoProvider, CheckCancelled, WorkFails,
           Work, PersistRead, Judge, MaximumReached, FinalizeRead, RowLost,
           ReportDone, SetFailed, StartRun, RejectRun, Disconnect, row
    <3> QED BY <1>2, <3>1 DEF Alone
  <2> QED BY <2>1, <2>2
<1>4. \A s \in Run : inherited'[s] = <<>>
  <2>1. CASE StartRun(r)
    <3>1. pc[r] = "idle" /\ inherited' = [inherited EXCEPT ![r] = stored]
      BY <2>1 DEF StartRun, Step
    <3>2. Active = {} BY <1>1, <3>1 DEF Active
    <3>3. stored = <<>> BY <3>2 DEF ProgressInv
    <3> QED BY <1>2, <3>1, <3>3 DEF Alone, TypeInv
  <2>2. CASE ~ StartRun(r)
    <3>1. inherited' = inherited
      BY <2>2 DEF StreamStep, Stream, NoProvider, CheckCancelled, WorkFails,
           Work, PersistRead, PersistCommit, Judge, MaximumReached, Counters,
           FinalizeRead, FinalizeCommit, RowLost, ReportDone, SetFailed,
           RejectRun, Disconnect
    <3> QED BY <1>2, <3>1 DEF Alone
  <2> QED BY <2>1, <2>2
<1>5. ASSUME NEW s \in Run, pc'[s] \in {"save", "commit"}
      PROVE  seen'[s].iteration = iteration' /\ seen'[s].stored = stored'
  <2>1. s = r BY <1>1, <1>5
  <2>2. PersistRead(r) \/ FinalizeRead(r)
    BY <1>5, <2>1 DEF StreamStep, Stream, NoProvider, CheckCancelled, WorkFails,
         Work, PersistCommit, Judge, MaximumReached, FinalizeCommit, RowLost,
         ReportDone, SetFailed, StartRun, RejectRun, Disconnect, Step, TypeInv
  <2>3. seen'[r] = Row /\ iteration' = iteration /\ stored' = stored
    BY <2>2 DEF PersistRead, FinalizeRead, Read, TypeInv, row
  <2> QED BY <2>1, <2>3 DEF Row
<1> QED BY <1>3, <1>4, <1>5 DEF Alone

LEMMA StreamKeepsUncancelled ==
  ASSUME TypeInv, NEW r \in Run, Apart(r), StreamStep(r), CommitsUncancelled
  PROVE  CommitsUncancelled'
<1> SUFFICES ASSUME NEW s \in Run, pc'[s] = "commit"
             PROVE  seen'[s].status # "cancelled"
  BY DEF CommitsUncancelled
<1>1. CASE s # r BY <1>1 DEF Apart, CommitsUncancelled
<1>2. CASE s = r
  <2>1. FinalizeRead(r)
    BY <1>2 DEF StreamStep, Stream, NoProvider, CheckCancelled, WorkFails,
         Work, PersistRead, PersistCommit, Judge, MaximumReached,
         FinalizeCommit, RowLost, ReportDone, SetFailed, StartRun, RejectRun,
         Disconnect, Step, TypeInv
  <2>2. seen'[r] = Row /\ status \notin {"gone", "cancelled"}
    BY <1>2, <2>1 DEF FinalizeRead, Read, Step, TypeInv
  <2> QED BY <1>2, <2>2 DEF Row
<1> QED BY <1>1, <1>2

LEMMA NextKeepsProgress ==
  ASSUME IInv, IInv', ProgressInv, [Next]_vars
  PROVE  ProgressInv'
<1>1. TypeInv /\ TypeInv' BY DEF IInv
<1>2. ASSUME NEW r \in Run, StreamStep(r) PROVE ProgressInv'
  <2>1. Apart(r) BY <1>1, <1>2, StreamTyped DEF IInv
  <2>2. Active' = Active \cup {r} BY <1>1, <1>2, <2>1, StreamIsActive
  <2>3. IsFiniteSet(Active') BY <2>2, FS_AddElement DEF ProgressInv
  <2>4. AtMostOne(Active') => Alone' BY <1>1, <1>2, <2>1, StreamKeepsAlone
  <2>5. CommitsUncancelled'
    BY <1>1, <1>2, <2>1, StreamKeepsUncancelled DEF ProgressInv
  <2> QED BY <2>2, <2>3, <2>4, <2>5 DEF ProgressInv, AtMostOne
<1>3. CASE CancelLoop \/ DeleteLoop \/ UNCHANGED vars
  <2>1. UNCHANGED <<iteration, stored, pc, inherited, seen>>
    BY <1>3 DEF CancelLoop, DeleteLoop, Counters, vars, row
  <2> QED BY <2>1 DEF ProgressInv, Active, AtMostOne, Alone, CommitsUncancelled
<1> QED BY <1>2, <1>3 DEF Next, StreamStep

LEMMA ProgressInvariant == Spec => []ProgressInv
<1>1. Init => ProgressInv BY InitProgress
<1>2. IInv /\ IInv' /\ ProgressInv /\ [Next]_vars => ProgressInv'
  BY NextKeepsProgress
<1> QED BY <1>1, <1>2, Invariant, PTL DEF Spec

\* A finite set of at most one element by its cardinality.
LEMMA OneByCardinality ==
  ASSUME NEW S, IsFiniteSet(S), Cardinality(S) <= 1
  PROVE  AtMostOne(S)
<1> SUFFICES ASSUME NEW r \in S, NEW s \in S, r # s PROVE FALSE
  BY DEF AtMostOne
<1>1. IsFiniteSet(S \ {r}) /\ Cardinality(S \ {r}) = Cardinality(S) - 1
  BY FS_RemoveElement
<1>2. Cardinality(S) \in Nat BY FS_CardinalityType
<1>3. Cardinality(S \ {r}) \in Nat BY <1>1, FS_CardinalityType
<1>4. Cardinality(S \ {r}) = 0 BY <1>1, <1>2, <1>3
<1>5. S \ {r} = {} BY <1>1, <1>4, FS_EmptySet
<1> QED BY <1>5

\* Until a second run begins the counter and the list of steps that
\* _persist_progress and _finalize write agree at every step, also while the
\* run fails or is left.
THEOREM ProgressIsAlwaysConsistent == Spec => []ProgressIsConsistent
<1>1. ProgressInv => ProgressIsConsistent
  BY OneByCardinality DEF ProgressInv, ProgressIsConsistent, Active, Alone
<1> QED BY <1>1, ProgressInvariant, PTL

\* A cancelled loop stays cancelled but for its deletion, a new run, a run that
\* records its failure, and one whose _finalize had read the row before.
THEOREM CancelAlwaysHolds == Spec => CancelHolds
<1> DEFINE Overwritten(r) ==
             \/ pc[r] = "commit" /\ seen[r].status # "cancelled" /\ pc'[r] # "commit"
             \/ pc[r] = "failing" /\ pc'[r] # "failing"
             \/ pc[r] = "idle" /\ pc'[r] = "check"
           Holds == status = "cancelled" =>
             status' \in {"cancelled", "gone"} \/ \E r \in Run : Overwritten(r)
<1>1. ASSUME IInv, ProgressInv, [Next]_vars PROVE [Holds]_vars
  <2>1. ASSUME NEW r \in Run, StreamStep(r) PROVE Holds
    <3>1. CASE FinalizeCommit(r)
      BY <1>1, <3>1 DEF FinalizeCommit, Step, IInv, TypeInv, ProgressInv,
                        CommitsUncancelled
    <3>2. CASE SetFailed(r)
      BY <1>1, <3>2 DEF SetFailed, Step, IInv, TypeInv
    <3>3. CASE StartRun(r)
      BY <1>1, <3>3 DEF StartRun, Step, IInv, TypeInv
    <3>4. CASE ~ FinalizeCommit(r) /\ ~ SetFailed(r) /\ ~ StartRun(r)
      BY <2>1, <3>4 DEF StreamStep, Stream, NoProvider, CheckCancelled,
           WorkFails, Work, PersistRead, PersistCommit, Judge, MaximumReached,
           FinalizeRead, RowLost, ReportDone, RejectRun, Disconnect, row
    <3> QED BY <3>1, <3>2, <3>3, <3>4
  <2>2. CASE CancelLoop \/ DeleteLoop
    BY <2>2 DEF CancelLoop, DeleteLoop
  <2>3. CASE UNCHANGED vars BY <2>3
  <2> QED BY <1>1, <2>1, <2>2, <2>3 DEF Next, StreamStep
<1>2. IInv /\ ProgressInv /\ [Next]_vars => [Holds]_vars BY <1>1
<1> QED BY <1>2, Invariant, ProgressInvariant, PTL DEF Spec, CancelHolds
=============================================================================
