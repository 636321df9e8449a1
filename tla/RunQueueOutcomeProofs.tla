----------------------- MODULE RunQueueOutcomeProofs ------------------------
(***************************************************************************)
(* The run queue implements the promise of RunOutcome, for every number of *)
(* agents, keys and markets and all budgets: the initial state is one of   *)
(* the promise, and every transaction accepts runs, records an operator's  *)
(* request, resolves pending runs, or shows nothing.                       *)
(***************************************************************************)
EXTENDS RunQueueOutcome, RunQueueProofs

-----------------------------------------------------------------------------
(* What an operation on a row leaves of an operator's request.             *)

LEMMA EndedAsks ==
  ASSUME NEW row \in RunRow, NEW n \in AttemptNos, NEW st, NEW src, NEW retryable, NEW p, NEW v
  PROVE  /\ EndAttempt(row, n, st).cancelRequested = row.cancelRequested
         /\ FinishCancelled(EndAttempt(row, n, st), src).cancelRequested = row.cancelRequested
         /\ RequeueOrFail(EndAttempt(row, n, st), src, retryable).cancelRequested = row.cancelRequested
         /\ WaitForEvent(row, n, p, v, src).cancelRequested = row.cancelRequested
         /\ Succeed(row, n, p, v, src).cancelRequested = row.cancelRequested
<1>1. EndAttempt(row, n, st).cancelRequested = row.cancelRequested
  BY DEF EndAttempt, RunRow
<1>2. FinishCancelled(EndAttempt(row, n, st), src).cancelRequested = row.cancelRequested
  BY DEF FinishCancelled, EndAttempt, Recompute, RunRow
<1>3. RequeueOrFail(EndAttempt(row, n, st), src, retryable).cancelRequested = row.cancelRequested
  BY DEF RequeueOrFail, RecordHold, EndAttempt, Recompute, RunRow
<1>4. WaitForEvent(row, n, p, v, src).cancelRequested = row.cancelRequested
  BY DEF WaitForEvent, EndAttempt, Recompute, RunRow
<1>5. Succeed(row, n, p, v, src).cancelRequested = row.cancelRequested
  BY DEF Succeed, EndAttempt, Recompute, RunRow
<1>6. QED
  BY <1>1, <1>2, <1>3, <1>4, <1>5

LEMMA PassAsks ==
  ASSUME NEW row \in RunRow, NEW st, NEW src
  PROVE  /\ FinishCancelled(row, src).cancelRequested = row.cancelRequested
         /\ RecordHold(row, st, src).cancelRequested = row.cancelRequested
         /\ WakeUp(row).cancelRequested = row.cancelRequested
BY DEF FinishCancelled, RecordHold, WakeUp, Recompute, RunRow

-----------------------------------------------------------------------------
(* What the transactions show of requests, runs and positions.             *)

AsksKept == \A r \in Runs : run'[r].cancelRequested = run[r].cancelRequested

RunsKept == \A r \in Runs : run[r].status = "absent" => run'[r].status = "absent"

\* A position opens in the step in which its run succeeds.
OpensDecided ==
  \A r \in Runs :
    /\ book[r] # "none" => book'[r] # "none"
    /\ book[r] = "none" /\ book'[r] # "none" =>
         run[r].status = "running" /\ run'[r].status = "succeeded"

\* What the promise sees of a step that may resolve runs.
Shown == AsksKept /\ RunsKept /\ OpensDecided

LEMMA RowTypes ==
  ASSUME IInv
  PROVE  /\ run \in [Runs -> RunRow] /\ book \in [Runs -> {"none", "open", "closed"}]
         /\ \A r \in Runs : run[r] \in RunRow /\ RowInv(run[r])
BY DEF IInv, TypeOK, RowOK

\* A transaction that rewrites one existing row and leaves the book alone.
LEMMA OneRowShown ==
  ASSUME IInv, NEW r \in Runs, run[r].status # "absent",
         NEW new, run' = [run EXCEPT ![r] = new],
         new.cancelRequested = run[r].cancelRequested, UNCHANGED book
  PROVE  Shown
<1>1. run'[r] = new /\ \A s \in Runs : s # r => run'[s] = run[s]
  BY RowTypes
<1>2. QED
  BY <1>1 DEF Shown, AsksKept, RunsKept, OpensDecided

LEMMA NoRowShown ==
  ASSUME UNCHANGED run, \A r \in Runs : (book[r] = "none") <=> (book'[r] = "none")
  PROVE  Shown
BY DEF Shown, AsksKept, RunsKept, OpensDecided

LEMMA FinalShown ==
  ASSUME IInv, NEW r \in Runs, NEW n \in AttemptNos, NEW p \in Proposals, NEW v \in Verdicts(r, p),
         CompleteFinal(r, n, p, v)
  PROVE  Shown
<1> DEFINE new == Succeed(run[r], n, p, v, Source(r))
<1>1. /\ run \in [Runs -> RunRow] /\ book \in [Runs -> {"none", "open", "closed"}]
      /\ run[r] \in RunRow /\ RowInv(run[r])
  BY RowTypes
<1>2. /\ run' = [run EXCEPT ![r] = new] /\ book' = BookAfter(r, p, v)
      /\ run[r].attempts[n].status = "running"
  BY DEF CompleteFinal, Current
<1>3. new.status = "succeeded" /\ new.cancelRequested = run[r].cancelRequested
  BY <1>1, SucceedFields, EndedAsks
<1>4. run[r].status = "running"
  BY <1>1, <1>2, RunningRow
<1> HIDE DEF new
<1>5. run'[r] = new /\ \A s \in Runs : s # r => run'[s] = run[s]
  BY <1>1, <1>2
<1>6. \A s \in Runs : /\ book[s] # "none" => book'[s] # "none"
                      /\ s # r => ((book[s] = "none") <=> (book'[s] = "none"))
  <2>1. \A x : \A s \in Runs : (ClosedAt(x)[s] = "none") <=> (book[s] = "none")
    BY <1>1, ClosedAtBook
  <2>2. \A s \in Runs : /\ book[s] # "none" => OpenPosition(r)[s] # "none"
                        /\ s # r => OpenPosition(r)[s] = book[s]
    BY <1>1 DEF OpenPosition
  <2>3. book' \in {ClosedAt(WokenFor[r[2]]), OpenPosition(r), book}
    BY <1>2 DEF BookAfter
  <2>4. QED
    BY <2>1, <2>2, <2>3
<1>7. QED
  BY <1>3, <1>4, <1>5, <1>6 DEF Shown, AsksKept, RunsKept, OpensDecided

LEMMA WorkerShown ==
  ASSUME IInv, NEW r \in Runs, NEW n \in AttemptNos, WorkerCall(r, n)
  PROVE  Shown
<1>1. /\ run \in [Runs -> RunRow] /\ run[r] \in RunRow /\ RowInv(run[r])
  BY RowTypes
<1>2. run[r].attempts[n].status = "running"
  BY DEF WorkerCall, Complete, CompleteCancelled, CompleteWaiting, CompleteFinal, Current,
     AuthorizeTool, SetPendingWait, Fail, AckCancel
<1>3. run[r].status # "absent"
  BY <1>1, <1>2, RunningRow
<1>4. \A row : [run[r] EXCEPT !.attempts[n] = row].cancelRequested = run[r].cancelRequested
  BY <1>1 DEF RunRow
<1>5. CASE AuthorizeTool(r, n)
  <2> DEFINE row == [run[r].attempts[n] EXCEPT !.toolCalls = @ + 1]
  <2>1. run' = [run EXCEPT ![r] = [run[r] EXCEPT !.attempts[n] = row]] /\ UNCHANGED book
    BY <1>5 DEF AuthorizeTool
  <2> HIDE DEF row
  <2>2. QED
    BY <1>3, <1>4, <2>1, OneRowShown
<1>6. CASE SetPendingWait(r, n)
  <2> DEFINE row == [run[r].attempts[n] EXCEPT !.pendingWait = TRUE]
  <2>1. run' = [run EXCEPT ![r] = [run[r] EXCEPT !.attempts[n] = row]] /\ UNCHANGED book
    BY <1>6 DEF SetPendingWait
  <2> HIDE DEF row
  <2>2. QED
    BY <1>3, <1>4, <2>1, OneRowShown
<1>7. CASE CompleteCancelled(r, n) \/ AckCancel(r, n)
  BY <1>1, <1>3, <1>7, EndedAsks, OneRowShown DEF CompleteCancelled, AckCancel
<1>8. ASSUME NEW p \in Proposals, NEW v \in Verdicts(r, p), CompleteWaiting(r, n, p, v)
      PROVE  Shown
  <2> DEFINE new == WaitForEvent(run[r], n, p, v, Source(r))
  <2>1. run' = [run EXCEPT ![r] = new] /\ UNCHANGED book
    BY <1>8 DEF CompleteWaiting
  <2>2. new.cancelRequested = run[r].cancelRequested
    BY <1>1, EndedAsks
  <2> HIDE DEF new
  <2>3. QED
    BY <1>3, <2>1, <2>2, OneRowShown
<1>9. ASSUME NEW retryable \in BOOLEAN, Fail(r, n, retryable)
      PROVE  Shown
  <2> DEFINE ended == EndAttempt(run[r], n, "failed")
             new == IF ended.cancelRequested THEN FinishCancelled(ended, Source(r))
                    ELSE RequeueOrFail(ended, Source(r), retryable)
  <2>1. run' = [run EXCEPT ![r] = new] /\ UNCHANGED book
    BY <1>9 DEF Fail
  <2>2. new.cancelRequested = run[r].cancelRequested
    BY <1>1, EndedAsks
  <2> HIDE DEF new
  <2>3. QED
    BY <1>3, <2>1, <2>2, OneRowShown
<1>10. QED
  BY <1>5, <1>6, <1>7, <1>8, <1>9, FinalShown DEF WorkerCall, Complete

LEMMA ReapShown ==
  ASSUME IInv, NEW dead \in SUBSET LapsedAttempts, NEW old \in SUBSET AgedRuns, Reap(dead, old)
  PROVE  Shown
<1>1. ASSUME NEW r \in Runs
      PROVE  /\ run'[r].cancelRequested = run[r].cancelRequested
             /\ run[r].status = "absent" => run'[r].status = "absent"
  <2>1. run[r] \in RunRow /\ RowInv(run[r])
    BY RowTypes
  <2>2. CASE \E n \in AttemptNos : <<r, n>> \in dead
    <3> DEFINE n == CHOOSE n \in AttemptNos : <<r, n>> \in dead
    <3>1. n \in AttemptNos /\ <<r, n>> \in dead
      BY <2>2
    <3>2. run'[r] = ExpireLease(run[r], n, Source(r))
      BY <2>2 DEF Reap
    <3> HIDE DEF n
    <3>3. run[r].status # "absent"
      BY <2>1, <3>1, RunningRow DEF LapsedAttempts
    <3>4. ExpireLease(run[r], n, Source(r)).cancelRequested = run[r].cancelRequested
      <4> DEFINE ended == EndAttempt(run[r], n, "expired")
      <4>1. FinishCancelled(ended, Source(r)).cancelRequested = run[r].cancelRequested
        BY <2>1, <3>1, EndedAsks
      <4>4. RequeueOrFail(ended, Source(r), TRUE).cancelRequested = run[r].cancelRequested
        BY <2>1, <3>1 DEF RequeueOrFail, RecordHold, EndAttempt, Recompute, RunRow
      <4>2. ExpireLease(run[r], n, Source(r)) =
              IF ended.cancelRequested THEN FinishCancelled(ended, Source(r))
              ELSE RequeueOrFail(ended, Source(r), TRUE)
        BY DEF ExpireLease
      <4> HIDE DEF ended
      <4>3. QED
        BY <4>1, <4>4, <4>2
    <3>5. QED
      BY <3>2, <3>3, <3>4
  <2>3. CASE ~(\E n \in AttemptNos : <<r, n>> \in dead) /\ r \in DueWaits
    <3>1. run'[r] = WakeUp(run[r]) /\ run[r].status # "absent"
      BY <2>3 DEF Reap, DueWaits
    <3>2. QED
      BY <2>1, <3>1, PassAsks
  <2>4. CASE ~(\E n \in AttemptNos : <<r, n>> \in dead) /\ r \notin DueWaits /\ r \in old
    <3>1. run'[r] = RecordHold(run[r], "expired", Source(r)) /\ run[r].status # "absent"
      BY <2>4 DEF Reap, AgedRuns
    <3>2. QED
      BY <2>1, <3>1, PassAsks
  <2>5. CASE ~(\E n \in AttemptNos : <<r, n>> \in dead) /\ r \notin DueWaits /\ r \notin old
    BY <2>5 DEF Reap
  <2>6. QED
    BY <2>2, <2>3, <2>4, <2>5
<1>2. QED
  BY <1>1 DEF Reap, Shown, AsksKept, RunsKept, OpensDecided

LEMMA ClockShown ==
  ASSUME IInv, NEW r \in Runs,
         \/ QueueAges(r) \/ WaitElapses(r)
         \/ \E n \in AttemptNos : LeaseLapses(r, n)
  PROVE  Shown
<1>1. /\ run \in [Runs -> RunRow] /\ run[r] \in RunRow /\ RowInv(run[r]) /\ UNCHANGED book
  BY RowTypes DEF QueueAges, WaitElapses, LeaseLapses
<1>2. /\ \A x : [run[r] EXCEPT !.ripeness = x].cancelRequested = run[r].cancelRequested
      /\ \A x : [run[r] EXCEPT !.waitUntil = x].cancelRequested = run[r].cancelRequested
      /\ \A x, n : [run[r] EXCEPT !.attempts[n] = x].cancelRequested = run[r].cancelRequested
  BY <1>1 DEF RunRow
<1>3. CASE QueueAges(r)
  <2>1. run[r].status # "absent"
    BY <1>1, <1>3 DEF QueueAges, RowInv, QueueHasClock
  <2>2. PICK x \in {"due", "aged"} : run' = [run EXCEPT ![r] = [run[r] EXCEPT !.ripeness = x]]
    BY <1>3 DEF QueueAges
  <2>3. QED
    BY <1>1, <1>2, <2>1, <2>2, OneRowShown
<1>4. CASE WaitElapses(r)
  <2>1. run[r].status # "absent"
    BY <1>1, <1>4 DEF WaitElapses, RowInv, WaitHasTimer
  <2>2. run' = [run EXCEPT ![r] = [run[r] EXCEPT !.waitUntil = "due"]]
    BY <1>4 DEF WaitElapses
  <2>3. QED
    BY <1>1, <1>2, <2>1, <2>2, OneRowShown
<1>5. ASSUME NEW n \in AttemptNos, LeaseLapses(r, n)
      PROVE  Shown
  <2> DEFINE row == [run[r].attempts[n] EXCEPT !.lease = "lapsed"]
  <2>1. run' = [run EXCEPT ![r] = [run[r] EXCEPT !.attempts[n] = row]]
    BY <1>5 DEF LeaseLapses
  <2>2. run[r].status # "absent"
    BY <1>1, <1>5, RunningRow DEF LeaseLapses, Current
  <2> HIDE DEF row
  <2>3. QED
    BY <1>1, <1>2, <2>1, <2>2, OneRowShown
<1>6. QED
  BY <1>3, <1>4, <1>5

LEMMA ClaimShown ==
  ASSUME IInv, NEW r \in Runs, Claim(r)
  PROVE  Shown
<1> DEFINE new == [run[r] EXCEPT !.status = "running", !.ripeness = "none",
                                 !.attemptsMade = run[r].attemptsMade + 1,
                                 !.attempts[run[r].attemptsMade + 1] = FreshAttempt]
<1>1. run[r] \in RunRow
  BY RowTypes
<1>2. run' = [run EXCEPT ![r] = new] /\ UNCHANGED book /\ run[r].status # "absent"
  BY DEF Claim
<1>3. new.cancelRequested = run[r].cancelRequested
  BY <1>1 DEF RunRow
<1> HIDE DEF new
<1>4. QED
  BY <1>2, <1>3, OneRowShown

LEMMA SetLegacyShown ==
  ASSUME IInv, NEW k \in Keys, NEW d \in EngineDecisions, SetLegacy(k, d)
  PROVE  Shown
<1>1. ASSUME NEW r \in Runs
      PROVE  /\ run'[r].cancelRequested = run[r].cancelRequested
             /\ run[r].status = "absent" => run'[r].status = "absent"
  <2>1. run[r] \in RunRow
    BY RowTypes
  <2>2. Recompute([run[r] EXCEPT !.legacy = d], Source(r)).cancelRequested = run[r].cancelRequested
    BY <2>1 DEF Recompute, RunRow
  <2>3. QED
    BY <2>2 DEF SetLegacy
<1>2. QED
  BY <1>1 DEF SetLegacy, Shown, AsksKept, RunsKept, OpensDecided

LEMMA CloseShown ==
  ASSUME IInv, NEW r \in Runs, ClosePosition(r)
  PROVE  Shown
BY RowTypes, ClosedAtBook, NoRowShown DEF ClosePosition

\* A run that waits or is queued is cancelled at once.
LEMMA CancelShown ==
  ASSUME IInv, NEW r \in Runs, Cancel(r), run[r].status # "running"
  PROVE  Shown
<1>1. run[r] \in RunRow
  BY RowTypes
<1>2. /\ run' = [run EXCEPT ![r] = FinishCancelled(run[r], Source(r))]
      /\ UNCHANGED book /\ run[r].status # "absent"
  BY DEF Cancel
<1>3. QED
  BY <1>1, <1>2, PassAsks, OneRowShown

-----------------------------------------------------------------------------
(* The steps of the promise.                                               *)

LEMMA PendingResolution ==
  ASSUME NEW row \in RunRow
  PROVE  /\ Resolution(row.status) \in {"decided", "held", "cancelled", "pending"}
         /\ (Resolution(row.status) = "pending") <=> (row.status \notin Final)
         /\ (Resolution(row.status) = "decided") <=> (row.status = "succeeded")
         /\ (Resolution(row.status) = "cancelled") <=> (row.status = "cancelled")
BY DEF Resolution, Final

\* Every step changes the rows as NextRows says, and its new rows are sound.
LEMMA NextRun ==
  ASSUME IInv, [Next]_vars, NEW r \in Runs
  PROVE  /\ run[r] \in RunRow /\ run'[r] \in RunRow
         /\ run[r].cancelRequested \in BOOLEAN /\ run'[r].cancelRequested \in BOOLEAN
         /\ CancelHonoured(run[r]) /\ CancelHonoured(run'[r])
         /\ run[r].status # "absent" => run'[r].status # "absent"
         /\ run[r].status \in Final => run'[r].status = run[r].status
<1>1. RowInv(run[r]) /\ RowInv(run'[r]) /\ Kept(run[r], run'[r])
  BY NextRows, RowTypes DEF RowsStep, RowStep, RowOK
<1>2. QED
  BY <1>1 DEF RowInv, RunRow, Kept

\* The runs a step resolves.
Resolved ==
  {r \in Runs : Resolution(run[r].status) = "pending" /\ Resolution(run'[r].status) # "pending"}

LEMMA ShownResolves ==
  ASSUME IInv, [Next]_vars, Shown
  PROVE  \E S \in SUBSET Runs : Promise!Resolve(S)
<1>1. \A r \in Runs : (run'[r].status = "absent") <=> (run[r].status = "absent")
  BY NextRun DEF Shown, RunsKept
<1>2. Resolved \subseteq {r \in Runs : run[r].status # "absent"}
  <2>1. \A r \in Resolved : run'[r].status \in Final
    BY NextRun, PendingResolution DEF Resolved
  <2>2. QED
    BY <1>1, <2>1 DEF Resolved, Final
<1>3. \A r \in Resolved : [x \in Runs |-> Resolution(run[x].status)][r] = "pending"
  BY DEF Resolved
<1>4. [r \in Runs |-> Resolution(run'[r].status)] \in [Runs -> Promise!Outcomes \cup {"pending"}]
  BY NextRun, PendingResolution DEF Promise!Outcomes
<1>5. \A r \in Runs : r \notin Resolved => Resolution(run'[r].status) = Resolution(run[r].status)
  BY NextRun, PendingResolution DEF Resolved
<1>6. \A r \in Resolved : run[r].cancelRequested => Resolution(run'[r].status) = "cancelled"
  <2>1. ASSUME NEW r \in Resolved, run[r].cancelRequested
        PROVE  Resolution(run'[r].status) = "cancelled"
    <3>1. r \in Runs /\ run'[r].cancelRequested /\ run'[r].status \in Final
      BY <2>1, NextRun, PendingResolution DEF Resolved, Shown, AsksKept
    <3>2. run'[r].status \in {"running", "cancelled"}
      BY <3>1, NextRun DEF CancelHonoured
    <3>3. QED
      BY <3>1, <3>2, NextRun, PendingResolution DEF Final
  <2>2. QED
    BY <2>1
<1>7. /\ {r \in Runs : book'[r] # "none"} =
           {r \in Runs : book[r] # "none"} \cup {r \in Runs : book[r] = "none" /\ book'[r] # "none"}
      /\ \A r \in Runs : book[r] = "none" /\ book'[r] # "none" =>
           r \in Resolved /\ Resolution(run'[r].status) = "decided"
  BY NextRun, PendingResolution DEF Shown, OpensDecided, Resolved, Final
<1>8. {r \in Runs : run'[r].status # "absent"} = {r \in Runs : run[r].status # "absent"}
  BY <1>1
<1>9. {r \in Runs : run'[r].cancelRequested} = {r \in Runs : run[r].cancelRequested}
  BY DEF Shown, AsksKept
<1>10. QED
  <2> DEFINE next == [r \in Runs |-> Resolution(run'[r].status)]
  <2>1. \A r \in Runs : IF r \in Resolved THEN next[r] # "pending"
                        ELSE next[r] = [x \in Runs |-> Resolution(run[x].status)][r]
    BY <1>5 DEF Resolved
  <2>2. \A r \in Resolved \cap {x \in Runs : run[x].cancelRequested} : next[r] = "cancelled"
    BY <1>6
  <2>3. \E N \in SUBSET {r \in Resolved : next[r] = "decided"} :
          {r \in Runs : book'[r] # "none"} = {r \in Runs : book[r] # "none"} \cup N
    <3>1. {r \in Runs : book[r] = "none" /\ book'[r] # "none"}
            \in SUBSET {r \in Resolved : next[r] = "decided"}
      BY <1>7
    <3>2. QED
      BY <1>7, <3>1
  <2>4. Resolved \in SUBSET Runs
    BY DEF Resolved
  <2>5. QED
    BY <1>2, <1>3, <1>4, <1>8, <1>9, <2>1, <2>2, <2>3, <2>4 DEF Promise!Resolve

\* Ingest accepts the runs it creates.
LEMMA IngestAccepts ==
  ASSUME IInv, NEW k \in Keys, Ingest(k)
  PROVE  \E S \in SUBSET Runs : Promise!Accept(S)
<1> DEFINE S == {r \in Runs : r[2] = k /\ Targeted(r[1], k)}
<1>1. \A r \in S : run[r].status = "absent" /\ run'[r] = NewRun(r[1])
  BY DEF Ingest, IInv, RunsHaveSnapshots
<1>2. \A r \in Runs : r \notin S => run'[r] = run[r]
  BY DEF Ingest
<1>3. \A r \in S : /\ ~run[r].cancelRequested /\ ~run'[r].cancelRequested
                   /\ run'[r].status = "queued"
  <2>1. ASSUME NEW r \in S
        PROVE  ~run[r].cancelRequested
    BY <1>1, RowTypes DEF RowInv, CancelHonoured
  <2>2. \A a : ~NewRun(a).cancelRequested /\ NewRun(a).status = "queued"
    BY DEF NewRun, AbsentRun
  <2>3. QED
    BY <1>1, <2>1, <2>2
<1> HIDE DEF S
<1>4. S \in SUBSET Runs
  BY DEF S
<1>5. \A r \in Runs : Resolution(run'[r].status) = Resolution(run[r].status)
  BY <1>1, <1>2, <1>3 DEF Resolution
<1>6. /\ S \cap {r \in Runs : run[r].status # "absent"} = {}
      /\ {r \in Runs : run'[r].status # "absent"} = {r \in Runs : run[r].status # "absent"} \cup S
  BY <1>1, <1>2, <1>3, <1>4
<1>7. {r \in Runs : run'[r].cancelRequested} = {r \in Runs : run[r].cancelRequested}
  BY <1>2, <1>3
<1>8. UNCHANGED book
  BY DEF Ingest
<1>9. [r \in Runs |-> Resolution(run'[r].status)] = [r \in Runs |-> Resolution(run[r].status)]
  BY <1>5
<1>10. {r \in Runs : book'[r] # "none"} = {r \in Runs : book[r] # "none"}
  BY <1>8
<1>11. QED
  BY <1>4, <1>6, <1>7, <1>9, <1>10 DEF Promise!Accept

\* Cancel only notes the request while an attempt runs.
LEMMA CancelAsks ==
  ASSUME IInv, NEW r \in Runs, Cancel(r), run[r].status = "running"
  PROVE  Promise!Ask(r)
<1>1. run \in [Runs -> RunRow] /\ run[r] \in RunRow
  BY RowTypes
<1>2. run' = [run EXCEPT ![r] = [run[r] EXCEPT !.cancelRequested = TRUE]] /\ UNCHANGED book
  BY DEF Cancel
<1>3. /\ run'[r].cancelRequested /\ run'[r].status = run[r].status
      /\ \A s \in Runs : s # r => run'[s] = run[s]
  BY <1>1, <1>2 DEF RunRow
<1>4. {s \in Runs : run'[s].cancelRequested} = {s \in Runs : run[s].cancelRequested} \cup {r}
  BY <1>3
<1>5. /\ {s \in Runs : run'[s].status # "absent"} = {s \in Runs : run[s].status # "absent"}
      /\ [s \in Runs |-> Resolution(run'[s].status)] = [s \in Runs |-> Resolution(run[s].status)]
  BY <1>3
<1>6. r \in {s \in Runs : run[s].status # "absent"} /\ Resolution(run[r].status) = "pending"
  BY DEF Resolution
<1>7. QED
  BY <1>2, <1>4, <1>5, <1>6 DEF Promise!Ask

LEMMA NextKeepsPromise ==
  ASSUME IInv, [Next]_vars
  PROVE  Promise!Next
<1>1. ASSUME Shown
      PROVE  Promise!Next
  BY <1>1, ShownResolves DEF Promise!Next
<1>2. ASSUME NEW k \in Keys, Ingest(k)
      PROVE  Promise!Next
  BY <1>2, IngestAccepts DEF Promise!Next
<1>3. ASSUME NEW r \in Runs, Cancel(r)
      PROVE  Promise!Next
  <2>1. CASE run[r].status = "running"
    BY <1>3, <2>1, CancelAsks DEF Promise!Next
  <2>2. CASE run[r].status # "running"
    BY <1>1, <1>3, <2>2, CancelShown
  <2>3. QED
    BY <2>1, <2>2
<1>4. ASSUME UNCHANGED <<run, book>>
      PROVE  Promise!Next
  BY <1>1, <1>4, NoRowShown
<1>5. ASSUME NEW a \in Agents, NEW on \in BOOLEAN,
             \/ SetEnabled(a, on)
             \/ \E m \in Markets, b \in Budgets : UpsertAgent(a, on, m, b)
      PROVE  Promise!Next
  BY <1>4, <1>5 DEF SetEnabled, UpsertAgent
<1>6. CASE UNCHANGED vars
  BY <1>4, <1>6 DEF vars
<1>7. QED
  BY <1>1, <1>2, <1>3, <1>5, <1>6, SetLegacyShown, ClaimShown, CloseShown, ClockShown,
     WorkerShown, ReapShown DEF Next

\* Whatever workers, leases, retries, operators and the reaper do with a run, it
\* is resolved once, a run whose cancel was noted resolves to "cancelled", and a
\* position opens only in the step in which its run decides: Ingest, Cancel,
\* Complete, Fail and Reap are the promise's Accept, Ask and Resolve, and every
\* other transaction is invisible in it.
THEOREM QueueKeepsPromise == Spec => Promise!Spec
<1>1. Init => Promise!Init
  <2> SUFFICES ASSUME Init
               PROVE  Promise!Init
    OBVIOUS
  <2>1. \A r \in Runs : run[r].status = "absent" /\ ~run[r].cancelRequested /\ book[r] = "none"
    BY DEF Init, AbsentRun
  <2>2. \A r \in Runs : Resolution(run[r].status) = "pending"
    BY <2>1 DEF Resolution
  <2>3. QED
    BY <2>1, <2>2 DEF Promise!Init
<1>2. IInv /\ [Next]_vars => [Promise!Next]_Promise!outcomeVars
  BY NextKeepsPromise
<1>3. QED
  BY <1>1, <1>2, InitIInv, NextIInv, PTL DEF Spec, Promise!Spec
=============================================================================
