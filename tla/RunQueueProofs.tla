--------------------------- MODULE RunQueueProofs ---------------------------
(***************************************************************************)
(* Safety of the run queue for every number of agents, keys and markets    *)
(* and all budgets.  The work is done row by row: every operation of the   *)
(* queue is a function on rows, and RowInv is what each of them preserves. *)
(***************************************************************************)
EXTENDS RunQueue, FiniteSetTheorems, TLAPS

\* What the operations rely on in a row and leave behind.
RowInv(row) ==
  /\ row \in RunRow
  /\ OneAttemptRuns(row)
  /\ RetriesBounded(row)
  /\ WaitHasTimer(row)
  /\ QueueHasClock(row)
  /\ CancelHonoured(row)
  /\ OutcomeRecorded(row)
  /\ row.status = "absent" => row.attemptsMade = 0

\* A row between the end of its attempt and the decision what becomes of the
\* run: still "running", with no attempt left that runs.
Stopped(row) ==
  /\ row \in RunRow
  /\ row.status = "running"
  /\ \A n \in AttemptNos :
       /\ (row.attempts[n].status # "none") <=> (n <= row.attemptsMade)
       /\ row.attempts[n].status # "running"
  /\ RetriesBounded(row)
  /\ row.waitUntil = "null"
  /\ row.ripeness = "none"

-----------------------------------------------------------------------------
(* Rows.                                                                   *)

LEMMA RowFields ==
  ASSUME NEW row \in RunRow
  PROVE  /\ row.attemptsMade \in Nat /\ row.followupsUsed \in Nat /\ row.maxAttempts \in Nat
         /\ row.attempts \in [AttemptNos -> AttemptRow]
BY QueueAssumption DEF RunRow

\* Deriving the comparison again touches no other column.
LEMMA RecomputeFrame ==
  ASSUME NEW row \in RunRow, NEW src
  PROVE  /\ Recompute(row, src) \in RunRow
         /\ Recompute(row, src).status = row.status
         /\ Recompute(row, src).attemptsMade = row.attemptsMade
         /\ Recompute(row, src).maxAttempts = row.maxAttempts
         /\ Recompute(row, src).followupsUsed = row.followupsUsed
         /\ Recompute(row, src).cancelRequested = row.cancelRequested
         /\ Recompute(row, src).ripeness = row.ripeness
         /\ Recompute(row, src).waitUntil = row.waitUntil
         /\ Recompute(row, src).proposal = row.proposal
         /\ Recompute(row, src).validation = row.validation
         /\ Recompute(row, src).attempts = row.attempts
<1>1. Compare(row, src) \in {"pending", "agree", "differ", "no_legacy"}
  BY DEF Compare
<1>2. QED
  BY <1>1 DEF Recompute, RunRow

LEMMA RecomputeInv ==
  ASSUME NEW row, RowInv(row), NEW src
  PROVE  RowInv(Recompute(row, src))
BY RecomputeFrame DEF RowInv, OneAttemptRuns, RetriesBounded, WaitHasTimer, QueueHasClock,
     CancelHonoured, OutcomeRecorded

\* Ending the running attempt stops the row.
LEMMA EndAttemptStops ==
  ASSUME NEW row, RowInv(row), NEW n \in AttemptNos, row.attempts[n].status = "running",
         NEW st \in {"succeeded", "waiting", "failed", "cancelled", "expired"}
  PROVE  /\ Stopped(EndAttempt(row, n, st))
         /\ EndAttempt(row, n, st).attemptsMade = row.attemptsMade
         /\ EndAttempt(row, n, st).maxAttempts = row.maxAttempts
         /\ EndAttempt(row, n, st).followupsUsed = row.followupsUsed
         /\ EndAttempt(row, n, st).cancelRequested = row.cancelRequested
<1> DEFINE ended == EndAttempt(row, n, st)
<1>1. row \in RunRow /\ row.status = "running" /\ n = row.attemptsMade
  BY DEF RowInv, OneAttemptRuns
<1>2. /\ ended \in RunRow
      /\ ended.status = row.status /\ ended.attemptsMade = row.attemptsMade
      /\ ended.maxAttempts = row.maxAttempts /\ ended.followupsUsed = row.followupsUsed
      /\ ended.cancelRequested = row.cancelRequested
      /\ ended.waitUntil = row.waitUntil /\ ended.ripeness = row.ripeness
      /\ ended.attempts = [row.attempts EXCEPT ![n].status = st]
  <2> DEFINE a == [row.attempts EXCEPT ![n].status = st]
  <2>1. ended = [row EXCEPT !.attempts = a]
    BY DEF EndAttempt
  <2>2. a \in [AttemptNos -> AttemptRow]
    BY <1>1 DEF RunRow, AttemptRow
  <2> HIDE DEF a, ended
  <2>3. ended \in RunRow
    BY <1>1, <2>1, <2>2 DEF RunRow
  <2>4. ended.attempts = a
    BY <1>1, <2>1 DEF RunRow
  <2>5. QED
    BY <1>1, <2>1, <2>3, <2>4 DEF RunRow, a
<1>3. \A m \in AttemptNos :
        /\ (ended.attempts[m].status # "none") <=> (m <= ended.attemptsMade)
        /\ ended.attempts[m].status # "running"
  BY <1>1, <1>2, RowFields DEF RowInv, OneAttemptRuns, AttemptRow
<1>4. row.waitUntil = "null" /\ row.ripeness = "none"
  BY <1>1 DEF RowInv, WaitHasTimer, QueueHasClock
<1>5. RetriesBounded(ended)
  BY <1>1, <1>2 DEF RowInv, RetriesBounded
<1>6. QED
  BY <1>1, <1>2, <1>3, <1>4, <1>5 DEF Stopped

LEMMA RecordHoldInv ==
  ASSUME NEW row, Stopped(row) \/ (RowInv(row) /\ row.status = "queued"),
         row.cancelRequested = FALSE,
         NEW st \in {"failed", "expired"}, NEW src
  PROVE  RowInv(RecordHold(row, st, src))
<1> DEFINE held == [row EXCEPT !.status = st, !.ripeness = "none",
                               !.proposal = "hold", !.validation = "valid"]
<1>1. row \in RunRow
  BY DEF Stopped, RowInv
<1>2. row.waitUntil = "null" /\ row.status \in {"queued", "running"}
  BY DEF Stopped, RowInv, WaitHasTimer
<1>3. /\ held \in RunRow
      /\ held.status = st /\ held.attempts = row.attempts /\ held.attemptsMade = row.attemptsMade
      /\ held.maxAttempts = row.maxAttempts /\ held.followupsUsed = row.followupsUsed
      /\ held.cancelRequested = FALSE /\ held.waitUntil = "null" /\ held.ripeness = "none"
      /\ held.proposal = "hold" /\ held.validation = "valid"
  BY <1>1, <1>2, ZenonT(60) DEF RunRow, Proposals, Final
<1>4. OneAttemptRuns(held)
  BY <1>1, <1>3 DEF Stopped, RowInv, OneAttemptRuns
<1>5. RetriesBounded(held)
  BY <1>1, <1>3 DEF Stopped, RowInv, RetriesBounded
<1>6. RowInv(held)
  BY <1>3, <1>4, <1>5 DEF RowInv, WaitHasTimer, QueueHasClock, CancelHonoured, OutcomeRecorded
<1>7. QED
  BY <1>6, RecomputeInv DEF RecordHold

LEMMA FinishCancelledInv ==
  ASSUME NEW row, Stopped(row) \/ (RowInv(row) /\ row.status \in {"queued", "waiting_for_event"}),
         NEW src
  PROVE  RowInv(FinishCancelled(row, src))
<1> DEFINE done == [row EXCEPT !.status = "cancelled", !.waitUntil = "null", !.ripeness = "none"]
<1>1. row \in RunRow
  BY DEF Stopped, RowInv
<1>2. /\ done \in RunRow
      /\ done.status = "cancelled" /\ done.attempts = row.attempts
      /\ done.attemptsMade = row.attemptsMade /\ done.maxAttempts = row.maxAttempts
      /\ done.followupsUsed = row.followupsUsed
      /\ done.waitUntil = "null" /\ done.ripeness = "none"
  <2>1. "cancelled" \in Final
    BY DEF Final
  <2>2. done \in RunRow
    BY <1>1, <2>1 DEF RunRow
  <2>3. QED
    BY <1>1, <2>2 DEF RunRow
<1>3. OneAttemptRuns(done)
  BY <1>1, <1>2 DEF Stopped, RowInv, OneAttemptRuns
<1>4. RetriesBounded(done)
  BY <1>1, <1>2 DEF Stopped, RowInv, RetriesBounded
<1>5. RowInv(done)
  BY <1>2, <1>3, <1>4 DEF RowInv, WaitHasTimer, QueueHasClock, CancelHonoured, OutcomeRecorded
<1>6. QED
  BY <1>5, RecomputeInv DEF FinishCancelled

\* A retry goes back to the queue only with an attempt left; otherwise a hold
\* is recorded.
LEMMA RequeueOrFailInv ==
  ASSUME NEW row, Stopped(row), row.cancelRequested = FALSE, NEW src, NEW retryable
  PROVE  RowInv(RequeueOrFail(row, src, retryable))
<1> DEFINE again == [row EXCEPT !.status = "queued", !.ripeness = "backoff"]
<1>1. CASE retryable /\ row.attemptsMade - row.followupsUsed < row.maxAttempts
  <2>1. row \in RunRow
    BY DEF Stopped
  <2>2. /\ again \in RunRow
        /\ again.status = "queued" /\ again.attempts = row.attempts
        /\ again.attemptsMade = row.attemptsMade /\ again.maxAttempts = row.maxAttempts
        /\ again.followupsUsed = row.followupsUsed /\ again.cancelRequested = FALSE
        /\ again.waitUntil = "null" /\ again.ripeness = "backoff"
    BY <2>1 DEF RunRow, Pending, Stopped
  <2>3. OneAttemptRuns(again)
    BY <2>1, <2>2 DEF Stopped, OneAttemptRuns
  <2>4. RetriesBounded(again)
    BY <1>1, <2>1, <2>2 DEF Stopped, RetriesBounded
  <2>5. RowInv(again)
    BY <2>2, <2>3, <2>4 DEF RowInv, WaitHasTimer, QueueHasClock, CancelHonoured, OutcomeRecorded
  <2>6. QED
    BY <1>1, <2>5 DEF RequeueOrFail
<1>2. CASE ~(retryable /\ row.attemptsMade - row.followupsUsed < row.maxAttempts)
  BY <1>2, RecordHoldInv DEF RequeueOrFail
<1>3. QED
  BY <1>1, <1>2

\* The attempt a claim writes, and the row of an attempt not made yet.
LEMMA AttemptRowTypes ==
  /\ NoAttempt \in AttemptRow /\ NoAttempt.status = "none"
  /\ FreshAttempt \in AttemptRow /\ FreshAttempt.status = "running"
<1>1. ToolLimit \in Nat
  BY QueueAssumption
<1>2. 0 \in 0..ToolLimit
  BY <1>1
<1>3. NoAttempt \in AttemptRow /\ NoAttempt.status = "none"
  BY <1>2 DEF NoAttempt, AttemptRow
<1>4. FreshAttempt \in AttemptRow /\ FreshAttempt.status = "running"
  BY <1>3 DEF FreshAttempt, AttemptRow
<1>5. QED
  BY <1>3, <1>4

LEMMA ClaimInv ==
  ASSUME NEW row, RowInv(row), row.status = "queued"
  PROVE  /\ row.attemptsMade + 1 \in AttemptNos
         /\ RowInv([row EXCEPT !.status = "running", !.ripeness = "none",
                               !.attemptsMade = row.attemptsMade + 1,
                               !.attempts[row.attemptsMade + 1] = FreshAttempt])
<1> DEFINE n == row.attemptsMade + 1
           claimed == [row EXCEPT !.status = "running", !.ripeness = "none",
                                  !.attemptsMade = n, !.attempts[n] = FreshAttempt]
<1>1. row \in RunRow
  BY DEF RowInv
<1>2. /\ AttemptLimit \in Nat \ {0} /\ FollowupLimit \in Nat \ {0}
      /\ row.maxAttempts \in 0..AttemptLimit /\ row.followupsUsed \in 0..FollowupLimit
      /\ row.attempts \in [AttemptNos -> AttemptRow] /\ row.attemptsMade \in Nat
  BY <1>1, RowFields, QueueAssumption DEF RunRow
<1>3. row.attemptsMade - row.followupsUsed < row.maxAttempts /\ row.followupsUsed <= row.attemptsMade
  BY DEF RowInv, RetriesBounded
<1>4. n \in 1..(AttemptLimit + FollowupLimit)
  BY <1>2, <1>3
<1>5. n \in AttemptNos
  BY <1>4 DEF AttemptNos
<1>6. n \in 0..(AttemptLimit + FollowupLimit)
  BY <1>2, <1>4
<1>7. FreshAttempt \in AttemptRow /\ FreshAttempt.status = "running"
  BY AttemptRowTypes
<1>8. \A m \in AttemptNos :
        /\ (row.attempts[m].status # "none") <=> (m <= row.attemptsMade)
        /\ row.attempts[m].status # "running"
  BY DEF RowInv, OneAttemptRuns
<1>9. row.waitUntil = "null"
  BY <1>1 DEF RowInv, WaitHasTimer
<1> HIDE DEF n
<1>10. /\ claimed \in RunRow
       /\ claimed.status = "running" /\ claimed.attempts = [row.attempts EXCEPT ![n] = FreshAttempt]
       /\ claimed.attemptsMade = n /\ claimed.maxAttempts = row.maxAttempts
       /\ claimed.followupsUsed = row.followupsUsed
       /\ claimed.cancelRequested = row.cancelRequested
       /\ claimed.waitUntil = row.waitUntil /\ claimed.ripeness = "none"
  BY <1>1, <1>5, <1>6, <1>7 DEF RunRow, Pending
<1> HIDE DEF claimed
<1>11. \A m \in AttemptNos : m \in Nat
  BY <1>2 DEF AttemptNos
<1>12. n = row.attemptsMade + 1
  BY DEF n
<1>13. OneAttemptRuns(claimed)
  BY <1>2, <1>5, <1>7, <1>8, <1>10, <1>11, <1>12 DEF OneAttemptRuns
<1>14. RetriesBounded(claimed)
  BY <1>2, <1>3, <1>10, <1>12 DEF RetriesBounded
<1>15. RowInv(claimed)
  BY <1>9, <1>10, <1>13, <1>14 DEF RowInv, WaitHasTimer, QueueHasClock, CancelHonoured, OutcomeRecorded
<1>16. QED
  BY <1>5, <1>15 DEF claimed, n

LEMMA WakeUpInv ==
  ASSUME NEW row, RowInv(row), row.status = "waiting_for_event"
  PROVE  RowInv(WakeUp(row))
<1>1. row \in RunRow
  BY DEF RowInv
<1>2. /\ WakeUp(row) \in RunRow
      /\ WakeUp(row).status = "queued" /\ WakeUp(row).attempts = row.attempts
      /\ WakeUp(row).attemptsMade = row.attemptsMade /\ WakeUp(row).maxAttempts = row.maxAttempts
      /\ WakeUp(row).followupsUsed = row.followupsUsed
      /\ WakeUp(row).cancelRequested = row.cancelRequested
      /\ WakeUp(row).waitUntil = "null" /\ WakeUp(row).ripeness = "due"
  BY <1>1 DEF WakeUp, RunRow, Pending
<1>3. OneAttemptRuns(WakeUp(row))
  BY <1>2 DEF RowInv, OneAttemptRuns
<1>4. RetriesBounded(WakeUp(row))
  BY <1>2 DEF RowInv, RetriesBounded
<1>5. row.cancelRequested = FALSE
  BY <1>1 DEF RowInv, CancelHonoured, RunRow
<1>6. QED
  BY <1>2, <1>3, <1>4, <1>5 DEF RowInv, WaitHasTimer, QueueHasClock, CancelHonoured, OutcomeRecorded

LEMMA ExpireLeaseInv ==
  ASSUME NEW row, RowInv(row), NEW n \in AttemptNos, row.attempts[n].status = "running", NEW src
  PROVE  RowInv(ExpireLease(row, n, src))
<1> DEFINE ended == EndAttempt(row, n, "expired")
<1>1. Stopped(ended)
  BY EndAttemptStops
<1>2. ended.cancelRequested \in BOOLEAN
  BY <1>1 DEF Stopped, RunRow
<1>3. CASE ended.cancelRequested
  BY <1>1, <1>3, FinishCancelledInv DEF ExpireLease
<1>4. CASE ended.cancelRequested = FALSE
  BY <1>1, <1>4, RequeueOrFailInv DEF ExpireLease
<1>5. QED
  BY <1>2, <1>3, <1>4

\* A completion of the run's attempt, interim or final.
LEMMA CompletedInv ==
  ASSUME NEW row, RowInv(row), NEW n \in AttemptNos, row.attempts[n].status = "running",
         row.cancelRequested = FALSE, NEW src,
         NEW p \in Proposals, NEW v \in {"valid", "rejected"}
  PROVE  /\ row.followupsUsed < FollowupLimit =>
              RowInv(WaitForEvent(row, n, p, v, src))
         /\ RowInv(Succeed(row, n, p, v, src))
<1>1. ASSUME row.followupsUsed < FollowupLimit
      PROVE  RowInv([EndAttempt(row, n, "waiting") EXCEPT
                       !.status = "waiting_for_event",
                       !.followupsUsed = row.followupsUsed + 1,
                       !.waitUntil = "later", !.proposal = p, !.validation = v])
  <2> DEFINE ended == EndAttempt(row, n, "waiting")
             waiting == [ended EXCEPT !.status = "waiting_for_event",
                                      !.followupsUsed = row.followupsUsed + 1,
                                      !.waitUntil = "later", !.proposal = p, !.validation = v]
  <2>1. Stopped(ended) /\ ended.followupsUsed = row.followupsUsed /\ ended.cancelRequested = FALSE
    BY EndAttemptStops
  <2>2. ended \in RunRow
    BY <2>1 DEF Stopped
  <2> HIDE DEF ended
  <2>3. row.followupsUsed + 1 \in 0..FollowupLimit
    BY <1>1, <2>1, <2>2, QueueAssumption DEF RunRow
  <2>4. /\ waiting \in RunRow
        /\ waiting.status = "waiting_for_event" /\ waiting.attempts = ended.attempts
        /\ waiting.attemptsMade = ended.attemptsMade /\ waiting.maxAttempts = ended.maxAttempts
        /\ waiting.followupsUsed = ended.followupsUsed + 1
        /\ waiting.cancelRequested = FALSE
        /\ waiting.waitUntil = "later" /\ waiting.ripeness = "none"
    BY <2>1, <2>2, <2>3 DEF RunRow, Pending, Stopped
  <2>5. OneAttemptRuns(waiting)
    BY <2>1, <2>4 DEF Stopped, OneAttemptRuns
  <2>6. RetriesBounded(waiting)
    BY <2>1, <2>2, <2>4, RowFields DEF Stopped, RetriesBounded
  <2>7. QED
    BY <2>4, <2>5, <2>6 DEF RowInv, WaitHasTimer, QueueHasClock, CancelHonoured, OutcomeRecorded, ended
<1>2. RowInv([EndAttempt(row, n, "succeeded") EXCEPT
                !.status = "succeeded", !.waitUntil = "null", !.proposal = p, !.validation = v])
  <2> DEFINE ended == EndAttempt(row, n, "succeeded")
             final == [ended EXCEPT !.status = "succeeded", !.waitUntil = "null",
                                    !.proposal = p, !.validation = v]
  <2>1. Stopped(ended) /\ ended.cancelRequested = FALSE
    BY EndAttemptStops
  <2>2. ended \in RunRow
    BY <2>1 DEF Stopped
  <2> HIDE DEF ended
  <2>3. p # "none"
    BY QueueAssumption DEF Proposals
  <2>4. /\ final \in RunRow
        /\ final.status = "succeeded" /\ final.attempts = ended.attempts
        /\ final.attemptsMade = ended.attemptsMade /\ final.maxAttempts = ended.maxAttempts
        /\ final.followupsUsed = ended.followupsUsed
        /\ final.cancelRequested = FALSE
        /\ final.waitUntil = "null" /\ final.ripeness = "none"
        /\ final.proposal = p /\ final.validation = v
    BY <2>1, <2>2 DEF RunRow, Final, Stopped
  <2>5. OneAttemptRuns(final)
    BY <2>1, <2>4 DEF Stopped, OneAttemptRuns
  <2>6. RetriesBounded(final)
    BY <2>1, <2>2, <2>4 DEF Stopped, RetriesBounded
  <2>7. QED
    BY <2>3, <2>4, <2>5, <2>6 DEF RowInv, WaitHasTimer, QueueHasClock, CancelHonoured, OutcomeRecorded, ended
<1>3. QED
  BY <1>1, <1>2, RecomputeInv DEF WaitForEvent, Succeed
-----------------------------------------------------------------------------
(* Steps of a row: what an operation leaves behind, and what it never      *)
(* takes back.                                                             *)

RowOK(row, src) ==
  /\ RowInv(row)
  /\ FollowupsCharged(row)
  /\ row.comparison = Compare(row, src)

Kept(old, new) ==
  /\ old.status \in Final =>
       new.status = old.status /\ new.proposal = old.proposal /\ new.validation = old.validation
  /\ \A n \in AttemptNos :
       old.attempts[n].status \notin {"none", "running"} => new.attempts[n] = old.attempts[n]
  /\ old.status # "absent" => new.status # "absent"

RowStep(old, new, src) == RowOK(new, src) /\ Kept(old, new)

\* A comparison that was just derived is current.
LEMMA RecomputeCurrent ==
  ASSUME NEW row \in RunRow, NEW src
  PROVE  Recompute(row, src).comparison = Compare(Recompute(row, src), src)
BY DEF Recompute, Compare, Effective, RunRow

\* The comparison depends on the proposal, its verdict and the engine's decision only.
LEMMA CompareFrame ==
  ASSUME NEW old, NEW new, NEW src, RowOK(old, src),
         new.proposal = old.proposal, new.validation = old.validation,
         new.legacy = old.legacy, new.comparison = old.comparison
  PROVE  new.comparison = Compare(new, src)
BY DEF RowOK, Compare, Effective

\* No attempt begins or ends to wait: nothing is charged.
LEMMA ChargedFrame ==
  ASSUME NEW old, NEW new, FollowupsCharged(old), new.followupsUsed = old.followupsUsed,
         \A n \in AttemptNos :
           (new.attempts[n].status = "waiting") <=> (old.attempts[n].status = "waiting")
  PROVE  FollowupsCharged(new)
<1>1. {n \in AttemptNos : new.attempts[n].status = "waiting"} =
        {n \in AttemptNos : old.attempts[n].status = "waiting"}
  OBVIOUS
<1>2. QED
  BY <1>1 DEF FollowupsCharged

LEMMA EndAttemptCharged ==
  ASSUME NEW old \in RunRow, FollowupsCharged(old),
         NEW n \in AttemptNos, old.attempts[n].status = "running", NEW st, st # "waiting",
         NEW new, new.attempts = EndAttempt(old, n, st).attempts,
         new.followupsUsed = old.followupsUsed
  PROVE  FollowupsCharged(new)
<1>1. new.attempts = [old.attempts EXCEPT ![n].status = st]
  BY DEF EndAttempt, RunRow
<1>2. \A m \in AttemptNos :
        (new.attempts[m].status = "waiting") <=> (old.attempts[m].status = "waiting")
  BY <1>1, RowFields DEF AttemptRow
<1>3. QED
  BY <1>2, ChargedFrame

\* An attempt that ends in a wait is charged as one follow-up.
LEMMA EndAttemptCharges ==
  ASSUME NEW old \in RunRow, FollowupsCharged(old),
         NEW n \in AttemptNos, old.attempts[n].status = "running",
         NEW new, new.attempts = EndAttempt(old, n, "waiting").attempts,
         new.followupsUsed = old.followupsUsed + 1
  PROVE  FollowupsCharged(new)
<1> DEFINE Waited(row) == {m \in AttemptNos : row.attempts[m].status = "waiting"}
<1>1. new.attempts = [old.attempts EXCEPT ![n].status = "waiting"]
  BY DEF EndAttempt, RunRow
<1>2. Waited(new) = Waited(old) \cup {n} /\ n \notin Waited(old)
  BY <1>1, RowFields DEF AttemptRow
<1>3. IsFiniteSet(AttemptNos)
  BY FS_Interval, QueueAssumption DEF AttemptNos
<1>4. IsFiniteSet(Waited(old))
  BY <1>3, FS_Subset
<1>5. Cardinality(Waited(old) \cup {n}) = Cardinality(Waited(old)) + 1
  BY <1>2, <1>4, FS_AddElement
<1>6. QED
  BY <1>2, <1>5 DEF FollowupsCharged

\* A row whose attempt runs is a running row.
LEMMA RunningRow ==
  ASSUME NEW row, RowInv(row), NEW n \in AttemptNos, row.attempts[n].status = "running"
  PROVE  row.status = "running" /\ row.status \notin Final /\ row.status # "absent"
BY DEF RowInv, OneAttemptRuns, Final

\* Ending the attempt that runs leaves every ended attempt as it was.
LEMMA EndAttemptKeeps ==
  ASSUME NEW row \in RunRow, NEW n \in AttemptNos, row.attempts[n].status = "running", NEW st
  PROVE  \A m \in AttemptNos : row.attempts[m].status \notin {"none", "running"} =>
           EndAttempt(row, n, st).attempts[m] = row.attempts[m]
BY DEF EndAttempt, RunRow, AttemptRow

LEMMA AbsentStep ==
  ASSUME NEW a \in Agents, budget[a] \in Budgets, NEW src
  PROVE  RowStep(AbsentRun, NewRun(a), src) /\ RowOK(AbsentRun, src)
<1>1. /\ AttemptLimit \in Nat \ {0} /\ FollowupLimit \in Nat \ {0}
      /\ budget[a].attempts \in 1..AttemptLimit
  BY QueueAssumption
<1>2. /\ 0 \in 0..(AttemptLimit + FollowupLimit) /\ 0 \in 0..AttemptLimit /\ 0 \in 0..FollowupLimit
      /\ budget[a].attempts \in 0..AttemptLimit
  BY <1>1
<1>3. /\ AbsentRun \in RunRow
      /\ \A n \in AttemptNos : AbsentRun.attempts[n] = NoAttempt
  BY <1>2, AttemptRowTypes DEF AbsentRun, RunRow
<1>4. /\ NewRun(a) \in RunRow /\ NewRun(a).maxAttempts = budget[a].attempts
      /\ NewRun(a).attempts = AbsentRun.attempts /\ NewRun(a).status = "queued"
      /\ NewRun(a).ripeness = "due" /\ NewRun(a).waitUntil = "null"
      /\ NewRun(a).attemptsMade = 0 /\ NewRun(a).followupsUsed = 0
      /\ NewRun(a).cancelRequested = FALSE
      /\ NewRun(a).proposal = "none" /\ NewRun(a).comparison = "pending"
      /\ NewRun(a).legacy = "none" /\ NewRun(a).validation = "none"
  BY <1>2, <1>3 DEF NewRun, AbsentRun, RunRow, Pending
<1>5. \A n \in AttemptNos : n \in Nat /\ ~(n <= 0)
  BY <1>1 DEF AttemptNos
<1>6. RowInv(AbsentRun)
  BY <1>1, <1>3, <1>5, AttemptRowTypes DEF RowInv, AbsentRun, OneAttemptRuns, RetriesBounded,
     WaitHasTimer, QueueHasClock, CancelHonoured, OutcomeRecorded
<1>7. RowInv(NewRun(a))
  BY <1>1, <1>3, <1>4, <1>5, AttemptRowTypes DEF RowInv, OneAttemptRuns, RetriesBounded,
     WaitHasTimer, QueueHasClock, CancelHonoured, OutcomeRecorded
<1>8. FollowupsCharged(AbsentRun)
  <2>1. {n \in AttemptNos : AbsentRun.attempts[n].status = "waiting"} = {}
    BY <1>3, AttemptRowTypes
  <2>2. QED
    BY <2>1, FS_EmptySet DEF FollowupsCharged, AbsentRun
<1>9. FollowupsCharged(NewRun(a))
  BY <1>4, <1>8, ChargedFrame DEF AbsentRun
<1>10. QED
  BY <1>3, <1>4, <1>6, <1>7, <1>8, <1>9 DEF RowStep, RowOK, Kept, Compare, AbsentRun, Final

LEMMA FinishCancelledFrame ==
  ASSUME NEW row \in RunRow, NEW src
  PROVE  /\ FinishCancelled(row, src).status = "cancelled"
         /\ FinishCancelled(row, src).attempts = row.attempts
         /\ FinishCancelled(row, src).followupsUsed = row.followupsUsed
         /\ FinishCancelled(row, src).comparison = Compare(FinishCancelled(row, src), src)
<1> DEFINE done == [row EXCEPT !.status = "cancelled", !.waitUntil = "null", !.ripeness = "none"]
<1>1. /\ done \in RunRow /\ done.status = "cancelled" /\ done.attempts = row.attempts
      /\ done.followupsUsed = row.followupsUsed
  BY ZenonT(60) DEF RunRow, Final
<1>2. QED
  BY <1>1, RecomputeFrame, RecomputeCurrent DEF FinishCancelled

LEMMA RecordHoldFrame ==
  ASSUME NEW row \in RunRow, NEW src, NEW st \in {"failed", "expired"}
  PROVE  /\ RecordHold(row, st, src).status = st
         /\ RecordHold(row, st, src).attempts = row.attempts
         /\ RecordHold(row, st, src).followupsUsed = row.followupsUsed
         /\ RecordHold(row, st, src).comparison = Compare(RecordHold(row, st, src), src)
<1> DEFINE held == [row EXCEPT !.status = st, !.ripeness = "none",
                               !.proposal = "hold", !.validation = "valid"]
<1>1. /\ held.status = st /\ held.attempts = row.attempts
      /\ held.followupsUsed = row.followupsUsed
  BY DEF RunRow
<1>2. held \in RunRow
  <2>1. st \in Final /\ "hold" \in Proposals
    BY DEF Final, Proposals
  <2>2. QED
    BY <2>1, ZenonT(60) DEF RunRow
<1>3. QED
  BY <1>1, <1>2, RecomputeFrame, RecomputeCurrent, ZenonT(60) DEF RecordHold

LEMMA RequeueOrFailFrame ==
  ASSUME NEW row \in RunRow, NEW src, row.comparison = Compare(row, src), NEW retryable
  PROVE  /\ RequeueOrFail(row, src, retryable).status # "absent"
         /\ RequeueOrFail(row, src, retryable).attempts = row.attempts
         /\ RequeueOrFail(row, src, retryable).followupsUsed = row.followupsUsed
         /\ RequeueOrFail(row, src, retryable).comparison =
              Compare(RequeueOrFail(row, src, retryable), src)
<1>1. CASE retryable /\ row.attemptsMade - row.followupsUsed < row.maxAttempts
  <2> DEFINE again == [row EXCEPT !.status = "queued", !.ripeness = "backoff"]
  <2>1. /\ again.status = "queued" /\ again.attempts = row.attempts
        /\ again.proposal = row.proposal /\ again.validation = row.validation
        /\ again.legacy = row.legacy /\ again.comparison = row.comparison
        /\ again.followupsUsed = row.followupsUsed
    BY DEF RunRow
  <2>2. again.comparison = Compare(again, src)
    BY <2>1 DEF Compare, Effective
  <2>3. QED
    BY <1>1, <2>1, <2>2 DEF RequeueOrFail
<1>2. CASE ~(retryable /\ row.attemptsMade - row.followupsUsed < row.maxAttempts)
  BY <1>2, RecordHoldFrame DEF RequeueOrFail
<1>3. QED
  BY <1>1, <1>2

LEMMA EndAttemptFrame ==
  ASSUME NEW row, NEW src, RowOK(row, src), NEW n \in AttemptNos, NEW st
  PROVE  EndAttempt(row, n, st).comparison = Compare(EndAttempt(row, n, st), src)
<1>1. /\ EndAttempt(row, n, st).proposal = row.proposal
      /\ EndAttempt(row, n, st).validation = row.validation
      /\ EndAttempt(row, n, st).legacy = row.legacy
      /\ EndAttempt(row, n, st).comparison = row.comparison
  BY DEF EndAttempt, RowOK, RowInv, RunRow
<1>2. QED
  BY <1>1, CompareFrame

\* Whatever a call does with a row after it ended the attempt that ran.
LEMMA EndedStep ==
  ASSUME NEW old, NEW src, RowOK(old, src),
         NEW n \in AttemptNos, old.attempts[n].status = "running", NEW st,
         NEW new, RowInv(new), new.attempts = EndAttempt(old, n, st).attempts,
         new.status # "absent", new.comparison = Compare(new, src), FollowupsCharged(new)
  PROVE  RowStep(old, new, src)
<1>1. RowInv(old) /\ old \in RunRow
  BY DEF RowOK, RowInv
<1>2. old.status \notin Final
  BY <1>1, RunningRow
<1>3. \A m \in AttemptNos : old.attempts[m].status \notin {"none", "running"} =>
        new.attempts[m] = old.attempts[m]
  BY <1>1, EndAttemptKeeps
<1>4. QED
  BY <1>2, <1>3 DEF RowStep, RowOK, Kept

LEMMA CancelledStep ==
  ASSUME NEW old, NEW src, RowOK(old, src),
         NEW n \in AttemptNos, old.attempts[n].status = "running"
  PROVE  RowStep(old, FinishCancelled(EndAttempt(old, n, "cancelled"), src), src)
<1> DEFINE ended == EndAttempt(old, n, "cancelled")
<1>1. RowInv(old) /\ old \in RunRow /\ FollowupsCharged(old)
  BY DEF RowOK, RowInv
<1>2. Stopped(ended) /\ ended.followupsUsed = old.followupsUsed
  BY <1>1, EndAttemptStops
<1>3. ended \in RunRow
  BY <1>2 DEF Stopped
<1> HIDE DEF ended
<1>4. RowInv(FinishCancelled(ended, src))
  BY <1>2, FinishCancelledInv
<1>5. /\ FinishCancelled(ended, src).status # "absent"
      /\ FinishCancelled(ended, src).attempts = ended.attempts
      /\ FinishCancelled(ended, src).followupsUsed = old.followupsUsed
      /\ FinishCancelled(ended, src).comparison = Compare(FinishCancelled(ended, src), src)
  BY <1>2, <1>3, FinishCancelledFrame
<1>6. FollowupsCharged(FinishCancelled(ended, src))
  BY <1>1, <1>5, EndAttemptCharged DEF ended
<1>7. QED
  BY <1>4, <1>5, <1>6, EndedStep DEF ended

\* A failed or expired attempt: cancelled if that was asked, otherwise retried
\* or settled with a hold.
LEMMA FailedStep ==
  ASSUME NEW old, NEW src, RowOK(old, src),
         NEW n \in AttemptNos, old.attempts[n].status = "running",
         NEW st \in {"failed", "expired"}, NEW retryable
  PROVE  RowStep(old, IF EndAttempt(old, n, st).cancelRequested
                      THEN FinishCancelled(EndAttempt(old, n, st), src)
                      ELSE RequeueOrFail(EndAttempt(old, n, st), src, retryable), src)
<1> DEFINE ended == EndAttempt(old, n, st)
<1>1. RowInv(old) /\ old \in RunRow /\ FollowupsCharged(old)
  BY DEF RowOK, RowInv
<1>2. Stopped(ended) /\ ended.followupsUsed = old.followupsUsed
  BY <1>1, EndAttemptStops
<1>3. ended \in RunRow /\ ended.cancelRequested \in BOOLEAN
  BY <1>2 DEF Stopped, RunRow
<1>4. ended.comparison = Compare(ended, src)
  BY EndAttemptFrame
<1>5. \A new :
        /\ RowInv(new) /\ new.attempts = ended.attempts
        /\ new.followupsUsed = ended.followupsUsed
        /\ new.status # "absent" /\ new.comparison = Compare(new, src)
        => RowStep(old, new, src)
  BY <1>1, <1>2, EndedStep, EndAttemptCharged
<1> HIDE DEF ended
<1>6. CASE ended.cancelRequested
  BY <1>2, <1>3, <1>5, <1>6, FinishCancelledInv, FinishCancelledFrame DEF ended
<1>7. CASE ended.cancelRequested = FALSE
  <2> DEFINE new == RequeueOrFail(ended, src, retryable)
  <2>1. RowInv(new)
    BY <1>2, <1>7, RequeueOrFailInv
  <2>2. /\ new.status # "absent" /\ new.attempts = ended.attempts
        /\ new.followupsUsed = ended.followupsUsed /\ new.comparison = Compare(new, src)
    BY <1>3, <1>4, RequeueOrFailFrame
  <2>3. RowStep(old, new, src)
    <3> HIDE DEF new
    <3>1. QED
      BY <1>5, <2>1, <2>2
  <2>4. QED
    BY <1>7, <2>3 DEF ended
<1>8. QED
  BY <1>3, <1>6, <1>7

LEMMA CompletedStep ==
  ASSUME NEW old, NEW src, RowOK(old, src),
         NEW n \in AttemptNos, old.attempts[n].status = "running", old.cancelRequested = FALSE,
         NEW p \in Proposals, NEW v \in {"valid", "rejected"}
  PROVE  /\ old.followupsUsed < FollowupLimit =>
              RowStep(old, WaitForEvent(old, n, p, v, src), src)
         /\ RowStep(old, Succeed(old, n, p, v, src), src)
<1>1. RowInv(old) /\ old \in RunRow /\ FollowupsCharged(old)
  BY DEF RowOK, RowInv
<1>2. ASSUME old.followupsUsed < FollowupLimit
      PROVE  RowStep(old, WaitForEvent(old, n, p, v, src), src)
  <2> DEFINE ended == EndAttempt(old, n, "waiting")
             new == [ended EXCEPT !.status = "waiting_for_event",
                                  !.followupsUsed = old.followupsUsed + 1,
                                  !.waitUntil = "later", !.proposal = p, !.validation = v]
  <2>1. Stopped(ended) /\ ended.followupsUsed = old.followupsUsed
    BY <1>1, EndAttemptStops
  <2>2. RowInv(Recompute(new, src))
    BY <1>1, <1>2, CompletedInv DEF WaitForEvent
  <2>3. ended \in RunRow /\ old.followupsUsed + 1 \in 0..FollowupLimit
    BY <1>1, <1>2, <2>1, QueueAssumption DEF Stopped, RunRow
  <2> HIDE DEF ended
  <2>4. /\ new \in RunRow /\ new.attempts = ended.attempts /\ new.status = "waiting_for_event"
        /\ new.followupsUsed = old.followupsUsed + 1
    <3>1. "waiting_for_event" \in Pending
      BY DEF Pending
    <3>2. QED
      BY <2>3, <3>1, ZenonT(60) DEF RunRow
  <2> HIDE DEF new
  <2>5. /\ Recompute(new, src).attempts = ended.attempts
        /\ Recompute(new, src).status # "absent"
        /\ Recompute(new, src).comparison = Compare(Recompute(new, src), src)
    BY <2>4, RecomputeFrame, RecomputeCurrent
  <2>6. FollowupsCharged(Recompute(new, src))
    BY <1>1, <2>4, <2>5, RecomputeFrame, EndAttemptCharges DEF ended
  <2>7. RowStep(old, Recompute(new, src), src)
    BY <2>2, <2>5, <2>6, EndedStep DEF ended
  <2>8. QED
    BY <2>7 DEF new, ended, WaitForEvent
<1>3. RowStep(old, Succeed(old, n, p, v, src), src)
  <2> DEFINE ended == EndAttempt(old, n, "succeeded")
             new == [ended EXCEPT !.status = "succeeded", !.waitUntil = "null",
                                  !.proposal = p, !.validation = v]
  <2>1. Stopped(ended) /\ ended.followupsUsed = old.followupsUsed
    BY <1>1, EndAttemptStops
  <2>2. RowInv(Recompute(new, src))
    BY <1>1, CompletedInv DEF Succeed
  <2>3. ended \in RunRow
    BY <2>1 DEF Stopped
  <2> HIDE DEF ended
  <2>4. /\ new \in RunRow /\ new.attempts = ended.attempts /\ new.status = "succeeded"
        /\ new.followupsUsed = old.followupsUsed
    BY <2>1, <2>3, ZenonT(60) DEF RunRow, Final
  <2> HIDE DEF new
  <2>5. /\ Recompute(new, src).attempts = ended.attempts
        /\ Recompute(new, src).status # "absent"
        /\ Recompute(new, src).comparison = Compare(Recompute(new, src), src)
    BY <2>4, RecomputeFrame, RecomputeCurrent
  <2>6. FollowupsCharged(Recompute(new, src))
    BY <1>1, <2>4, <2>5, RecomputeFrame, EndAttemptCharged DEF ended
  <2>7. RowStep(old, Recompute(new, src), src)
    BY <2>2, <2>5, <2>6, EndedStep DEF ended
  <2>8. QED
    BY <2>7 DEF new, ended, Succeed
<1>4. QED
  BY <1>2, <1>3

\* A step of a pending row that touches no attempt.
LEMMA QuietStep ==
  ASSUME NEW old, NEW src, RowOK(old, src), old.status \notin Final,
         NEW new, RowInv(new), new.attempts = old.attempts,
         new.followupsUsed = old.followupsUsed,
         new.status # "absent" \/ old.status = "absent",
         new.comparison = Compare(new, src)
  PROVE  RowStep(old, new, src)
BY ChargedFrame DEF RowStep, RowOK, Kept

LEMMA ClaimStep ==
  ASSUME NEW old, NEW src, RowOK(old, src), old.status = "queued"
  PROVE  RowStep(old, [old EXCEPT !.status = "running", !.ripeness = "none",
                                  !.attemptsMade = old.attemptsMade + 1,
                                  !.attempts[old.attemptsMade + 1] = FreshAttempt], src)
<1> DEFINE n == old.attemptsMade + 1
           new == [old EXCEPT !.status = "running", !.ripeness = "none",
                              !.attemptsMade = n, !.attempts[n] = FreshAttempt]
<1>1. RowInv(old) /\ old \in RunRow
  BY DEF RowOK, RowInv
<1>2. n \in AttemptNos /\ RowInv(new)
  BY <1>1, ClaimInv
<1>3. old.attempts[n].status = "none"
  <2>1. ~(n <= old.attemptsMade)
    BY <1>1, RowFields
  <2>2. QED
    BY <1>1, <1>2, <2>1 DEF RowInv, OneAttemptRuns
<1> HIDE DEF n
<1>4. /\ new.status = "running" /\ new.attempts = [old.attempts EXCEPT ![n] = FreshAttempt]
      /\ new.followupsUsed = old.followupsUsed
      /\ new.proposal = old.proposal /\ new.validation = old.validation
      /\ new.legacy = old.legacy /\ new.comparison = old.comparison
  BY <1>1 DEF RunRow
<1> HIDE DEF new
<1>5. new.comparison = Compare(new, src)
  BY <1>4, CompareFrame
<1>6. \A m \in AttemptNos : old.attempts[m].status \notin {"none", "running"} =>
        new.attempts[m] = old.attempts[m]
  BY <1>1, <1>3, <1>4, RowFields
<1>7. FollowupsCharged(new)
  <2>1. \A m \in AttemptNos :
          (new.attempts[m].status = "waiting") <=> (old.attempts[m].status = "waiting")
    BY <1>1, <1>3, <1>4, RowFields, AttemptRowTypes
  <2>2. QED
    BY <1>4, <2>1, ChargedFrame DEF RowOK
<1>8. QED
  BY <1>2, <1>4, <1>5, <1>6, <1>7 DEF RowStep, RowOK, Kept, Final, new, n

\* A call that only notes something on the attempt that runs.
LEMMA NotedStep ==
  ASSUME NEW old, NEW src, RowOK(old, src),
         NEW n \in AttemptNos, old.attempts[n].status = "running",
         NEW noted \in AttemptRow, noted.status = "running"
  PROVE  RowStep(old, [old EXCEPT !.attempts[n] = noted], src)
<1> DEFINE new == [old EXCEPT !.attempts[n] = noted]
<1>1. RowInv(old) /\ old \in RunRow
  BY DEF RowOK, RowInv
<1>2. old.status = "running" /\ old.status \notin Final
  BY <1>1, RunningRow
<1>3. /\ new \in RunRow /\ new.status = old.status
      /\ new.attempts = [old.attempts EXCEPT ![n] = noted]
      /\ new.attemptsMade = old.attemptsMade /\ new.maxAttempts = old.maxAttempts
      /\ new.followupsUsed = old.followupsUsed /\ new.cancelRequested = old.cancelRequested
      /\ new.ripeness = old.ripeness /\ new.waitUntil = old.waitUntil
      /\ new.proposal = old.proposal /\ new.validation = old.validation
      /\ new.legacy = old.legacy /\ new.comparison = old.comparison
  BY <1>1 DEF RunRow
<1> HIDE DEF new
<1>4. OneAttemptRuns(new)
  <2>1. \A m \in AttemptNos : new.attempts[m].status = old.attempts[m].status
    BY <1>1, <1>3, RowFields
  <2>2. QED
    BY <1>1, <1>3, <2>1 DEF RowInv, OneAttemptRuns
<1>5. RowInv(new)
  BY <1>1, <1>3, <1>4 DEF RowInv, RetriesBounded, WaitHasTimer, QueueHasClock, CancelHonoured,
     OutcomeRecorded
<1>6. new.comparison = Compare(new, src)
  BY <1>3, CompareFrame
<1>7. \A m \in AttemptNos : old.attempts[m].status \notin {"none", "running"} =>
        new.attempts[m] = old.attempts[m]
  BY <1>1, <1>3, RowFields
<1>8. FollowupsCharged(new)
  <2>1. \A m \in AttemptNos :
          (new.attempts[m].status = "waiting") <=> (old.attempts[m].status = "waiting")
    BY <1>1, <1>3, RowFields
  <2>2. QED
    BY <1>3, <2>1, ChargedFrame DEF RowOK
<1>9. RowStep(old, new, src)
  BY <1>2, <1>3, <1>5, <1>6, <1>7, <1>8 DEF RowStep, RowOK, Kept, Final
<1>10. QED
  BY <1>9 DEF new

\* Cancelling a run no worker holds.
LEMMA CancelStep ==
  ASSUME NEW old, NEW src, RowOK(old, src), old.status \in {"queued", "waiting_for_event"}
  PROVE  RowStep(old, FinishCancelled(old, src), src)
<1>1. RowInv(old) /\ old \in RunRow
  BY DEF RowOK, RowInv
<1>2. RowInv(FinishCancelled(old, src))
  BY <1>1, FinishCancelledInv
<1>3. QED
  BY <1>1, <1>2, FinishCancelledFrame, QuietStep DEF Final

LEMMA AgedStep ==
  ASSUME NEW old, NEW src, RowOK(old, src), old.status = "queued"
  PROVE  RowStep(old, RecordHold(old, "expired", src), src)
<1>1. RowInv(old) /\ old \in RunRow
  BY DEF RowOK, RowInv
<1>2. old.cancelRequested = FALSE
  BY <1>1 DEF RowInv, CancelHonoured, RunRow
<1>3. RowInv(RecordHold(old, "expired", src))
  BY <1>1, <1>2, RecordHoldInv
<1>4. QED
  BY <1>1, <1>3, RecordHoldFrame, QuietStep DEF Final

LEMMA WakeStep ==
  ASSUME NEW old, NEW src, RowOK(old, src), old.status = "waiting_for_event"
  PROVE  RowStep(old, WakeUp(old), src)
<1>1. RowInv(old) /\ old \in RunRow
  BY DEF RowOK, RowInv
<1>2. RowInv(WakeUp(old))
  BY <1>1, WakeUpInv
<1>3. /\ WakeUp(old).status = "queued" /\ WakeUp(old).attempts = old.attempts
      /\ WakeUp(old).proposal = old.proposal /\ WakeUp(old).validation = old.validation
      /\ WakeUp(old).legacy = old.legacy /\ WakeUp(old).comparison = old.comparison
      /\ WakeUp(old).followupsUsed = old.followupsUsed
  BY <1>1 DEF WakeUp, RunRow
<1>4. WakeUp(old).comparison = Compare(WakeUp(old), src)
  BY <1>3, CompareFrame
<1>5. QED
  BY <1>2, <1>3, <1>4, QuietStep DEF Final

\* The clock moves a place in the queue on, and a wait.
LEMMA ClockStep ==
  ASSUME NEW old, NEW src, RowOK(old, src)
  PROVE  /\ \A t \in {"due", "aged"} : old.ripeness # "none" =>
              RowStep(old, [old EXCEPT !.ripeness = t], src)
         /\ old.waitUntil # "null" => RowStep(old, [old EXCEPT !.waitUntil = "due"], src)
<1>1. RowInv(old) /\ old \in RunRow
  BY DEF RowOK, RowInv
<1>2. ASSUME NEW t \in {"due", "aged"}, old.ripeness # "none"
      PROVE  RowStep(old, [old EXCEPT !.ripeness = t], src)
  <2> DEFINE new == [old EXCEPT !.ripeness = t]
  <2>1. old.status = "queued"
    BY <1>1, <1>2 DEF RowInv, QueueHasClock
  <2>2. /\ new \in RunRow /\ new.status = "queued" /\ new.attempts = old.attempts
        /\ new.attemptsMade = old.attemptsMade /\ new.maxAttempts = old.maxAttempts
        /\ new.followupsUsed = old.followupsUsed /\ new.cancelRequested = old.cancelRequested
        /\ new.ripeness = t /\ new.waitUntil = old.waitUntil
        /\ new.proposal = old.proposal /\ new.validation = old.validation
        /\ new.legacy = old.legacy /\ new.comparison = old.comparison
    BY <1>1, <2>1 DEF RunRow
  <2> HIDE DEF new
  <2>3. RowInv(new)
    BY <1>1, <1>2, <2>1, <2>2 DEF RowInv, OneAttemptRuns, RetriesBounded, WaitHasTimer,
       QueueHasClock, CancelHonoured, OutcomeRecorded
  <2>4. new.comparison = Compare(new, src)
    BY <2>2, CompareFrame
  <2>5. RowStep(old, new, src)
    BY <2>1, <2>2, <2>3, <2>4, QuietStep DEF Final
  <2>6. QED
    BY <2>5 DEF new
<1>3. ASSUME old.waitUntil # "null"
      PROVE  RowStep(old, [old EXCEPT !.waitUntil = "due"], src)
  <2> DEFINE new == [old EXCEPT !.waitUntil = "due"]
  <2>1. old.status = "waiting_for_event"
    BY <1>1, <1>3 DEF RowInv, WaitHasTimer
  <2>2. /\ new \in RunRow /\ new.status = "waiting_for_event" /\ new.attempts = old.attempts
        /\ new.attemptsMade = old.attemptsMade /\ new.maxAttempts = old.maxAttempts
        /\ new.followupsUsed = old.followupsUsed /\ new.cancelRequested = old.cancelRequested
        /\ new.ripeness = old.ripeness /\ new.waitUntil = "due"
        /\ new.proposal = old.proposal /\ new.validation = old.validation
        /\ new.legacy = old.legacy /\ new.comparison = old.comparison
    BY <1>1, <2>1 DEF RunRow
  <2> HIDE DEF new
  <2>3. RowInv(new)
    BY <1>1, <2>1, <2>2 DEF RowInv, OneAttemptRuns, RetriesBounded, WaitHasTimer,
       QueueHasClock, CancelHonoured, OutcomeRecorded
  <2>4. new.comparison = Compare(new, src)
    BY <2>2, CompareFrame
  <2>5. RowStep(old, new, src)
    BY <2>1, <2>2, <2>3, <2>4, QuietStep DEF Final
  <2>6. QED
    BY <2>5 DEF new
<1>4. QED
  BY <1>2, <1>3

\* A cancel request to a running run.
LEMMA CancelRequestStep ==
  ASSUME NEW old, NEW src, RowOK(old, src), old.status = "running"
  PROVE  RowStep(old, [old EXCEPT !.cancelRequested = TRUE], src)
<1> DEFINE new == [old EXCEPT !.cancelRequested = TRUE]
<1>1. RowInv(old) /\ old \in RunRow
  BY DEF RowOK, RowInv
<1>2. /\ new \in RunRow /\ new.status = "running" /\ new.attempts = old.attempts
      /\ new.attemptsMade = old.attemptsMade /\ new.maxAttempts = old.maxAttempts
      /\ new.followupsUsed = old.followupsUsed
      /\ new.ripeness = old.ripeness /\ new.waitUntil = old.waitUntil
      /\ new.proposal = old.proposal /\ new.validation = old.validation
      /\ new.legacy = old.legacy /\ new.comparison = old.comparison
  BY <1>1 DEF RunRow
<1> HIDE DEF new
<1>3. RowInv(new)
  BY <1>1, <1>2 DEF RowInv, OneAttemptRuns, RetriesBounded, WaitHasTimer, QueueHasClock,
     CancelHonoured, OutcomeRecorded
<1>4. new.comparison = Compare(new, src)
  BY <1>2, CompareFrame
<1>5. RowStep(old, new, src)
  BY <1>2, <1>3, <1>4, QuietStep DEF Final
<1>6. QED
  BY <1>5 DEF new

\* The engine's decision arrives, before or after the run ended.
LEMMA LegacyStep ==
  ASSUME NEW old, NEW src, RowOK(old, src), NEW d \in EngineDecisions
  PROVE  RowStep(old, Recompute([old EXCEPT !.legacy = d], src), src)
<1> DEFINE new == [old EXCEPT !.legacy = d]
<1>1. RowInv(old) /\ old \in RunRow
  BY DEF RowOK, RowInv
<1>2. /\ new \in RunRow /\ new.status = old.status /\ new.attempts = old.attempts
      /\ new.attemptsMade = old.attemptsMade /\ new.maxAttempts = old.maxAttempts
      /\ new.followupsUsed = old.followupsUsed /\ new.cancelRequested = old.cancelRequested
      /\ new.ripeness = old.ripeness /\ new.waitUntil = old.waitUntil
      /\ new.proposal = old.proposal /\ new.validation = old.validation
  BY <1>1 DEF RunRow
<1> HIDE DEF new
<1>3. RowInv(new)
  BY <1>1, <1>2 DEF RowInv, OneAttemptRuns, RetriesBounded, WaitHasTimer, QueueHasClock,
     CancelHonoured, OutcomeRecorded
<1>4. RowInv(Recompute(new, src))
  BY <1>3, RecomputeInv
<1>5. FollowupsCharged(Recompute(new, src))
  BY <1>2, RecomputeFrame, ChargedFrame DEF RowOK
<1>6. RowStep(old, Recompute(new, src), src)
  BY <1>2, <1>4, <1>5, RecomputeFrame, RecomputeCurrent DEF RowStep, RowOK, Kept
<1>7. QED
  BY <1>6 DEF new

\* A row that is left alone.
LEMMA SameStep ==
  ASSUME NEW old, NEW src, RowOK(old, src)
  PROVE  RowStep(old, old, src)
BY DEF RowStep, Kept
-----------------------------------------------------------------------------
(* Steps of the queue.                                                     *)

\* A run exists only for a stored snapshot, so that the ingest of a key finds
\* no run of it.
RunsHaveSnapshots == \A r \in Runs : run[r].status # "absent" => r[2] \in snapshots

\* The inductive invariant.
IInv ==
  /\ TypeOK
  /\ \A r \in Runs : RowOK(run[r], Source(r))
  /\ RunsHaveSnapshots
  /\ BookFollowsDecisions
  /\ OneOpenPosition

\* Every row makes a step of its own kind, and new rows come with their snapshot.
RowsStep ==
  /\ run' \in [Runs -> RunRow]
  /\ \A r \in Runs :
       /\ RowStep(run[r], run'[r], Source(r))
       /\ run[r].status = "absent" /\ run'[r].status # "absent" =>
            r[2] \notin snapshots /\ r[2] \in snapshots'

LEMMA OneRowChanges ==
  ASSUME IInv, NEW r \in Runs, run[r].status # "absent",
         NEW new, RowStep(run[r], new, Source(r)), run' = [run EXCEPT ![r] = new]
  PROVE  RowsStep
<1>1. run \in [Runs -> RunRow] /\ new \in RunRow
  BY DEF IInv, TypeOK, RowStep, RowOK, RowInv
<1>2. run' \in [Runs -> RunRow] /\ run'[r] = new
  BY <1>1
<1>3. \A s \in Runs : s # r => run'[s] = run[s] /\ RowStep(run[s], run[s], Source(s))
  BY <1>1, SameStep DEF IInv
<1>4. QED
  BY <1>2, <1>3 DEF RowsStep

LEMMA NoRowChanges ==
  ASSUME IInv, UNCHANGED run
  PROVE  RowsStep
BY SameStep DEF IInv, TypeOK, RowsStep

LEMMA IngestRows ==
  ASSUME IInv, NEW k \in Keys, Ingest(k)
  PROVE  RowsStep
<1>1. SUFFICES ASSUME NEW r \in Runs
               PROVE  /\ RowStep(run[r], run'[r], Source(r))
                      /\ run[r].status = "absent" /\ run'[r].status # "absent" =>
                           r[2] \notin snapshots /\ r[2] \in snapshots'
  BY DEF Ingest, RowsStep, RowStep, RowOK, RowInv
<1>2. RowOK(run[r], Source(r)) /\ budget[r[1]] \in Budgets /\ r[1] \in Agents
  BY DEF IInv, TypeOK, Runs
<1>3. CASE r[2] = k /\ Targeted(r[1], k)
  <2>1. run'[r] = NewRun(r[1]) /\ RowOK(NewRun(r[1]), Source(r)) /\ r[2] \in snapshots'
    BY <1>2, <1>3, AbsentStep DEF Ingest, RowStep
  <2>2. run[r].status = "absent" /\ r[2] \notin snapshots
    BY <1>3 DEF Ingest, IInv, RunsHaveSnapshots
  <2>3. \A n \in AttemptNos : run[r].attempts[n].status = "none"
    BY <1>2, <2>2, QueueAssumption DEF RowOK, RowInv, OneAttemptRuns, AttemptNos
  <2>4. QED
    BY <2>1, <2>2, <2>3 DEF RowStep, Kept, Final, NewRun, AbsentRun
<1>4. CASE ~(r[2] = k /\ Targeted(r[1], k))
  BY <1>2, <1>4, SameStep DEF Ingest
<1>5. QED
  BY <1>3, <1>4

LEMMA SetLegacyRows ==
  ASSUME IInv, NEW k \in Keys, NEW d \in EngineDecisions, SetLegacy(k, d)
  PROVE  RowsStep
<1>1. SUFFICES ASSUME NEW r \in Runs
               PROVE  /\ RowStep(run[r], run'[r], Source(r))
                      /\ run[r].status = "absent" => run'[r].status = "absent"
  BY DEF SetLegacy, RowsStep, RowStep, RowOK, RowInv
<1>2. RowOK(run[r], Source(r))
  BY DEF IInv
<1>3. QED
  BY <1>2, SameStep, LegacyStep DEF SetLegacy

LEMMA CompleteRows ==
  ASSUME IInv, NEW r \in Runs, NEW n \in AttemptNos, Complete(r, n)
  PROVE  RowsStep
<1>1. RowOK(run[r], Source(r)) /\ RowInv(run[r]) /\ budget[r[1]] \in Budgets
  BY DEF IInv, TypeOK, RowOK, Runs
<1>2. run[r].attempts[n].status = "running"
  BY DEF Complete, CompleteCancelled, CompleteWaiting, CompleteFinal, Current
<1>3. run[r].status # "absent" /\ run[r].cancelRequested \in BOOLEAN
  BY <1>1, <1>2, RunningRow DEF RowInv, RunRow
<1>4. CASE CompleteCancelled(r, n)
  BY <1>1, <1>2, <1>3, <1>4, CancelledStep, OneRowChanges DEF CompleteCancelled
<1>5. ASSUME NEW p \in Proposals, NEW v \in Verdicts(r, p), CompleteWaiting(r, n, p, v)
      PROVE  RowsStep
  <2>1. v \in {"valid", "rejected"}
    BY DEF Verdicts
  <2>2. run[r].followupsUsed < FollowupLimit
    <3>1. /\ run[r].followupsUsed \in Nat /\ FollowupLimit \in Nat
          /\ budget[r[1]].followups \in 1..FollowupLimit
      BY <1>1, RowFields, QueueAssumption DEF RowInv
    <3>2. run[r].followupsUsed < budget[r[1]].followups
      BY <1>5 DEF CompleteWaiting, TakesFollowup
    <3>3. QED
      BY <3>1, <3>2
  <2>3. QED
    BY <1>1, <1>2, <1>3, <1>5, <2>1, <2>2, CompletedStep, OneRowChanges DEF CompleteWaiting
<1>6. ASSUME NEW p \in Proposals, NEW v \in Verdicts(r, p), CompleteFinal(r, n, p, v)
      PROVE  RowsStep
  <2>1. v \in {"valid", "rejected"}
    BY DEF Verdicts
  <2>2. QED
    BY <1>1, <1>2, <1>3, <1>6, <2>1, CompletedStep, OneRowChanges DEF CompleteFinal
<1>7. QED
  BY <1>4, <1>5, <1>6 DEF Complete

LEMMA WorkerCallRows ==
  ASSUME IInv, NEW r \in Runs, NEW n \in AttemptNos, WorkerCall(r, n)
  PROVE  RowsStep
<1>1. RowOK(run[r], Source(r)) /\ RowInv(run[r]) /\ budget[r[1]] \in Budgets
  BY DEF IInv, TypeOK, RowOK, Runs
<1>2. run[r].attempts[n].status = "running"
  BY DEF WorkerCall, Complete, CompleteCancelled, CompleteWaiting, CompleteFinal, Current,
     AuthorizeTool, SetPendingWait, Fail, AckCancel
<1>3. run[r].status # "absent"
  BY <1>1, <1>2, RunningRow
<1>4. run[r].attempts[n] \in AttemptRow
  BY <1>1, RowFields DEF RowInv
<1>5. CASE AuthorizeTool(r, n)
  <2> DEFINE noted == [run[r].attempts[n] EXCEPT !.toolCalls = @ + 1]
  <2>1. run[r].attempts[n].toolCalls + 1 \in 0..ToolLimit
    <3>1. /\ run[r].attempts[n].toolCalls \in 0..ToolLimit /\ ToolLimit \in Nat
          /\ budget[r[1]].tools \in 0..ToolLimit
      BY <1>1, <1>4, QueueAssumption DEF AttemptRow
    <3>2. run[r].attempts[n].toolCalls < budget[r[1]].tools
      BY <1>5 DEF AuthorizeTool
    <3>3. QED
      BY <3>1, <3>2
  <2>2. noted \in AttemptRow /\ noted.status = "running"
    BY <1>2, <1>4, <2>1 DEF AttemptRow
  <2>3. run' = [run EXCEPT ![r] = [run[r] EXCEPT !.attempts[n] = noted]]
    BY <1>5 DEF AuthorizeTool
  <2> HIDE DEF noted
  <2>4. QED
    BY <1>1, <1>2, <1>3, <2>2, <2>3, NotedStep, OneRowChanges
<1>6. CASE SetPendingWait(r, n)
  <2> DEFINE noted == [run[r].attempts[n] EXCEPT !.pendingWait = TRUE]
  <2>1. noted \in AttemptRow /\ noted.status = "running"
    BY <1>2, <1>4 DEF AttemptRow
  <2>2. run' = [run EXCEPT ![r] = [run[r] EXCEPT !.attempts[n] = noted]]
    BY <1>6 DEF SetPendingWait
  <2> HIDE DEF noted
  <2>3. QED
    BY <1>1, <1>2, <1>3, <2>1, <2>2, NotedStep, OneRowChanges
<1>7. CASE Complete(r, n)
  BY <1>7, CompleteRows
<1>8. ASSUME NEW retryable \in BOOLEAN, Fail(r, n, retryable)
      PROVE  RowsStep
  BY <1>1, <1>2, <1>3, <1>8, FailedStep, OneRowChanges DEF Fail
<1>9. CASE AckCancel(r, n)
  BY <1>1, <1>2, <1>3, <1>9, CancelledStep, OneRowChanges DEF AckCancel
<1>10. QED
  BY <1>5, <1>6, <1>7, <1>8, <1>9 DEF WorkerCall

LEMMA ReapRows ==
  ASSUME IInv, NEW dead \in SUBSET LapsedAttempts, NEW old \in SUBSET AgedRuns, Reap(dead, old)
  PROVE  RowsStep
<1>1. SUFFICES ASSUME NEW r \in Runs
               PROVE  RowStep(run[r], run'[r], Source(r)) /\
                      (run[r].status = "absent" => run'[r].status = "absent")
  BY DEF Reap, RowsStep, RowStep, RowOK, RowInv
<1>2. RowOK(run[r], Source(r)) /\ RowInv(run[r])
  BY DEF IInv, RowOK
<1>3. CASE \E n \in AttemptNos : <<r, n>> \in dead
  <2> DEFINE n == CHOOSE n \in AttemptNos : <<r, n>> \in dead
  <2>1. n \in AttemptNos /\ <<r, n>> \in dead
    BY <1>3
  <2>2. run'[r] = ExpireLease(run[r], n, Source(r))
    BY <1>3 DEF Reap
  <2> HIDE DEF n
  <2>3. run[r].attempts[n].status = "running"
    BY <2>1 DEF LapsedAttempts
  <2>4. run[r].status # "absent"
    BY <1>2, <2>1, <2>3, RunningRow
  <2>5. RowStep(run[r], ExpireLease(run[r], n, Source(r)), Source(r))
    BY <1>2, <2>1, <2>3, FailedStep DEF ExpireLease
  <2>6. QED
    BY <2>2, <2>4, <2>5
<1>4. CASE ~(\E n \in AttemptNos : <<r, n>> \in dead) /\ r \in DueWaits
  BY <1>2, <1>4, WakeStep DEF Reap, DueWaits
<1>5. CASE ~(\E n \in AttemptNos : <<r, n>> \in dead) /\ r \notin DueWaits /\ r \in old
  BY <1>2, <1>5, AgedStep DEF Reap, AgedRuns
<1>6. CASE ~(\E n \in AttemptNos : <<r, n>> \in dead) /\ r \notin DueWaits /\ r \notin old
  BY <1>2, <1>6, SameStep DEF Reap
<1>7. QED
  BY <1>3, <1>4, <1>5, <1>6

LEMMA ClockRows ==
  ASSUME IInv, NEW r \in Runs,
         \/ QueueAges(r) \/ WaitElapses(r)
         \/ \E n \in AttemptNos : LeaseLapses(r, n)
  PROVE  RowsStep
<1>1. RowOK(run[r], Source(r)) /\ RowInv(run[r])
  BY DEF IInv, RowOK
<1>2. CASE QueueAges(r)
  <2>1. run[r].ripeness # "none" /\ run[r].status # "absent"
    BY <1>1, <1>2 DEF QueueAges, RowInv, QueueHasClock
  <2>2. PICK t \in {"due", "aged"} : run' = [run EXCEPT ![r] = [run[r] EXCEPT !.ripeness = t]]
    BY <1>2 DEF QueueAges
  <2>3. QED
    BY <1>1, <2>1, <2>2, ClockStep, OneRowChanges
<1>3. CASE WaitElapses(r)
  <2>1. run[r].waitUntil # "null" /\ run[r].status # "absent"
    BY <1>1, <1>3 DEF WaitElapses, RowInv, WaitHasTimer
  <2>2. run' = [run EXCEPT ![r] = [run[r] EXCEPT !.waitUntil = "due"]]
    BY <1>3 DEF WaitElapses
  <2>3. QED
    BY <1>1, <2>1, <2>2, ClockStep, OneRowChanges
<1>4. ASSUME NEW n \in AttemptNos, LeaseLapses(r, n)
      PROVE  RowsStep
  <2> DEFINE noted == [run[r].attempts[n] EXCEPT !.lease = "lapsed"]
  <2>1. run[r].attempts[n].status = "running" /\ run[r].attempts[n] \in AttemptRow
    BY <1>1, <1>4, RowFields DEF LeaseLapses, Current, RowInv
  <2>2. noted \in AttemptRow /\ noted.status = "running"
    BY <2>1 DEF AttemptRow
  <2>3. run' = [run EXCEPT ![r] = [run[r] EXCEPT !.attempts[n] = noted]]
    BY <1>4 DEF LeaseLapses
  <2>4. run[r].status # "absent"
    BY <1>1, <2>1, RunningRow
  <2> HIDE DEF noted
  <2>5. QED
    BY <1>1, <2>1, <2>2, <2>3, <2>4, NotedStep, OneRowChanges
<1>5. QED
  BY <1>2, <1>3, <1>4

LEMMA ClaimRows ==
  ASSUME IInv, NEW r \in Runs, Claim(r)
  PROVE  RowsStep
<1>1. RowOK(run[r], Source(r)) /\ run[r].status = "queued"
  BY DEF IInv, Claim
<1> DEFINE new == [run[r] EXCEPT !.status = "running", !.ripeness = "none",
                                 !.attemptsMade = run[r].attemptsMade + 1,
                                 !.attempts[run[r].attemptsMade + 1] = FreshAttempt]
<1>2. RowStep(run[r], new, Source(r))
  BY <1>1, ClaimStep
<1>3. run' = [run EXCEPT ![r] = new]
  BY DEF Claim
<1> HIDE DEF new
<1>4. QED
  BY <1>1, <1>2, <1>3, OneRowChanges

LEMMA CancelRows ==
  ASSUME IInv, NEW r \in Runs, Cancel(r)
  PROVE  RowsStep
<1>1. RowOK(run[r], Source(r))
  BY DEF IInv
<1>2. CASE run[r].status \in {"queued", "waiting_for_event"}
  BY <1>1, <1>2, CancelStep, OneRowChanges DEF Cancel
<1>3. CASE run[r].status = "running"
  <2> DEFINE new == [run[r] EXCEPT !.cancelRequested = TRUE]
  <2>1. RowStep(run[r], new, Source(r))
    BY <1>1, <1>3, CancelRequestStep
  <2>2. run' = [run EXCEPT ![r] = new]
    BY <1>3 DEF Cancel
  <2> HIDE DEF new
  <2>3. QED
    BY <1>3, <2>1, <2>2, OneRowChanges
<1>4. QED
  BY <1>2, <1>3 DEF Cancel

LEMMA NextRows ==
  ASSUME IInv, [Next]_vars
  PROVE  RowsStep
<1>1. ASSUME NEW a \in Agents, NEW on \in BOOLEAN, SetEnabled(a, on)
      PROVE  RowsStep
  BY <1>1, NoRowChanges DEF SetEnabled
<1>2. ASSUME NEW a \in Agents, NEW on \in BOOLEAN, NEW m \in Markets, NEW b \in Budgets,
             UpsertAgent(a, on, m, b)
      PROVE  RowsStep
  BY <1>2, NoRowChanges DEF UpsertAgent
<1>3. ASSUME NEW r \in Runs, ClosePosition(r)
      PROVE  RowsStep
  BY <1>3, NoRowChanges DEF ClosePosition
<1>4. CASE UNCHANGED vars
  BY <1>4, NoRowChanges DEF vars
<1>5. QED
  BY <1>1, <1>2, <1>3, <1>4, IngestRows, SetLegacyRows, ClaimRows, CancelRows, ClockRows,
     WorkerCallRows, ReapRows DEF Next

\* The columns outside runs and the book.
ColumnsStep ==
  /\ enabled' \in [Agents -> BOOLEAN]
  /\ market' \in [Agents -> Markets]
  /\ budget' \in [Agents -> Budgets]
  /\ snapshots' \subseteq Keys
  /\ snapshots \subseteq snapshots'

\* A position is opened by the run that decided for it.
Opens(r) ==
  /\ book' = [book EXCEPT ![r] = "open"]
  /\ book[r] = "none"
  /\ \A k \in Keys : book[<<r[1], k>>] # "open"
  /\ Source(r) = "engine"
  /\ run'[r].status = "succeeded"
  /\ run'[r].validation = "valid"
  /\ run'[r].proposal \in Entries

BookStep ==
  \/ UNCHANGED book
  \/ \E r \in Runs : book' = ClosedAt(r)
  \/ \E r \in Runs : Opens(r)

LEMMA SucceedFields ==
  ASSUME NEW row \in RunRow, NEW n \in AttemptNos, NEW p, NEW v, NEW src
  PROVE  /\ Succeed(row, n, p, v, src).status = "succeeded"
         /\ Succeed(row, n, p, v, src).proposal = p
         /\ Succeed(row, n, p, v, src).validation = v
BY DEF Succeed, EndAttempt, Recompute, RunRow

LEMMA FinalBook ==
  ASSUME IInv, NEW r \in Runs, NEW n \in AttemptNos, NEW p \in Proposals, NEW v \in Verdicts(r, p),
         CompleteFinal(r, n, p, v)
  PROVE  BookStep
<1>1. run \in [Runs -> RunRow] /\ book \in [Runs -> {"none", "open", "closed"}]
  BY DEF IInv, TypeOK
<1>2. book' = BookAfter(r, p, v)
  BY DEF CompleteFinal
<1>3. /\ run'[r].status = "succeeded" /\ run'[r].proposal = p /\ run'[r].validation = v
  <2> DEFINE new == Succeed(run[r], n, p, v, Source(r))
  <2>1. run' = [run EXCEPT ![r] = new]
    BY DEF CompleteFinal
  <2>2. new.status = "succeeded" /\ new.proposal = p /\ new.validation = v
    BY <1>1, SucceedFields
  <2> HIDE DEF new
  <2>3. QED
    BY <1>1, <2>1, <2>2
<1>4. CASE v = "valid" /\ Source(r) = "monitor" /\ p = "close"
  <2>1. book' = ClosedAt(WokenFor[r[2]])
    BY <1>2, <1>4 DEF BookAfter
  <2>2. r[2] \in WakeKeys
    BY <1>4 DEF Source, WakeKeys, Runs
  <2>3. WokenFor[r[2]] \in Runs
    BY <2>2, QueueAssumption
  <2>4. QED
    BY <2>1, <2>3 DEF BookStep
<1>5. CASE v = "valid" /\ Source(r) = "engine" /\ p \in Entries
  BY <1>1, <1>2, <1>3, <1>5 DEF BookAfter, OpenPosition, BookStep, Opens
<1>6. CASE /\ ~(v = "valid" /\ Source(r) = "monitor" /\ p = "close")
           /\ ~(v = "valid" /\ Source(r) = "engine" /\ p \in Entries)
  BY <1>2, <1>6 DEF BookAfter, BookStep
<1>7. QED
  BY <1>4, <1>5, <1>6

LEMMA NextColumns ==
  ASSUME IInv, [Next]_vars
  PROVE  ColumnsStep /\ BookStep
<1>1. /\ enabled \in [Agents -> BOOLEAN] /\ market \in [Agents -> Markets]
      /\ budget \in [Agents -> Budgets] /\ snapshots \subseteq Keys
  BY DEF IInv, TypeOK
<1>2. ASSUME NEW a \in Agents, NEW on \in BOOLEAN, SetEnabled(a, on)
      PROVE  ColumnsStep /\ BookStep
  BY <1>1, <1>2 DEF SetEnabled, ColumnsStep, BookStep
<1>3. ASSUME NEW a \in Agents, NEW on \in BOOLEAN, NEW m \in Markets, NEW b \in Budgets,
             UpsertAgent(a, on, m, b)
      PROVE  ColumnsStep /\ BookStep
  BY <1>1, <1>3 DEF UpsertAgent, ColumnsStep, BookStep
<1>4. ASSUME NEW k \in Keys, Ingest(k)
      PROVE  ColumnsStep /\ BookStep
  BY <1>1, <1>4 DEF Ingest, ColumnsStep, BookStep
<1>5. ASSUME NEW r \in Runs, ClosePosition(r)
      PROVE  ColumnsStep /\ BookStep
  BY <1>1, <1>5 DEF ClosePosition, ColumnsStep, BookStep
<1>6. ASSUME NEW r \in Runs, NEW n \in AttemptNos, NEW p \in Proposals, NEW v \in Verdicts(r, p),
             CompleteFinal(r, n, p, v)
      PROVE  ColumnsStep /\ BookStep
  BY <1>1, <1>6, FinalBook DEF CompleteFinal, ColumnsStep
<1>7. ASSUME UNCHANGED <<enabled, market, budget, snapshots, book>>
      PROVE  ColumnsStep /\ BookStep
  BY <1>1, <1>7 DEF ColumnsStep, BookStep
<1>8. ASSUME NEW r \in Runs, NEW n \in AttemptNos, Complete(r, n)
      PROVE  ColumnsStep /\ BookStep
  BY <1>6, <1>7, <1>8 DEF Complete, CompleteCancelled, CompleteWaiting
<1>9. ASSUME NEW r \in Runs, NEW n \in AttemptNos, WorkerCall(r, n)
      PROVE  ColumnsStep /\ BookStep
  BY <1>7, <1>8, <1>9 DEF WorkerCall, AuthorizeTool, SetPendingWait, Fail, AckCancel
<1>10. ASSUME NEW k \in Keys, NEW d \in EngineDecisions, SetLegacy(k, d)
       PROVE  ColumnsStep /\ BookStep
  BY <1>7, <1>10 DEF SetLegacy
<1>11. ASSUME NEW r \in Runs,
              \/ Claim(r) \/ Cancel(r) \/ QueueAges(r) \/ WaitElapses(r)
              \/ \E n \in AttemptNos : LeaseLapses(r, n)
       PROVE  ColumnsStep /\ BookStep
  BY <1>7, <1>11 DEF Claim, Cancel, QueueAges, WaitElapses, LeaseLapses
<1>12. ASSUME NEW dead \in SUBSET LapsedAttempts, NEW old \in SUBSET AgedRuns, Reap(dead, old)
       PROVE  ColumnsStep /\ BookStep
  BY <1>7, <1>12 DEF Reap
<1>13. CASE UNCHANGED vars
  BY <1>7, <1>13 DEF vars
<1>14. QED
  BY <1>2, <1>3, <1>4, <1>5, <1>9, <1>10, <1>11, <1>12, <1>13 DEF Next

\* Closing moves no position but an open one.
LEMMA ClosedAtBook ==
  ASSUME book \in [Runs -> {"none", "open", "closed"}], NEW r
  PROVE  /\ ClosedAt(r) \in [Runs -> {"none", "open", "closed"}]
         /\ \A s \in Runs :
              /\ (ClosedAt(r)[s] = "none") <=> (book[s] = "none")
              /\ ClosedAt(r)[s] = "open" => book[s] = "open"
              /\ book[s] = "closed" => ClosedAt(r)[s] = "closed"
BY DEF ClosedAt

LEMMA NextBook ==
  ASSUME IInv, [Next]_vars
  PROVE  /\ book' \in [Runs -> {"none", "open", "closed"}]
         /\ BookFollowsDecisions'
         /\ OneOpenPosition'
         /\ \A r \in Runs : book[r] = "closed" => book'[r] = "closed"
<1>1. /\ book \in [Runs -> {"none", "open", "closed"}]
      /\ BookFollowsDecisions /\ OneOpenPosition
  BY DEF IInv, TypeOK
<1>2. BookStep
  BY NextColumns
<1>3. ASSUME NEW r \in Runs, book[r] # "none"
      PROVE  /\ run'[r].status = "succeeded" /\ run'[r].validation = "valid"
             /\ run'[r].proposal \in Entries /\ Source(r) = "engine"
  <2>1. /\ run[r].status = "succeeded" /\ run[r].validation = "valid"
        /\ run[r].proposal \in Entries /\ Source(r) = "engine"
    BY <1>1, <1>3 DEF BookFollowsDecisions
  <2>2. Kept(run[r], run'[r])
    BY NextRows DEF RowsStep, RowStep
  <2>3. QED
    BY <2>1, <2>2 DEF Kept, Final
<1>4. CASE UNCHANGED book
  BY <1>1, <1>3, <1>4 DEF BookFollowsDecisions, OneOpenPosition, Source
<1>5. CASE \E x \in Runs : book' = ClosedAt(x)
  <2>1. PICK x \in Runs : book' = ClosedAt(x)
    BY <1>5
  <2>2. book' \in [Runs -> {"none", "open", "closed"}]
    BY <1>1, <2>1, ClosedAtBook
  <2>3. \A s \in Runs :
          /\ book'[s] # "none" => book[s] # "none"
          /\ book'[s] = "open" => book[s] = "open"
          /\ book[s] = "closed" => book'[s] = "closed"
    BY <1>1, <2>1, ClosedAtBook
  <2>4. BookFollowsDecisions'
    BY <1>3, <2>3 DEF BookFollowsDecisions, Source
  <2>5. OneOpenPosition'
    BY <1>1, <2>3 DEF OneOpenPosition
  <2>6. QED
    BY <2>2, <2>3, <2>4, <2>5
<1>6. CASE \E x \in Runs : Opens(x)
  <2>1. PICK x \in Runs : Opens(x)
    BY <1>6
  <2>2. /\ book' \in [Runs -> {"none", "open", "closed"}] /\ book'[x] = "open"
        /\ \A s \in Runs : s # x => book'[s] = book[s]
    BY <1>1, <2>1 DEF Opens
  <2>3. BookFollowsDecisions'
    BY <1>3, <2>1, <2>2 DEF BookFollowsDecisions, Opens, Source
  <2>4. \A s \in Runs : s[1] = x[1] => book[s] # "open"
    BY <2>1 DEF Opens, Runs
  <2>5. OneOpenPosition'
    BY <1>1, <2>2, <2>4 DEF OneOpenPosition
  <2>6. book[x] # "closed"
    BY <2>1 DEF Opens
  <2>7. QED
    BY <2>2, <2>3, <2>5, <2>6
<1>7. QED
  BY <1>2, <1>4, <1>5, <1>6 DEF BookStep

-----------------------------------------------------------------------------
(* Follow-ups.                                                             *)

\* The helpers that end, retry, wake or note an attempt charge no follow-up.
LEMMA HelpersCharge ==
  ASSUME NEW row \in RunRow, NEW src, NEW st, NEW retryable
  PROVE  /\ FinishCancelled(row, src).followupsUsed = row.followupsUsed
         /\ RecordHold(row, st, src).followupsUsed = row.followupsUsed
         /\ RequeueOrFail(row, src, retryable).followupsUsed = row.followupsUsed
         /\ WakeUp(row).followupsUsed = row.followupsUsed
<1>1. /\ FinishCancelled(row, src).followupsUsed = row.followupsUsed
      /\ RecordHold(row, st, src).followupsUsed = row.followupsUsed
  BY DEF FinishCancelled, RecordHold, Recompute, RunRow
<1>2. RecordHold(row, "failed", src).followupsUsed = row.followupsUsed
  BY DEF RecordHold, Recompute, RunRow
<1>3. RequeueOrFail(row, src, retryable).followupsUsed = row.followupsUsed
  BY <1>2 DEF RequeueOrFail, RunRow
<1>4. WakeUp(row).followupsUsed = row.followupsUsed
  BY DEF WakeUp, RunRow
<1>5. QED
  BY <1>1, <1>3, <1>4

\* The row of an attempt that has just ended.
LEMMA EndedRow ==
  ASSUME NEW row \in RunRow, NEW n \in AttemptNos,
         NEW st \in {"succeeded", "waiting", "failed", "cancelled", "expired"}
  PROVE  /\ EndAttempt(row, n, st) \in RunRow
         /\ EndAttempt(row, n, st).followupsUsed = row.followupsUsed
BY DEF EndAttempt, RunRow, AttemptRow

\* A step charges run r no follow-up, or one the agent's budget still allows.
Charged(r) ==
  run'[r].followupsUsed > run[r].followupsUsed => run'[r].followupsUsed <= budget[r[1]].followups

LEMMA OneRowCharged ==
  ASSUME IInv, NEW r \in Runs, NEW new, run' = [run EXCEPT ![r] = new],
         \/ new.followupsUsed = run[r].followupsUsed
         \/ new.followupsUsed <= budget[r[1]].followups
  PROVE  \A s \in Runs : Charged(s)
<1>1. run \in [Runs -> RunRow]
  BY DEF IInv, TypeOK
<1>2. \A s \in Runs : run[s].followupsUsed \in Nat
  BY <1>1, QueueAssumption DEF RunRow
<1>3. run'[r] = new /\ \A s \in Runs : s # r => run'[s] = run[s]
  BY <1>1
<1>4. QED
  BY <1>2, <1>3 DEF Charged

LEMMA WorkerCharge ==
  ASSUME IInv, NEW r \in Runs, NEW n \in AttemptNos, WorkerCall(r, n)
  PROVE  \A s \in Runs : Charged(s)
<1>1. run[r] \in RunRow /\ Source(r) = Source(r)
  BY DEF IInv, TypeOK
<1>2. CASE AuthorizeTool(r, n) \/ SetPendingWait(r, n)
  <2>1. PICK noted : run' = [run EXCEPT ![r] = [run[r] EXCEPT !.attempts[n] = noted]]
    BY <1>2 DEF AuthorizeTool, SetPendingWait
  <2>2. [run[r] EXCEPT !.attempts[n] = noted].followupsUsed = run[r].followupsUsed
    BY <1>1 DEF RunRow
  <2>3. QED
    BY <2>1, <2>2, OneRowCharged
<1>3. ASSUME NEW new, run' = [run EXCEPT ![r] = new],
             NEW st \in {"succeeded", "failed", "cancelled"}, NEW retryable,
             \/ new = FinishCancelled(EndAttempt(run[r], n, st), Source(r))
             \/ new = RequeueOrFail(EndAttempt(run[r], n, st), Source(r), retryable)
      PROVE  \A s \in Runs : Charged(s)
  <2> DEFINE ended == EndAttempt(run[r], n, st)
  <2>1. ended \in RunRow /\ ended.followupsUsed = run[r].followupsUsed
    <3>1. run[r] \in RunRow /\ st \in {"succeeded", "waiting", "failed", "cancelled", "expired"}
      BY <1>1
    <3>2. QED
      BY <3>1, EndedRow, Zenon
  <2>2. new = FinishCancelled(ended, Source(r)) \/ new = RequeueOrFail(ended, Source(r), retryable)
    BY <1>3
  <2> HIDE DEF ended
  <2>3. new.followupsUsed = run[r].followupsUsed
    BY <2>1, <2>2, HelpersCharge
  <2>4. QED
    BY <1>3, <2>3, OneRowCharged
<1>4. ASSUME NEW p, NEW v, CompleteWaiting(r, n, p, v)
      PROVE  \A s \in Runs : Charged(s)
  <2> DEFINE new == WaitForEvent(run[r], n, p, v, Source(r))
  <2>1. run' = [run EXCEPT ![r] = new]
    BY <1>4 DEF CompleteWaiting
  <2>2. new.followupsUsed = run[r].followupsUsed + 1
    BY <1>1 DEF WaitForEvent, Recompute, EndAttempt, RunRow
  <2>3. run[r].followupsUsed < budget[r[1]].followups
    BY <1>4 DEF CompleteWaiting, TakesFollowup
  <2>4. run[r].followupsUsed \in Nat /\ budget[r[1]].followups \in Nat
    BY <1>1, QueueAssumption DEF RunRow, IInv, TypeOK, Runs
  <2>5. new.followupsUsed <= budget[r[1]].followups
    BY <2>2, <2>3, <2>4
  <2> HIDE DEF new
  <2>6. QED
    BY <2>1, <2>5, OneRowCharged
<1>5. ASSUME NEW p, NEW v, CompleteFinal(r, n, p, v)
      PROVE  \A s \in Runs : Charged(s)
  <2> DEFINE new == Succeed(run[r], n, p, v, Source(r))
  <2>1. run' = [run EXCEPT ![r] = new]
    BY <1>5 DEF CompleteFinal
  <2>2. new.followupsUsed = run[r].followupsUsed
    BY <1>1 DEF Succeed, Recompute, EndAttempt, RunRow
  <2> HIDE DEF new
  <2>3. QED
    BY <2>1, <2>2, OneRowCharged
<1>6. CASE Complete(r, n)
  BY <1>3, <1>4, <1>5, <1>6 DEF Complete, CompleteCancelled
<1>7. ASSUME NEW retryable \in BOOLEAN, Fail(r, n, retryable)
      PROVE  \A s \in Runs : Charged(s)
  BY <1>3, <1>7 DEF Fail
<1>8. CASE AckCancel(r, n)
  BY <1>3, <1>8 DEF AckCancel
<1>9. QED
  BY <1>2, <1>6, <1>7, <1>8 DEF WorkerCall

LEMMA ReapCharge ==
  ASSUME IInv, NEW dead \in SUBSET LapsedAttempts, NEW old \in SUBSET AgedRuns, Reap(dead, old),
         NEW r \in Runs
  PROVE  Charged(r)
<1>1. run[r] \in RunRow /\ run[r].followupsUsed \in Nat
  BY QueueAssumption DEF IInv, TypeOK, RunRow
<1>2. ASSUME NEW n \in AttemptNos
      PROVE  ExpireLease(run[r], n, Source(r)).followupsUsed = run[r].followupsUsed
  <2> DEFINE ended == EndAttempt(run[r], n, "expired")
  <2>1. ended \in RunRow /\ ended.followupsUsed = run[r].followupsUsed
    BY <1>1, EndedRow
  <2>2. \/ ExpireLease(run[r], n, Source(r)) = FinishCancelled(ended, Source(r))
        \/ ExpireLease(run[r], n, Source(r)) = RequeueOrFail(ended, Source(r), TRUE)
    BY DEF ExpireLease
  <2> HIDE DEF ended
  <2>3. /\ FinishCancelled(ended, Source(r)).followupsUsed = ended.followupsUsed
        /\ RequeueOrFail(ended, Source(r), TRUE).followupsUsed = ended.followupsUsed
    <3>1. \A row \in RunRow : \A src, retryable :
            /\ FinishCancelled(row, src).followupsUsed = row.followupsUsed
            /\ RequeueOrFail(row, src, retryable).followupsUsed = row.followupsUsed
      BY HelpersCharge
    <3>2. QED
      BY Zenon, <2>1, <3>1
  <2>4. QED
    BY <2>1, <2>2, <2>3
<1>3. /\ WakeUp(run[r]).followupsUsed = run[r].followupsUsed
      /\ RecordHold(run[r], "expired", Source(r)).followupsUsed = run[r].followupsUsed
  BY <1>1 DEF WakeUp, RecordHold, Recompute, RunRow
<1>4. \/ \E n \in AttemptNos : run'[r] = ExpireLease(run[r], n, Source(r))
      \/ run'[r] = WakeUp(run[r])
      \/ run'[r] = RecordHold(run[r], "expired", Source(r))
      \/ run'[r] = run[r]
  BY DEF Reap
<1>5. run'[r].followupsUsed = run[r].followupsUsed
  BY <1>2, <1>3, <1>4
<1>6. QED
  BY <1>1, <1>5 DEF Charged

LEMMA NextFollowups ==
  ASSUME IInv, [Next]_vars
  PROVE  \A r \in Runs : Charged(r)
<1>1. run \in [Runs -> RunRow] /\ \A r \in Runs : run[r] \in RunRow /\ run[r].followupsUsed \in Nat
  BY QueueAssumption DEF IInv, TypeOK, RunRow
<1>2. ASSUME UNCHANGED run
      PROVE  \A r \in Runs : Charged(r)
  BY <1>1, <1>2 DEF Charged
<1>3. ASSUME NEW k \in Keys, Ingest(k)
      PROVE  \A r \in Runs : Charged(r)
  <2>1. \A r \in Runs : run'[r] = run[r] \/ run'[r] = NewRun(r[1])
    BY <1>3 DEF Ingest
  <2>2. \A r \in Runs : NewRun(r[1]).followupsUsed = 0
    BY DEF NewRun, AbsentRun
  <2>3. QED
    BY <1>1, <2>1, <2>2 DEF Charged
<1>4. ASSUME NEW k \in Keys, NEW d \in EngineDecisions, SetLegacy(k, d)
      PROVE  \A r \in Runs : Charged(r)
  <2>1. \A r \in Runs : \/ run'[r] = run[r]
                        \/ run'[r] = Recompute([run[r] EXCEPT !.legacy = d], Source(r))
    BY <1>4 DEF SetLegacy
  <2>2. ASSUME NEW r \in Runs
        PROVE  run'[r].followupsUsed = run[r].followupsUsed
    <3>1. Recompute([run[r] EXCEPT !.legacy = d], Source(r)).followupsUsed = run[r].followupsUsed
      BY <1>1 DEF Recompute, RunRow
    <3>2. QED
      BY <2>1, <3>1
  <2>3. QED
    BY <1>1, <2>2 DEF Charged
<1>5. ASSUME NEW r \in Runs,
             Claim(r) \/ Cancel(r) \/ QueueAges(r) \/ WaitElapses(r)
             \/ \E n \in AttemptNos : LeaseLapses(r, n)
      PROVE  \A s \in Runs : Charged(s)
  <2>1. PICK new : run' = [run EXCEPT ![r] = new] /\ new.followupsUsed = run[r].followupsUsed
    <3> DEFINE Changes(new) ==
                 run' = [run EXCEPT ![r] = new] /\ new.followupsUsed = run[r].followupsUsed
    <3>1. CASE Claim(r)
      <4>1. PICK n : run' = [run EXCEPT ![r] = [run[r] EXCEPT
                       !.status = "running", !.ripeness = "none",
                       !.attemptsMade = n, !.attempts[n] = FreshAttempt]]
        BY <3>1 DEF Claim
      <4>2. Changes([run[r] EXCEPT !.status = "running", !.ripeness = "none",
                                   !.attemptsMade = n, !.attempts[n] = FreshAttempt])
        BY <1>1, <4>1 DEF RunRow
      <4>3. QED
        BY <4>2
    <3>2. CASE Cancel(r)
      <4>1. FinishCancelled(run[r], Source(r)).followupsUsed = run[r].followupsUsed
        BY <1>1, HelpersCharge
      <4>2. [run[r] EXCEPT !.cancelRequested = TRUE].followupsUsed = run[r].followupsUsed
        BY <1>1 DEF RunRow
      <4>3. Changes(FinishCancelled(run[r], Source(r)))
            \/ Changes([run[r] EXCEPT !.cancelRequested = TRUE])
        BY <3>2, <4>1, <4>2 DEF Cancel
      <4>4. QED
        BY <4>3
    <3>3. CASE QueueAges(r)
      <4>1. PICK t \in {"due", "aged"} : run' = [run EXCEPT ![r] = [run[r] EXCEPT !.ripeness = t]]
        BY <3>3 DEF QueueAges
      <4>2. Changes([run[r] EXCEPT !.ripeness = t])
        BY <1>1, <4>1 DEF RunRow
      <4>3. QED
        BY <4>2
    <3>4. CASE WaitElapses(r)
      <4>1. Changes([run[r] EXCEPT !.waitUntil = "due"])
        BY <1>1, <3>4 DEF WaitElapses, RunRow
      <4>2. QED
        BY <4>1
    <3>5. ASSUME NEW n \in AttemptNos, LeaseLapses(r, n)
          PROVE  \E new : Changes(new)
      <4>1. Changes([run[r] EXCEPT !.attempts[n].lease = "lapsed"])
        BY <1>1, <3>5 DEF LeaseLapses, RunRow
      <4>2. QED
        BY <4>1
    <3>6. QED
      BY <1>5, <3>1, <3>2, <3>3, <3>4, <3>5
  <2>2. QED
    BY <2>1, OneRowCharged
<1>6. ASSUME NEW a \in Agents, NEW on \in BOOLEAN,
             \/ SetEnabled(a, on)
             \/ \E m \in Markets, b \in Budgets : UpsertAgent(a, on, m, b)
      PROVE  UNCHANGED run
  BY <1>6 DEF SetEnabled, UpsertAgent
<1>7. ASSUME NEW r \in Runs, ClosePosition(r)
      PROVE  UNCHANGED run
  BY <1>7 DEF ClosePosition
<1>8. CASE UNCHANGED vars
  BY <1>2, <1>8 DEF vars
<1>9. QED
  BY <1>2, <1>3, <1>4, <1>5, <1>6, <1>7, <1>8, WorkerCharge, ReapCharge DEF Next

-----------------------------------------------------------------------------
(* The theorems.                                                           *)

LEMMA InitIInv == Init => IInv
<1> SUFFICES ASSUME Init
             PROVE  IInv
  OBVIOUS
<1>1. \A r \in Runs : RowOK(run[r], Source(r)) /\ run[r].status = "absent"
  <2>1. ASSUME NEW r \in Runs
        PROVE  RowOK(run[r], Source(r)) /\ run[r].status = "absent"
    <3>1. run[r] = AbsentRun /\ r[1] \in Agents /\ budget[r[1]] \in Budgets
      BY DEF Init, Runs
    <3>2. AbsentRun.status = "absent"
      BY DEF AbsentRun
    <3>3. QED
      BY <3>1, <3>2, AbsentStep
  <2>2. QED
    BY <2>1
<1>2. TypeOK
  BY <1>1 DEF Init, TypeOK, RowOK, RowInv
<1>3. QED
  BY <1>1, <1>2 DEF Init, IInv, RunsHaveSnapshots, BookFollowsDecisions, OneOpenPosition

LEMMA NextIInv == IInv /\ [Next]_vars => IInv'
<1> SUFFICES ASSUME IInv, [Next]_vars
             PROVE  IInv'
  OBVIOUS
<1>1. RowsStep /\ ColumnsStep
  BY NextRows, NextColumns
<1>2. TypeOK'
  BY <1>1, NextBook DEF TypeOK, RowsStep, ColumnsStep
<1>3. (\A r \in Runs : RowOK(run[r], Source(r)))'
  BY <1>1 DEF RowsStep, RowStep, RowOK, RowInv, Source
<1>4. RunsHaveSnapshots'
  BY <1>1 DEF RowsStep, ColumnsStep, IInv, RunsHaveSnapshots
<1>5. QED
  BY <1>2, <1>3, <1>4, NextBook DEF IInv

\* Type correctness: whatever calls arrive, every row the transactions of the
\* queue write has the columns its table declares, and attempt numbers and
\* follow-ups stay in the ranges Budgets.Check allows.
THEOREM TypeCorrect == Spec => []TypeOK
<1>1. IInv => TypeOK
  BY DEF IInv
<1>2. QED
  BY <1>1, InitIInv, NextIInv, PTL DEF Spec

\* Two workers never hold one run: Claim, Complete, Fail, AckCancel and Reap keep
\* the rows of attempts in step with the row of their run.
THEOREM OneWorker == Spec => []OneWorkerPerRun
<1>1. IInv => OneWorkerPerRun
  BY DEF IInv, OneWorkerPerRun, RowOK, RowInv
<1>2. QED
  BY <1>1, InitIInv, NextIInv, PTL DEF Spec

\* requeueOrFail retries only within the max_attempts stored with the run, and
\* each follow-up is charged once, to an attempt that ended in a wait.
THEOREM BudgetsKept == Spec => []BudgetsHold
<1>1. IInv => BudgetsHold
  BY DEF IInv, BudgetsHold, RowOK, RowInv
<1>2. QED
  BY <1>1, InitIInv, NextIInv, PTL DEF Spec

\* wait_until and run_after are set and cleared together with the status, so no
\* run waits for ever without a timer and no timer wakes a finished run.
THEOREM TimersKept == Spec => []TimersAgree
<1>1. IInv => TimersAgree
  BY DEF IInv, TimersAgree, RowOK, RowInv
<1>2. QED
  BY <1>1, InitIInv, NextIInv, PTL DEF Spec

\* After a cancel request, Complete, Fail and Reap all end the run as cancelled.
THEOREM CancelKept == Spec => []CancelIsHonoured
<1>1. IInv => CancelIsHonoured
  BY DEF IInv, CancelIsHonoured, RowOK, RowInv
<1>2. QED
  BY <1>1, InitIInv, NextIInv, PTL DEF Spec

\* Failure, exhausted attempts and queue expiry record a hold.
THEOREM HoldRecorded == Spec => []OutcomesRecorded
<1>1. IInv => OutcomesRecorded
  BY DEF IInv, OutcomesRecorded, RowOK, RowInv
<1>2. QED
  BY <1>1, InitIInv, NextIInv, PTL DEF Spec

\* The comparison with the engine is derived anew wherever one of its inputs is
\* written, in whatever order they are written.
THEOREM ComparisonDerived == Spec => []ComparisonCurrent
<1>1. IInv => ComparisonCurrent
  BY DEF IInv, ComparisonCurrent, RowOK
<1>2. QED
  BY <1>1, InitIInv, NextIInv, PTL DEF Spec

\* The shadow book holds only positions of final, valid entries of engine runs.
THEOREM BookDecided == Spec => []BookFollowsDecisions
<1>1. IInv => BookFollowsDecisions
  BY DEF IInv, BookFollowsDecisions
<1>2. QED
  BY <1>1, InitIInv, NextIInv, PTL DEF Spec

\* The index on open positions and openPositionTx together allow an agent one.
THEOREM OnePosition == Spec => []OneOpenPosition
<1>1. IInv => OneOpenPosition
  BY DEF IInv, OneOpenPosition
<1>2. QED
  BY <1>1, InitIInv, NextIInv, PTL DEF Spec

LEMMA StepIsKept ==
  ASSUME IInv, [Next]_vars, NEW r \in Runs
  PROVE  Kept(run[r], run'[r])
BY NextRows DEF RowsStep, RowStep

\* No transaction of the queue changes the status, the proposal or the verdict of
\* a finished run: a late completion, the reaper and a second cancel are refused.
THEOREM OutcomeStays == Spec => FinalStays
<1>1. ASSUME IInv, [Next]_vars, NEW r \in Runs, run[r].status \in Final
      PROVE  /\ run'[r].status = run[r].status
             /\ run'[r].proposal = run[r].proposal
             /\ run'[r].validation = run[r].validation
  BY <1>1, StepIsKept DEF Kept
<1>2. IInv /\ [Next]_vars =>
        \A r \in Runs : run[r].status \in Final =>
          /\ run'[r].status = run[r].status
          /\ run'[r].proposal = run[r].proposal
          /\ run'[r].validation = run[r].validation
  BY <1>1
<1>3. QED
  BY <1>2, InitIInv, NextIInv, PTL DEF Spec, FinalStays

\* An attempt ends once: after its end, no call and no reaper pass writes its row.
THEOREM AttemptsEndOnce == Spec => AttemptsStayEnded
<1>1. IInv /\ [Next]_vars =>
        \A r \in Runs : \A n \in AttemptNos :
          run[r].attempts[n].status \notin {"none", "running"} =>
            run'[r].attempts[n] = run[r].attempts[n]
  BY StepIsKept DEF Kept
<1>2. QED
  BY <1>1, InitIInv, NextIInv, PTL DEF Spec, AttemptsStayEnded

\* Complete takes a follow-up only within the agent's budget at that moment.
THEOREM FollowupsKept == Spec => FollowupsWithinBudget
<1>1. IInv /\ [Next]_vars =>
        \A r \in Runs : run'[r].followupsUsed > run[r].followupsUsed =>
          run'[r].followupsUsed <= budget[r[1]].followups
  BY NextFollowups DEF Charged
<1>2. QED
  BY <1>1, InitIInv, NextIInv, PTL DEF Spec, FollowupsWithinBudget

\* Only the ingest that stores a snapshot adds runs for it.
THEOREM NoRunsAfterIngest == Spec => NoLateRuns
<1>1. IInv /\ [Next]_vars =>
        \A r \in Runs : r[2] \in snapshots /\ run[r].status = "absent" =>
          run'[r].status = "absent"
  BY NextRows DEF RowsStep
<1>2. QED
  BY <1>1, InitIInv, NextIInv, PTL DEF Spec, NoLateRuns

\* A closed position stays closed, whatever a wake that is still running decides.
THEOREM PositionsCloseOnce == Spec => ClosedStaysClosed
<1>1. IInv /\ [Next]_vars => \A r \in Runs : book[r] = "closed" => book'[r] = "closed"
  BY NextBook
<1>2. QED
  BY <1>1, InitIInv, NextIInv, PTL DEF Spec, ClosedStaysClosed
=============================================================================
