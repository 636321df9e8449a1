------------------------------ MODULE RunQueue ------------------------------
(***************************************************************************)
(* The run queue of the control plane (platform/internal/queue): frozen    *)
(* snapshots are ingested and enqueue runs, workers lease attempts at      *)
(* those runs, and every call a worker or an operator makes is one         *)
(* PostgreSQL transaction that locks the attempt and its run.  One         *)
(* transaction is one action here.                                         *)
(*                                                                         *)
(* Time is kept as what a comparison with now() would say: whether a       *)
(* lease, a wait or a place in the queue is still running or has run out.  *)
(* Steps of the environment move those answers forward, so every           *)
(* interleaving of calls and deadlines is possible.                        *)
(*                                                                         *)
(* A worker's call names an attempt and may arrive at any time after the   *)
(* claim: that covers calls that are delayed, repeated, or sent by a       *)
(* worker that was given up for dead.  Calls that change nothing (a stale  *)
(* call, the second delivery of a completion, a replayed idempotency key,  *)
(* a heartbeat on a live lease) are stuttering steps.                      *)
(***************************************************************************)
EXTENDS Integers, FiniteSets

CONSTANTS
  Agents,        \* agent ids
  Keys,          \* idempotency keys; a key stands for the one snapshot stored under it
  Markets,       \* instrument and granularity pairs
  NoAgent,       \* an ingest that names no agent
  SourceOf,      \* who ingests the key: the engine, an operator, a demo or the monitor
  MarketOf,      \* the market of the key's snapshot
  TargetOf,      \* the agent the ingest names, or NoAgent
  WokenFor,      \* for a monitor key, the run that opened the position it is about
  Budgets,       \* the budgets an operator gives to an agent; tools is 0 when its allowlist is empty
  AttemptLimit, FollowupLimit, ToolLimit,   \* the upper bounds of Budgets.Check
  Entries,       \* proposals that open a position
  Adjustments,   \* proposals that only a wake may make and that leave the position open
  EngineDecisions  \* the decisions the engine delivers for comparison

WakeKeys == {k \in Keys : SourceOf[k] = "monitor"}

\* runs has UNIQUE (agent_id, snapshot_id): the pair names the run.
Runs == Agents \X Keys

AttemptNos == 1..(AttemptLimit + FollowupLimit)

ASSUME QueueAssumption ==
  /\ NoAgent \notin Agents
  /\ SourceOf \in [Keys -> {"engine", "operator", "demo", "monitor"}]
  /\ MarketOf \in [Keys -> Markets]
  /\ TargetOf \in [Keys -> Agents \cup {NoAgent}]
  /\ WokenFor \in [WakeKeys -> Runs]
  /\ \A k \in WakeKeys : TargetOf[k] = WokenFor[k][1]
  /\ AttemptLimit \in Nat \ {0}
  /\ FollowupLimit \in Nat \ {0}
  /\ ToolLimit \in Nat \ {0}
  /\ Budgets \subseteq [attempts : 1..AttemptLimit, followups : 1..FollowupLimit, tools : 0..ToolLimit]
  /\ Budgets # {}
  /\ {"none", "hold", "close"} \cap (Entries \cup Adjustments) = {}
  /\ Entries \cap Adjustments = {}
  /\ EngineDecisions \subseteq {"hold", "close"} \cup Entries

VARIABLES
  enabled,    \* agents.enabled
  market,     \* agents.instrument and agents.granularity
  budget,     \* agents.budgets
  snapshots,  \* the keys stored in snapshots
  run,        \* the rows of runs, each with its rows of attempts
  book        \* the status of the shadow_positions row of each run, or "none"

vars == <<enabled, market, budget, snapshots, run, book>>

-----------------------------------------------------------------------------
(* The rows.                                                               *)

Proposals == {"hold", "close"} \cup Entries \cup Adjustments
Final == {"succeeded", "failed", "cancelled", "expired"}
Pending == {"queued", "running", "waiting_for_event"}

AttemptRow ==
  [status : {"none", "running", "succeeded", "waiting", "failed", "cancelled", "expired"},
   lease : {"live", "lapsed"}, pendingWait : BOOLEAN, toolCalls : 0..ToolLimit]

\* ripeness is run_after against the clock while the run is queued; past the
\* agent's queue deadline the run is "aged".
RunRow ==
  [status : Final \cup Pending \cup {"absent"},
   attemptsMade : 0..(AttemptLimit + FollowupLimit), maxAttempts : 0..AttemptLimit,
   followupsUsed : 0..FollowupLimit, cancelRequested : BOOLEAN,
   ripeness : {"none", "backoff", "due", "aged"}, waitUntil : {"null", "later", "due"},
   proposal : Proposals \cup {"none"}, validation : {"none", "valid", "rejected"},
   legacy : EngineDecisions \cup {"none"},
   comparison : {"pending", "agree", "differ", "no_legacy"},
   attempts : [AttemptNos -> AttemptRow]]

NoAttempt == [status |-> "none", lease |-> "live", pendingWait |-> FALSE, toolCalls |-> 0]
FreshAttempt == [NoAttempt EXCEPT !.status = "running"]

AbsentRun ==
  [status |-> "absent", attemptsMade |-> 0, maxAttempts |-> 0, followupsUsed |-> 0,
   cancelRequested |-> FALSE, ripeness |-> "none", waitUntil |-> "null",
   proposal |-> "none", validation |-> "none", legacy |-> "none",
   comparison |-> "pending", attempts |-> [n \in AttemptNos |-> NoAttempt]]

NewRun(a) ==
  [AbsentRun EXCEPT !.status = "queued", !.maxAttempts = budget[a].attempts, !.ripeness = "due"]

\* A rejected proposal never stands: its effective outcome is a hold.
Effective(row) == IF row.validation = "rejected" THEN "hold" ELSE row.proposal

Compare(row, src) ==
  IF row.proposal # "none" /\ row.legacy # "none"
  THEN IF Effective(row) = row.legacy THEN "agree" ELSE "differ"
  ELSE IF row.proposal # "none" /\ src # "engine" THEN "no_legacy" ELSE "pending"

Recompute(row, src) == [row EXCEPT !.comparison = Compare(row, src)]

EndAttempt(row, n, st) == [row EXCEPT !.attempts[n].status = st]

FinishCancelled(row, src) ==
  Recompute([row EXCEPT !.status = "cancelled", !.waitUntil = "null", !.ripeness = "none"], src)

\* Fault: the interim proposal of an earlier attempt is left standing.
RecordHoldKeepsInterim(row, st, src) ==
  Recompute([row EXCEPT !.status = st, !.ripeness = "none", !.validation = "valid"], src)

\* Fault: the comparison is not derived again.
RecordHoldOldComparison(row, st, src) ==
  [row EXCEPT !.status = st, !.ripeness = "none", !.proposal = "hold", !.validation = "valid"]

\* The terminal outcome of a run nobody decided is a recorded hold.
RecordHold(row, st, src) ==
  Recompute([row EXCEPT !.status = st, !.ripeness = "none",
                        !.proposal = "hold", !.validation = "valid"], src)

\* Fault: one retry too many.
RequeueOrFailOneMore(row, src, retryable) ==
  IF retryable /\ row.attemptsMade - row.followupsUsed <= row.maxAttempts
  THEN [row EXCEPT !.status = "queued", !.ripeness = "backoff"]
  ELSE RecordHold(row, "failed", src)

\* Follow-up wakes are not retries, so they do not count against maxAttempts.
RequeueOrFail(row, src, retryable) ==
  IF retryable /\ row.attemptsMade - row.followupsUsed < row.maxAttempts
  THEN [row EXCEPT !.status = "queued", !.ripeness = "backoff"]
  ELSE RecordHold(row, "failed", src)

\* Fault: the follow-up is not charged.
WaitForEventUncharged(row, n, p, v, src) ==
  Recompute([EndAttempt(row, n, "waiting") EXCEPT
               !.status = "waiting_for_event", !.waitUntil = "later",
               !.proposal = p, !.validation = v], src)

\* An interim proposal: the run waits, releases the worker and resumes later.
WaitForEvent(row, n, p, v, src) ==
  Recompute([EndAttempt(row, n, "waiting") EXCEPT
               !.status = "waiting_for_event", !.followupsUsed = row.followupsUsed + 1,
               !.waitUntil = "later", !.proposal = p, !.validation = v], src)

\* The final proposal of a run.
Succeed(row, n, p, v, src) ==
  Recompute([EndAttempt(row, n, "succeeded") EXCEPT
               !.status = "succeeded", !.waitUntil = "null",
               !.proposal = p, !.validation = v], src)

Source(r) == SourceOf[r[2]]

\* Fault: the lease alone decides, so a late call of an ended attempt passes.
CurrentByLease(r, n) == run[r].attempts[n].status # "none" /\ run[r].attempts[n].lease = "live"

\* lockAttempt and current: only the running attempt with a live lease may act.
Current(r, n) == run[r].attempts[n].status = "running" /\ run[r].attempts[n].lease = "live"

-----------------------------------------------------------------------------
(* Agents.                                                                 *)

UpsertAgent(a, on, m, b) ==
  /\ enabled' = [enabled EXCEPT ![a] = on]
  /\ market' = [market EXCEPT ![a] = m]
  /\ budget' = [budget EXCEPT ![a] = b]
  /\ UNCHANGED <<snapshots, run, book>>

SetEnabled(a, on) ==
  /\ enabled' = [enabled EXCEPT ![a] = on]
  /\ UNCHANGED <<market, budget, snapshots, run, book>>

-----------------------------------------------------------------------------
(* Ingest stores the snapshot and enqueues one run for each matching       *)
(* agent, in one transaction.  A key that is already stored enqueues       *)
(* nothing.                                                                *)

Targeted(a, k) ==
  /\ TargetOf[k] \in {NoAgent, a}
  /\ enabled[a] \/ TargetOf[k] = a
  /\ market[a] = MarketOf[k]

\* The monitor wakes an agent about a position it read as open; the position
\* may have been closed since.
MayIngest(k) == k \in WakeKeys => book[WokenFor[k]] # "none"

\* Fault: a replayed key enqueues for the agents that match by now.
IngestReplays(k) ==
  /\ MayIngest(k)
  /\ snapshots' = snapshots \cup {k}
  /\ run' = [r \in Runs |-> IF r[2] = k /\ Targeted(r[1], k) /\ run[r].status = "absent"
                            THEN NewRun(r[1]) ELSE run[r]]
  /\ UNCHANGED <<enabled, market, budget, book>>

Ingest(k) ==
  /\ k \notin snapshots
  /\ MayIngest(k)
  /\ snapshots' = snapshots \cup {k}
  /\ run' = [r \in Runs |-> IF r[2] = k /\ Targeted(r[1], k) THEN NewRun(r[1]) ELSE run[r]]
  /\ UNCHANGED <<enabled, market, budget, book>>

\* SetLegacy records the engine's own decision on every run of the snapshot.
SetLegacy(k, d) ==
  /\ k \in snapshots
  /\ run' = [r \in Runs |-> IF r[2] = k /\ run[r].status # "absent"
                            THEN Recompute([run[r] EXCEPT !.legacy = d], Source(r))
                            ELSE run[r]]
  /\ UNCHANGED <<enabled, market, budget, snapshots, book>>

-----------------------------------------------------------------------------
(* Workers.                                                                *)

\* SKIP LOCKED may pass over the oldest runnable run while another
\* transaction holds it, so any runnable run may be the one leased.  An
\* operator triggers a run on live or on demo data also for an agent that is
\* switched off.
Claim(r) ==
  /\ run[r].status = "queued"
  /\ run[r].ripeness \in {"due", "aged"}
  /\ enabled[r[1]] \/ Source(r) \in {"operator", "demo"}
  /\ LET n == run[r].attemptsMade + 1
     IN run' = [run EXCEPT ![r] = [@ EXCEPT !.status = "running", !.ripeness = "none",
                                            !.attemptsMade = n, !.attempts[n] = FreshAttempt]]
  /\ UNCHANGED <<enabled, market, budget, snapshots, book>>

AuthorizeTool(r, n) ==
  /\ Current(r, n)
  /\ ~run[r].cancelRequested
  /\ run[r].attempts[n].toolCalls < budget[r[1]].tools
  /\ run' = [run EXCEPT ![r].attempts[n].toolCalls = @ + 1]
  /\ UNCHANGED <<enabled, market, budget, snapshots, book>>

SetPendingWait(r, n) ==
  /\ Current(r, n)
  /\ run[r].followupsUsed < budget[r[1]].followups
  /\ run' = [run EXCEPT ![r].attempts[n].pendingWait = TRUE]
  /\ UNCHANGED <<enabled, market, budget, snapshots, book>>

\* A wake may not open a position, and only a wake may adjust one.
Verdicts(r, p) ==
  IF p \in (IF Source(r) = "monitor" THEN Entries ELSE Adjustments)
  THEN {"rejected"} ELSE {"valid", "rejected"}

\* Fault: only run_id is unique.
OpenPositionPerRun(r) == IF book[r] # "none" THEN book ELSE [book EXCEPT ![r] = "open"]

\* The partial unique index allows one open position per agent, and run_id is
\* unique: an entry beyond either is ignored.
OpenPosition(r) ==
  IF book[r] # "none" \/ \E k \in Keys : book[<<r[1], k>>] = "open"
  THEN book ELSE [book EXCEPT ![r] = "open"]

ClosedAt(r) == [book EXCEPT ![r] = IF @ = "open" THEN "closed" ELSE @]

\* Fault: an adjustment writes the position back as it was when it was read.
BookAfterWritesBack(r, p, v) ==
  IF v = "valid" /\ Source(r) = "monitor"
  THEN IF p = "close" THEN ClosedAt(WokenFor[r[2]])
       ELSE IF p \in Adjustments THEN [book EXCEPT ![WokenFor[r[2]]] = "open"] ELSE book
  ELSE IF v = "valid" /\ Source(r) = "engine" /\ p \in Entries THEN OpenPosition(r)
  ELSE book

\* A final, valid result moves the shadow book.
BookAfter(r, p, v) ==
  IF v = "valid" /\ Source(r) = "monitor" /\ p = "close" THEN ClosedAt(WokenFor[r[2]])
  ELSE IF v = "valid" /\ Source(r) = "engine" /\ p \in Entries THEN OpenPosition(r)
  ELSE book

CompleteCancelled(r, n) ==
  /\ Current(r, n)
  /\ run[r].cancelRequested
  /\ run' = [run EXCEPT ![r] = FinishCancelled(EndAttempt(run[r], n, "cancelled"), Source(r))]
  /\ UNCHANGED <<enabled, market, budget, snapshots, book>>

\* Fault: a wait that was accepted is taken without looking at the budget again.
TakesFollowupAsAsked(r, n) == run[r].attempts[n].pendingWait

TakesFollowup(r, n) ==
  run[r].attempts[n].pendingWait /\ run[r].followupsUsed < budget[r[1]].followups

\* Fault: an interim entry is already traded.
CompleteWaitingTrades(r, n, p, v) ==
  /\ Current(r, n)
  /\ ~run[r].cancelRequested
  /\ TakesFollowup(r, n)
  /\ run' = [run EXCEPT ![r] = WaitForEvent(run[r], n, p, v, Source(r))]
  /\ book' = BookAfter(r, p, v)
  /\ UNCHANGED <<enabled, market, budget, snapshots>>

CompleteWaiting(r, n, p, v) ==
  /\ Current(r, n)
  /\ ~run[r].cancelRequested
  /\ TakesFollowup(r, n)
  /\ run' = [run EXCEPT ![r] = WaitForEvent(run[r], n, p, v, Source(r))]
  /\ UNCHANGED <<enabled, market, budget, snapshots, book>>

CompleteFinal(r, n, p, v) ==
  /\ Current(r, n)
  /\ ~run[r].cancelRequested
  /\ ~TakesFollowup(r, n)
  /\ run' = [run EXCEPT ![r] = Succeed(run[r], n, p, v, Source(r))]
  /\ book' = BookAfter(r, p, v)
  /\ UNCHANGED <<enabled, market, budget, snapshots>>

Complete(r, n) ==
  \/ CompleteCancelled(r, n)
  \/ \E p \in Proposals : \E v \in Verdicts(r, p) :
       CompleteWaiting(r, n, p, v) \/ CompleteFinal(r, n, p, v)

\* Fault: a failure requeues without looking at the cancel request.
FailForgetsCancel(r, n, retryable) ==
  /\ Current(r, n)
  /\ run' = [run EXCEPT ![r] = RequeueOrFail(EndAttempt(run[r], n, "failed"), Source(r), retryable)]
  /\ UNCHANGED <<enabled, market, budget, snapshots, book>>

Fail(r, n, retryable) ==
  /\ Current(r, n)
  /\ LET ended == EndAttempt(run[r], n, "failed")
     IN run' = [run EXCEPT ![r] = IF ended.cancelRequested
                                  THEN FinishCancelled(ended, Source(r))
                                  ELSE RequeueOrFail(ended, Source(r), retryable)]
  /\ UNCHANGED <<enabled, market, budget, snapshots, book>>

\* The acknowledgement checks neither the lease nor cancel_requested.
AckCancel(r, n) ==
  /\ run[r].attempts[n].status = "running"
  /\ run' = [run EXCEPT ![r] = FinishCancelled(EndAttempt(run[r], n, "cancelled"), Source(r))]
  /\ UNCHANGED <<enabled, market, budget, snapshots, book>>

-----------------------------------------------------------------------------
(* The operator, the reaper and the monitor.                               *)

\* Fault: a finished run is cancelled too.
CancelFinished(r) ==
  /\ \/ /\ run[r].status \notin {"absent", "running"}
        /\ run' = [run EXCEPT ![r] = FinishCancelled(run[r], Source(r))]
     \/ /\ run[r].status = "running"
        /\ run' = [run EXCEPT ![r].cancelRequested = TRUE]
  /\ UNCHANGED <<enabled, market, budget, snapshots, book>>

Cancel(r) ==
  /\ \/ /\ run[r].status \in {"queued", "waiting_for_event"}
        /\ run' = [run EXCEPT ![r] = FinishCancelled(run[r], Source(r))]
     \/ /\ run[r].status = "running"
        /\ run' = [run EXCEPT ![r].cancelRequested = TRUE]
  /\ UNCHANGED <<enabled, market, budget, snapshots, book>>

LapsedAttempts ==
  {x \in Runs \X AttemptNos : /\ run[x[1]].attempts[x[2]].status = "running"
                              /\ run[x[1]].attempts[x[2]].lease = "lapsed"}
DueWaits == {r \in Runs : run[r].status = "waiting_for_event" /\ run[r].waitUntil = "due"}
\* Fault: only the runs of enabled agents expire in the queue.
AgedRunsOfEnabled ==
  {r \in Runs : run[r].status = "queued" /\ run[r].ripeness = "aged" /\ enabled[r[1]]}

AgedRuns == {r \in Runs : run[r].status = "queued" /\ run[r].ripeness = "aged"}

\* Fault: the attempt that lost its lease is not ended.
ExpireLeaseLeavesAttempt(row, n, src) ==
  IF row.cancelRequested THEN FinishCancelled(row, src) ELSE RequeueOrFail(row, src, TRUE)

ExpireLease(row, n, src) ==
  LET ended == EndAttempt(row, n, "expired")
  IN IF ended.cancelRequested THEN FinishCancelled(ended, src)
     ELSE RequeueOrFail(ended, src, TRUE)

WakeUp(row) == [row EXCEPT !.status = "queued", !.ripeness = "due", !.waitUntil = "null"]

\* One transaction in three passes over disjoint rows.  SKIP LOCKED may pass
\* over rows another transaction holds, so the first and third pass take any
\* part of their rows; the second waits for its locks and takes them all.
Reap(dead, old) ==
  /\ dead \subseteq LapsedAttempts
  /\ old \subseteq AgedRuns
  /\ run' = [r \in Runs |->
               IF \E n \in AttemptNos : <<r, n>> \in dead
               THEN ExpireLease(run[r], CHOOSE n \in AttemptNos : <<r, n>> \in dead, Source(r))
               ELSE IF r \in DueWaits THEN WakeUp(run[r])
               ELSE IF r \in old THEN RecordHold(run[r], "expired", Source(r))
               ELSE run[r]]
  /\ UNCHANGED <<enabled, market, budget, snapshots, book>>

\* The monitor's exit rules close the position of run r.
ClosePosition(r) ==
  /\ book[r] = "open"
  /\ book' = ClosedAt(r)
  /\ UNCHANGED <<enabled, market, budget, snapshots, run>>

-----------------------------------------------------------------------------
(* The clock.                                                              *)

LeaseLapses(r, n) ==
  /\ Current(r, n)
  /\ run' = [run EXCEPT ![r].attempts[n].lease = "lapsed"]
  /\ UNCHANGED <<enabled, market, budget, snapshots, book>>

QueueAges(r) ==
  /\ \/ run[r].ripeness = "backoff" /\ run' = [run EXCEPT ![r].ripeness = "due"]
     \/ run[r].ripeness = "due" /\ run' = [run EXCEPT ![r].ripeness = "aged"]
  /\ UNCHANGED <<enabled, market, budget, snapshots, book>>

WaitElapses(r) ==
  /\ run[r].waitUntil = "later"
  /\ run' = [run EXCEPT ![r].waitUntil = "due"]
  /\ UNCHANGED <<enabled, market, budget, snapshots, book>>

-----------------------------------------------------------------------------
Init ==
  /\ enabled \in [Agents -> BOOLEAN]
  /\ market \in [Agents -> Markets]
  /\ budget \in [Agents -> Budgets]
  /\ snapshots = {}
  /\ run = [r \in Runs |-> AbsentRun]
  /\ book = [r \in Runs |-> "none"]

WorkerCall(r, n) ==
  \/ AuthorizeTool(r, n)
  \/ SetPendingWait(r, n)
  \/ Complete(r, n)
  \/ \E retryable \in BOOLEAN : Fail(r, n, retryable)
  \/ AckCancel(r, n)

Next ==
  \/ \E a \in Agents, on \in BOOLEAN :
       \/ SetEnabled(a, on)
       \/ \E m \in Markets, b \in Budgets : UpsertAgent(a, on, m, b)
  \/ \E k \in Keys : Ingest(k) \/ \E d \in EngineDecisions : SetLegacy(k, d)
  \/ \E r \in Runs :
       \/ Claim(r)
       \/ Cancel(r)
       \/ ClosePosition(r)
       \/ QueueAges(r)
       \/ WaitElapses(r)
       \/ \E n \in AttemptNos : WorkerCall(r, n) \/ LeaseLapses(r, n)
  \/ \E dead \in SUBSET LapsedAttempts, old \in SUBSET AgedRuns : Reap(dead, old)

Spec == Init /\ [][Next]_vars

\* The reaper runs every three seconds for as long as the API process lives,
\* and row locks are short, so a full pass comes round.  Time passes.  A lease
\* lapses in the end because a worker stops its heartbeat with the attempt's
\* run timeout, whatever became of its last call.
Fairness ==
  /\ WF_vars(Reap(LapsedAttempts, AgedRuns))
  /\ \A r \in Runs :
       /\ WF_vars(QueueAges(r))
       /\ WF_vars(WaitElapses(r))
       /\ \A n \in AttemptNos : WF_vars(LeaseLapses(r, n))

FairSpec == Spec /\ Fairness

-----------------------------------------------------------------------------
(* What must hold of one run, whatever workers, operators and clocks do.   *)

\* The rows of attempts agree with the row of their run: attempt numbers have
\* no gap, and an attempt runs exactly when it is the newest attempt of a
\* running run.  Two workers can therefore never hold one run.
OneAttemptRuns(row) ==
  \A n \in AttemptNos :
    /\ (row.attempts[n].status # "none") <=> (n <= row.attemptsMade)
    /\ (row.attempts[n].status = "running") <=> (row.status = "running" /\ n = row.attemptsMade)

\* The retry budget: attempts that are not resumptions after a follow-up stay
\* within maxAttempts, and a run that may still be claimed has one left.  While
\* it runs at least one attempt counts, so the backoff doubles from the first.
RetriesBounded(row) ==
  /\ row.followupsUsed <= row.attemptsMade
  /\ row.status = "running" => row.followupsUsed < row.attemptsMade
  /\ row.attemptsMade - row.followupsUsed <= row.maxAttempts
  /\ row.status \in {"queued", "waiting_for_event"} =>
       row.attemptsMade - row.followupsUsed < row.maxAttempts

\* Every follow-up that was charged is an attempt that ended in a wait.
FollowupsCharged(row) ==
  row.followupsUsed = Cardinality({n \in AttemptNos : row.attempts[n].status = "waiting"})

\* A wait timer exists exactly while the run waits: nothing wakes a run that
\* was cancelled, and no run waits without a timer.
WaitHasTimer(row) == (row.waitUntil # "null") <=> (row.status = "waiting_for_event")

\* A run is in the queue exactly when its run_after is being counted.
QueueHasClock(row) == (row.ripeness # "none") <=> (row.status = "queued")

\* Once an operator asked to cancel a running run, no retry, completion or
\* expiry may turn it into anything but a cancelled run.
CancelHonoured(row) == row.cancelRequested => row.status \in {"running", "cancelled"}

\* A run that failed or expired ends in a recorded hold, never in the interim
\* proposal of an earlier attempt, and a run that succeeded has its proposal.
OutcomeRecorded(row) ==
  /\ row.status \in {"failed", "expired"} => row.proposal = "hold" /\ row.validation = "valid"
  /\ row.status = "succeeded" => row.proposal # "none" /\ row.validation # "none"

-----------------------------------------------------------------------------
(* The invariants.                                                         *)

\* Every column stays within its type.
TypeOK ==
  /\ enabled \in [Agents -> BOOLEAN]
  /\ market \in [Agents -> Markets]
  /\ budget \in [Agents -> Budgets]
  /\ snapshots \subseteq Keys
  /\ run \in [Runs -> RunRow]
  /\ book \in [Runs -> {"none", "open", "closed"}]

\* At most one attempt runs for a run, and exactly one while it is running.
OneWorkerPerRun == \A r \in Runs : OneAttemptRuns(run[r])

\* Attempts that are not resumptions stay within the max_attempts the run was
\* created with, also when leases are lost between follow-ups, and follow-ups are
\* charged once each, to attempts that ended in a wait.
BudgetsHold == \A r \in Runs : RetriesBounded(run[r]) /\ FollowupsCharged(run[r])

\* Timers and statuses agree, so the reaper and the claimers never see a run
\* in two places.
TimersAgree == \A r \in Runs : WaitHasTimer(run[r]) /\ QueueHasClock(run[r])

\* A cancelled run can neither be retried nor completed.
CancelIsHonoured == \A r \in Runs : CancelHonoured(run[r])

\* Failure, exhausted attempts and expiry all end in a recorded hold.
OutcomesRecorded == \A r \in Runs : OutcomeRecorded(run[r])

\* The stored comparison is always the one its inputs give now, in whatever
\* order the proposal, the verdict and the engine's decision arrived.
ComparisonCurrent == \A r \in Runs : run[r].comparison = Compare(run[r], Source(r))

\* Only the final, valid entry of an engine run ever puts a position in the
\* shadow book: not an interim proposal, not one that was retried, rejected
\* or cancelled.
BookFollowsDecisions ==
  \A r \in Runs : book[r] # "none" =>
    /\ run[r].status = "succeeded"
    /\ run[r].validation = "valid"
    /\ run[r].proposal \in Entries
    /\ Source(r) = "engine"

\* An agent holds at most one open position, however its runs interleave.
OneOpenPosition ==
  \A r, s \in Runs : r[1] = s[1] /\ book[r] = "open" /\ book[s] = "open" => r = s

-----------------------------------------------------------------------------
(* What no step may do.                                                    *)

\* A finished run keeps its outcome: a late completion, a reaper pass, a
\* cancel or a retry changes neither its status nor what it decided.
FinalStays ==
  [][\A r \in Runs : run[r].status \in Final =>
       /\ run'[r].status = run[r].status
       /\ run'[r].proposal = run[r].proposal
       /\ run'[r].validation = run[r].validation]_vars

\* An attempt that ended, by its worker or by the reaper, never comes back and
\* never ends a second time: its late calls are refused.
AttemptsStayEnded ==
  [][\A r \in Runs : \A n \in AttemptNos :
       run[r].attempts[n].status \notin {"none", "running"} =>
         run'[r].attempts[n] = run[r].attempts[n]]_vars

\* A follow-up is charged only while the agent's budget of this moment still
\* allows one more: the worker asks for the wait and completes in two calls, and
\* the agent may be posted again with a smaller budget in between.
FollowupsWithinBudget ==
  [][\A r \in Runs : run'[r].followupsUsed > run[r].followupsUsed =>
       run'[r].followupsUsed <= budget[r[1]].followups]_vars

\* A snapshot's runs are created with it: no later delivery of its key and no
\* change of agents adds a run to a stored snapshot.
NoLateRuns ==
  [][\A r \in Runs : r[2] \in snapshots /\ run[r].status = "absent" =>
       run'[r].status = "absent"]_vars

\* A position closes once: a wake that answers late cannot reopen or move it.
ClosedStaysClosed ==
  [][\A r \in Runs : book[r] = "closed" => book'[r] = "closed"]_vars

\* Every run that is enqueued ends, also when its agent is switched off, its
\* workers die and every attempt asks for a follow-up.
EveryRunEnds ==
  \A r \in Runs : (run[r].status # "absent") ~> (run[r].status \in Final)

-----------------------------------------------------------------------------
\* platform/README.md, the guarantees: "Cancel discards a racing completion and
\* leaves no proposal".  The interim proposal of a follow-up stays.
CancelLeavesNoProposal ==
  \A r \in Runs : run[r].status = "cancelled" => run[r].proposal = "none"
=============================================================================
