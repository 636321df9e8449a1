# Verification of market-signals

TLA+ models of the parts of market-signals that are hard to test: the run queue of the
agent control plane, the monitor that guards its shadow positions, the event stream that
keeps its pages current, the engine's paper book, and the research registry, whose scripts
decide what the engine trades: the file protocol that makes its evidence count, and the
simulators and entry loops that produce it. TLC instances and TLAPS proofs come with them.
Paths below are relative to the repository (`src/`); line numbers are those of the commit
the models were read from, and `PROJECT.json` maps every definition to its lines.

    tlc -workers 2 -config MCRunQueue_one.cfg MCRunQueue      # one run of TLC
    tlapm RunQueueProofs.tla                                  # the proofs of one module

## 1. Inventory

The program has five layers. The **engine** (Node, SQLite, `scripts/`) fetches candles,
detects signals and runs a paper bot. The **control plane** (Go, Postgres, `platform/`)
keeps agents, takes frozen snapshots of the engine's decision points, queues one run per
agent and snapshot, and keeps a book of shadow positions; **workers** claim runs over HTTP
and ask a model for a proposal. The **console** (Next.js, `platform/web`) shows it all.
The engine stays the only authority over trades: every failure of the control plane is
swallowed by the engine. The **research registry** (Python, `docs/research/registry`) is the
largest body of code: about fifty campaigns, each a set of commands run by hand that
register a hypothesis with the hash of the code, try variants, and write outcomes, on top
of an evaluator that simulates trades bar by bar.

| Component | State | Operations | Talks to |
|---|---|---|---|
| Run queue (`internal/queue/lifecycle.go`, `ingest.go`, `agents.go`) | `agents`, `snapshots`, `runs`, `attempts` | ingest, claim, heartbeat, authorise a tool, set a wait, complete, fail, acknowledge a cancel, cancel, reap, record the engine's decision, switch or re-post an agent | engine (ingest, legacy decision), workers (runtime protocol), operator (cancel, agents), reaper ticker every 3 s |
| Shadow positions (`queue/positions.go`) | `shadow_positions`, `position_events` | open, close, tighten, replace tripwires, save, record a wake, reconcile failed wakes, raise attention | a completing run, the monitor |
| Position monitor (`internal/monitor`) | none durable; the copy of a position a tick works on | a tick every 15 s: reconcile, fetch bars, judge, save, wake | the positions' table, the engine's feed, the queue (ingest of a wake) |
| Exit plan rules (`monitor/eval.go`, `domain/plan.go`) | pure | `Step`, `Key`, plan checks | monitor |
| Decision domain (`domain/decision.go`) | pure | `CheckShape`, `Validate`, `ValidateWake` | queue |
| Worker (`internal/runtime`) | per attempt: lost, cancelled | claim loop, heartbeat goroutine, run, report | the runtime protocol, a model |
| HTTP API and event stream (`internal/api/server.go`) | per stream: cursor, ids sent | routes, the resumable event stream, the reaper's ticker | queue, browsers |
| Signal hub (`api/signals_hub.go`) | subscribers, one shared watcher, last digests | subscribe, leave, watch, notify | streams, engine |
| News triage (`api/news_triage.go`) | records per headline, in-flight instruments, back-off times | annotate, classify, summarise | hub, a model, Postgres |
| Strategies (`api/strategies.go`) | versions, one active, archived | save, activate, archive, assign to an agent | agents |
| Watcher guard (`api/watchers_guard.go`) | none | refuse a removal the bot needs | engine |
| Paper bot and portfolio (`scripts/bot.mjs`, `portfolio.mjs`) | cash, positions, trades, halt, peak equity | candle fills, marks, kill switch, deliberation, halt reset | watcher cycle, a model, control plane |
| Watcher cycle and signals (`scripts/supertrend.mjs`) | candles, signals | acquire a window, detect a flip, filter, notify, repair gaps | feed, a model, bot |
| Keep-fresh loop (`scripts/keep-fresh.mjs`) | in-flight flags, buckets, back-off | master tick, cycles, sweep | watcher cycle, candles |
| Chat threads (`scripts/signal-server.mjs`) | threads, messages | ask, halt, discard, reply | browsers, a model |
| Bridge (`scripts/control-plane.mjs`) | none | emit a snapshot, emit the engine's decision | control plane |
| Research campaigns (`docs/research/registry/campaigns/*`, `evaluator/engine/de_v2.py`, `ladder.py`) | per campaign: a registration, outcome files, append-only tables, purchased data | register, amend, build, freeze, run, final, controls, fetch | each other's files; the researcher, who edits the code |
| Trade simulators (`evaluator/engine/labels_v2.py`, `fills.py`, the reference in `campaigns/v1/fixtures.py`, `campaigns/limit13`, ...) | per trade: stop, armed, exit | simulate a policy, a limit order, a range, a trailing stop | bar and minute data |
| Entry loops (`de_v2.replay`, `fade31`, `pairs16`, `swing43`, `wave23`, ...) | open trade, attempts | pick entries from a history | gates and scores |
| Import, backtests, skills, site | files and tables | batch jobs | none at run time |

What is hard in each, and what makes it correct:

- *Run queue.* Workers die, are slow, or go on calling after their lease was given away;
  the reaper, the operator and the worker meet on one run. At most one attempt runs, an
  ended attempt is never written again, a cancel wins over a racing completion, budgets
  bound retries and follow-ups separately, every run ends and ends in a recorded outcome,
  and the comparison with the engine follows whichever of the two answers comes last.
- *Shadow positions and monitor.* The monitor works on a copy of the row without a lock
  while an agent it woke may tighten, re-arm or close; it may be restarted anywhere in a
  tick; the feed serves a moving window. The stop only tightens, a closed position is
  final, each completed bar is judged once or its gap is flagged, wakes keep to their
  limits.
- *Event stream.* Ids are allocated before they become visible, browsers reconnect.
  Every committed event must reach a browser that stays or comes back.
- *Hub and triage.* A shared watcher starts and stops with its subscribers; background
  jobs finish after the request that started them. A pending headline must be answered by
  a notice, a change must reach every subscriber.
- *Strategies.* Concurrent saves, activations, archives and assignments keep one active
  version and never archive what an agent uses.
- *Paper bot.* A decision awaits a model between reading the book and trading on it;
  opening and closing are several statements. Cash plus margin is conserved, a halted
  portfolio opens nothing.
- *Signals and keep-fresh.* A flip is announced once; a due cycle is neither starved nor
  run twice; a gap is repaired although attempts fail.
- *Chat.* A halted turn leaves neither a question nor a reply behind.
- *Research protocol.* Commands are killed, repeated, run beside each other and edited in
  between. An outcome comes from code its registration names, each try is counted before
  its outcome exists, a frozen variant is scored once, an amendment forgets nothing, data
  is bought once.
- *Simulators.* A bar tells its extremes, not their order. The pessimistic and the
  optimistic result bound what real orders would have earned and agree where no bar is
  ambiguous; the harness and its independent reference agree.
- *Entry loops.* A loop over the whole history must take the trades that a trader who
  learns it bar by bar would have taken.

`PROJECT.json` lists the hazards at their lines, each with the properties that cover it or
the module planned for it.

## 2. Modules

| Module | Models | Composes |
|---|---|---|
| `RunQueue` | agents, snapshots, runs, attempts, the book of positions a run opens or closes, workers, operators, the reaper, clocks | |
| `RunOutcome` | what the queue promises: an accepted run is resolved once | |
| `RunQueueOutcome` | `RunQueue` implements `RunOutcome` | both |
| `RunQueueProofs` | the TLAPS theorems about `RunQueue` | `RunQueue` |
| `RunQueueOutcomeProofs` | every step of `RunQueue` is a step of `RunOutcome` or changes nothing a client sees | `RunQueueOutcome`, `RunQueueProofs` |
| `PositionMonitor` | one position, the monitor's tick statement by statement, the woken agent, the feed, restarts | |
| `PositionMonitorProofs` | the TLAPS theorems about `PositionMonitor` | `PositionMonitor` |
| `EventStream` | the event log, the handler of one stream, the page that follows it | |
| `EventStreamProofs` | the TLAPS theorems about `EventStream` | `EventStream` |
| `PaperBook` | the paper portfolio and the bots that trade it | |
| `PaperBookProofs` | the TLAPS theorems about `PaperBook` | `PaperBook` |
| `ResearchSteps` | what a command does to files, as one record per step, and the sequences the scripts build from them | |
| `ResearchPinned`, `ResearchOpen` | every campaign's commands: those whose runs compare the code with the registration, and the others | `ResearchSteps` |
| `ResearchProtocol` | commands as processes over the campaign's files, with edits and crashes | `ResearchSteps` |
| `Research` | what the protocol is for, as properties | `ResearchProtocol` |
| `ResearchProofs` | the TLAPS theorems about `Research` | `Research` |
| `TradeRules` | the simulators, bar by bar, and the scalar reference | |
| `TradePath` | the same trade as live orders while the price moves, beside the simulators | `TradeRules` |
| `TradePathProofs` | TLAPS: the simulators as tables, what they make of a bar of watched orders, and that the reference and the harness agree | `TradePath` |
| `TradeBracketProofs` | TLAPS: what the simulators promise of the live orders | `TradePathProofs` |
| `EntryRules` | the offline entry loops | |
| `EntryReplay` | traders who learn the history one bar at a time, beside the loops | `EntryRules` |
| `MC...` | instances for TLC; `MCResearch` joins the campaigns and the protocol, `MCResearchTrades` a trade or a history | |

### RunQueue

A run is a pair of agent and idempotency key; `run[r]` holds the columns of `runs`
together with its `attempts`. `agent`, `snapshot` and `book` are the other tables. Each
operation is one Postgres transaction that locks the rows it writes (`FOR UPDATE`), so one
action stands for it whole, early returns included. Calls a handler refuses change nothing
and are not actions.

- **Workers are the environment.** A worker's call carries its attempt id and fence, and
  nothing stops a worker from calling late. `Heartbeat`, `AuthorizeTool`, `SetPendingWait`,
  `Complete`, `Fail` and `AckCancel` are therefore possible for every attempt that was ever
  started, at any time; only `Current` (the attempt is running and its lease unexpired)
  refuses them. Lost and duplicated calls need no action of their own: a lost call never
  happens, a duplicate is the same call again.
- **Time** is what the queries compare with `now()`: a lease is valid or lapsed
  (`LeaseLapses`, renewed by `Heartbeat`), a queued run fresh or aged (`QueueAges`), a
  wait due or not (`WaitElapses`). No durations are compared, so every ordering is checked.
- **Reap** takes any set of lapsed attempts (`SKIP LOCKED` may pass over some), wakes every
  due wait, then expires aged runs, in the order of the code and in one step.
- **Proposals** are the kinds the queue tells apart: an entry, an adjustment of a
  position, `hold`, `close`, with or without a wait, valid or rejected.
- **Budgets** are of two kinds. `max_attempts` is copied into the run at ingest, and
  `BudgetsHold` compares with that copy. The budget of follow-ups is read from the agent
  whenever it is needed (`lifecycle.go:376`, `417`), and a re-post may lower it below what a
  run has already used; `FollowupsWithinBudget` therefore speaks of the completion that
  charges one, and of the agent of that moment.

### PositionMonitor

Positions share no rows, so one is followed. `position`, `wakeEvents` and `wakeRun` are
the database; `mon` is the memory of the tick, with `mon.at` the next statement. Each
Store call is one action, and between any two of them an agent may answer, an operator
may switch the agent, bars complete, or the process restarts. Bars are numbered by their
opening; stops are levels that grow towards price, which covers long and short. What one
bar does (`Step`) is any of the results it can have: exit, hold, trail on the newest bar,
tripwires outside their cooldown. A wake is three calls: enqueue, then record, or raise
attention where the key has no run (`RaiseAttention`); each may fail alone (`WakeFails`) or be
followed by a restart. Only the checks before it and the ingest are one step: nobody else
records wakes, and an ingest that names its agent does not ask whether it is enabled, so an
answer or a switch that falls between them comes out as one before or after both. `forgotten` is a
history of the wakes whose cooldown the code gives up: an answer replaced the tripwires
(`positions.go:267` empties `last_fired`), or the tick ended between the record and the mark.
The feed serves every bar of its window; holes inside it are not modelled, and `NoSilentGap`
says nothing of them. `EntryBar` tells whether the entry fell on the opening of
bar 1 or before it; `Faults` bounds restarts and failed calls.

### EventStream

`row[e]` is what became of event id `e`: free, held by an open transaction, visible, rolled
back. `at` is the next statement of the handler and `after`, `sent` and `evs` its variables;
`frames` is what it wrote on this connection, of which the browser received `got`. The page
is `lastId` (what the browser sends on a reconnect), `opened` and `bump` (`live.ts`) and
`read`, the events that were visible when a load of it read the database. Queries and
single frames are steps, and a broken connection, a failed query or a reload of the page
can come between any two (`Faults`). `due` records which events committed on the
connection while no committed id was `Lookback` ahead, which is the limit the handler's own
comment states (`server.go:575`). A page's debounce timer and its request are one load. A
load may fail: `RunPage` shows the error and does not ask again, so `failed` keeps the events
such a load would have brought, and `DueIsLoaded` promises that an owed event is read or in a
load whose failure is shown. Loads that overlap are not modelled, so an older answer that
replaces a newer one is not seen here. `Extra` is at least one, since a query returns more
than the window holds (`streamLookback+200`, `server.go:578`).

### PaperBook

`account` is the row of `portfolio` with its positions and sums; a bot is an instrument at a
granularity. All bots run in one Node process, so `Cycle` is everything `runBot` does up to
its first await: reset, fills, marks, kill switch. `ReadBook` is the read of the book after
`buildCtx`, and `Open`, `Close` and `Hold` what follows the model's answer, with the quote of
the cycle's beginning and the book of now. `keep-fresh.mjs:211` keeps a bot from overlapping
itself. The statements of a trade are no transaction, so `TornOpen`, `TornCycle` and
`TornClose` crash between them; `gap` counts what such a crash moved. Which candle a cycle
sees is an input, and so is whether an event wakes the model. A CLI process on the same
database, beside the server, is left out, and so are crashes between the whole trades of
one cycle.

### Research

A command is a sequence of steps on files: ask whether one exists, load it, compare its hash,
open it for writing (which empties it), finish it, `os.replace` it, append a line. A process
takes its code at its start and runs it to the end, whatever happens to the script
meanwhile; `Edit` changes the script or the evaluator on disk, `Crash` kills a process
between any two steps. A file remembers which run wrote it, with which code, and from what
that was computed. `ResearchPinned` and `ResearchOpen` translate each campaign's script; a
property states which campaigns it is about by what their scripts do, and the campaigns that
do not keep it are named in section 5. Assumed: nobody deletes a file, and nobody runs one
command twice at the same time. One file stands for the files a command writes per
instrument or month in the same way; the paged downloads of swing44 and tsmom36 and the
batching of labels are left out, and of two campaigns with the same steps one is run.

### TradeRules and TradePath

`TradeRules` has the simulators as functions of a trade and a bar: the harness
(`labels_v2.simulate`, stop first or target first), the audit's scalar reference in its three
modes, limit orders, fixed ranges, trailing stops. `TradePath` moves a price one unit at a
time, keeps the orders an account would hold, and hands each finished bar to the simulators,
which see its open, extremes and close (and its minutes, where the code looks at them). The
two never exchange anything else. Prices are integers, the price jumps only between bars,
and ask minus bid is constant during a trade. A limit order is compared when the minute of
its fill is quiet; for other fills the clause `FillMinute` says what is left. lim13 simulates a
limit order twice, as the strict fill with stops first and as the touch fill with targets first
(`lim13.py:225`), and `LimitBar` does the same: a price that only reaches the limit fills the
touch result alone, which is then `lead` bars older than the orders. That is another trade than
the one the orders hold, so `Compared` leaves it out of the comparison and no upper bound is
claimed for it: lim13 registers one, and section 5 says why it does not hold. The touch of an
order that was cancelled unfilled is not followed further.

### EntryRules and EntryReplay

`EntryRules` has the five kinds of loop: `de_v2.replay` with its episodes and gate, one trade
at a time after the fact (fade31, vol33), pairs, swing and wave. `EntryReplay` appends a bar at
a time; each trader decides with the bars so far, and the loop is run again on the whole
history. The wave trader forgets at each new session what it holds, as `run_policy` does
(`wave23.py:151`), so `LoopsAreCausal` says of wave23 that it takes one trade at a time within a
session, and not what its registration says (section 5). What a bar means (signal, side, gate,
life of the trade) is chosen freely under the laws of the gate. Trades whose longest life
reaches past the data are not compared.

## 3. Runs

| Run | Question | Bounds |
|---|---|---|
| `queue_run` | Does every interleaving of late calls, lapses, retries, follow-ups, replays, cancels and the engine's answer leave one run consistent, and does it end? | one agent that may be switched and re-posted with other budgets, one key, two attempts, two follow-ups |
| `queue_promise` | Does the queue implement `RunOutcome`, with two runs of one agent racing to open, and can a wake's answer reopen or rewrite the position meanwhile? | two engine keys and one wake about the position of the first, one attempt and one follow-up each |
| `queue_cancel_proposal` | Does a cancelled run carry no proposal (`platform/README.md:92`)? It may: the interim proposal stays | as `queue_run`, one follow-up |
| `monitor_row` | Does the monitor's stale copy ever loosen a stop, revive a closed position, judge a bar twice or silently skip one, and is every bar reached? | three bars, a window of two, two stop levels, one fault anywhere |
| `monitor_wakes` | Do wakes keep to the limits, also when one failed and is tried again and when an answer re-arms the tripwires? | two bars, two tripwires of which one fires once and one watches a silent feed, a cooldown of two bars, two wakes per two bars, one fault |
| `monitor_unseen_wake` | Is every enqueued wake seen by the counters (`service.go:324`)? Not one of a judged bar after a restart before `RecordWake` | one fault |
| `monitor_trade_budget` | Is the wake budget of a trade kept (`redesign.md:39`)? Not by a tick that catches up | no fault |
| `event_stream` | Does the stream miss or repeat an event that becomes visible out of order, and does the page load, or show that a load failed, after every commit it is owed? | four ids, two transactions, a window of two, queries of three, one fault |
| `paper_book` | Does the money stay where the tables say, and does a late answer trade past a halt or a limit of that moment? | two bots of one instrument, three candles, three opens, two positions at once, one crash inside a trade |
| `research_protocol` | Do named code, counted tries, single looks, whole registrations and single purchases survive edits, crashes and other commands? | every campaign; two to four commands started, two at a time, one crash, two edits, two versions of the script and of the evaluator |
| `research_locked` | Is scan46's locked holdout touched once (`scan46.py:2`)? Not if the run dies before its mark | scan46, four commands, one crash |
| `research_trades` | Do the simulators bound and match the live orders, do harness and reference agree, do the loops only use what a trader knew? | three bars of at most two minutes and six moves, risk 2, arm 1, runner 2, gaps of 2, spreads 0 and 1; five bars of history, lives up to two, a window of two |

Two attempts reach a retry and the end of retries; two follow-ups with one attempt, and
one follow-up with two attempts, reach both budgets and their mix. One key suffices where
rows of different runs are not related; the relations between runs (one open position per
agent, a wake and the position it is about, one reaper pass over several runs) are checked
with three keys in `queue_promise`. Three bars with a window of two give a catch-up of several bars and a gap;
a cooldown of two bars ends inside them. One fault may strike at every statement of a
tick, and a second one only repeats the recovery of the first. Four ids with a window of
two let ids be forgotten while others are still held by a transaction; one id more would
be the same situation again, and the theorems do not depend on the number.

Three opens with two positions at once reach the position limit, the allocation cap of the
instrument, the margin exit, an equity below zero, the kill switch and a trade after a
reset; every crash inside a trade is a single one, as the next start knows nothing of the
last. A campaign gets four starts where a property needs an amendment, a build or a second
freeze between a registration and a run, three where a property is about it, and two
otherwise; the third version of a script would be either named or not, like the second. Six
moves per bar reach the stop and the target of one bar in either order, and three bars an
armed trade, a flip and the time exit. Five bars of history hold two episodes or sessions
and two trades that would overlap.

Deadlock is checked in every run but `event_stream`, where a refused stream with all ids
used and all faults spent is an end, and the runs of the research registry, which end
when their bounds are used up, the trade is over or the history complete. Elsewhere an agent
can always be switched or a halt reset, so a stuck worker, run or monitor shows as a violated
liveness property rather than as a deadlock.

**Fairness.** `RunQueue`: the clocks that make a lease lapse, a wait fall due or a queued
run age go on (`WF` for each), and the reaper's ticker runs (`WF` of a pass that takes all
lapsed attempts and aged runs; `StartReaper`, `server.go:99`). Nothing is assumed of
workers, operators or the engine: `EveryRunEnds` holds with no worker at all. That a
lease is not renewed for ever is what the worker's `RunTimeout` ensures: it ends the
context the heartbeat goroutine runs under (`worker.go:104`). `PositionMonitor`: the
ticker keeps taking steps (`WF` of `Tick`, `Service.Run`), and a feed that is asked again
and again answers once in a while (`SF` of `FeedAnswers`), without which no bar could be
judged. `EventStream`: the browser reconnects (`retry: 2000`) and delivers what it
received, the handler's ticker goes on, and a page's timer fires (`WF` of each);
transactions may stay open for ever.

## 4. Proofs

`PROJECT.json` lists the theorems. Each holds for every value of the constants that its
module's named assumptions allow; TLC evaluates those assumptions on every run. None of the
invariants is inductive alone, so each proof module has an `IInv`, checked with TLC before it
was proved, one lemma per action, and the theorems as consequences.

### RunQueueProofs

For any sets of agents, keys and markets and any budgets, every invariant and action property
that `queue_run` and `queue_promise` check holds of `Spec`, and so does `TimersAgree`, which no
run repeats: a waiting run always has a timer and a queued one a clock.

    IInv == TypeOK /\ (every row satisfies RowOK) /\ RunsHaveSnapshots
            /\ BookFollowsDecisions /\ OneOpenPosition

`RowOK` collects what must hold of one row: exactly the last attempt may be running and
does so exactly while the run is `running`, retries stay in budget, follow-ups are charged
to attempts that ended in a wait, a timer exists exactly while the run waits, a queue
clock exactly while it is queued, a cancel asked while running ends in cancelled, failed
and expired runs hold a recorded hold, and the comparison is current. It is needed as a
whole: that a retry may be counted needs the number of attempts to be the number of the
running one, and that a final row never changes needs its attempts to have ended.
The proof has a lemma per row operator (`EndAttempt`, `FinishCancelled`, `RequeueOrFail`,
`RecordHold`, `Recompute`), a lemma that an action changing one row keeps the others, and
one step per action of `Next`. `Reap`, which changes many rows at once, is proved row by
row. The action properties follow from the invariant in the same way, but for
`FollowupsWithinBudget` (`FollowupsKept`): the budget of the moment is no part of the
invariant, because a re-post may undercut what was used; what is proved is that no step but a
completion charges a follow-up, and that this one looks at the budget.

### RunQueueOutcomeProofs

`QueueKeepsPromise` is the safety part of `KeepsPromise`: under the refinement mapping of
`RunQueueOutcome`, the initial states of the queue are initial states of the client's view,
and each step is a step of that view or leaves it unchanged. The step uses `IInv` of
`RunQueueProofs` before and after it: that a reaper's pass looks to a client like one allowed
change of its run needs a run to have at most one attempt to end. The fairness of the client's
view stays with TLC.

### PositionMonitorProofs

For any number of bars, tripwires, stop levels and windows and any number of faults.

    RowInv  == TypeOK /\ CopyCounts /\ HeldBars /\ JudgedOnce /\ WindowReaches /\ GapsAreSeen
    WakeInv == RecordedWakes /\ AboutToRecord /\ OneWakeInFlight /\ WakesPerDay
    IInv    == RowInv /\ WakeInv

`CopyCounts` is the heart of the first part: a tick's copy of the row may have an old stop, but
its counters are never old while the position is open, since only the tick writes them. That
makes each bar judged once although the copy is written back without a lock. `WindowReaches`
carries the gap test from the feed's answer to the last bar of the tick. In the second part
`AboutToRecord` says what still holds between the enqueue of a wake and its record: the answer
of the checks stands, because nobody else records wakes and time only takes wakes out of the
day.

One theorem has a hypothesis. `GapsAreNotSilent` is about `EntryBar = 0`: for an entry on the
very opening of a bar the property is false (section 5), and `GapsAfterEntryAreSeen` says what
remains true wherever the entry falls. `CooldownsAreKept` has none: answers that replace the
tripwires and failed writes are part of it, with the wakes in `forgotten` as the only exception.
Its invariant `Cooldowns` ties each recorded wake that is not forgotten to a mark, in the row or
in the hands of the tick that recorded it.

### EventStreamProofs

`TypeOK`, `SentOnce` and `NothingDueIsMissed` for any number of
ids and transactions, any window and any limit of a query above it. The inductive invariant adds that
cursors and sent ids are committed ids, that a frame's id stays in `sent` until it is
behind the window, and `DueIsOwed`: an owed event is sent, about to be sent, or ahead of
the window even after the cursor has moved over all that the last query returned. The last
part is what makes a commit between a query and its last frame safe, and it rests on
`EventsInOrder`: a query cut at its limit drops the highest ids. `NothingDueIsMissed` takes the
limit in: an owed event that the next query does not return is behind earlier ids of which some
are unsent, so that the query makes progress. That it is sent in the end is the liveness side
(`DueIsLoaded`), which stays with TLC.

### PaperBookProofs

`BooksBalance` and `OpensWithinLimits` for any bots, candles, decisions and limits and any
number of crashes.

    IInv == Sound(account) /\ Balanced(account) /\ Awaiting

`Sound` says that the positions are finitely many distinct rows with ids below the next one,
`Awaiting` that a bot that deliberates holds a quote. The work lies in the sums: a cycle closes
a whole set of positions at once, and the fold behind `MapThenSumSet` is known only by its
recursion on one chosen element. That a sum may be taken in any order, that it is an integer,
that it splits (`LockedSplits`), and that marking a set of positions keeps its margins
(`MarksKeepMargins`) are proved by taking a smallest set for which the claim fails: the
library's theorem that strict inclusion of finite sets is well founded, with `WFMin`, gives one
without an induction rule (`SmallestSet`).

### ResearchProofs

`Provenance`, `NamesFirst`, `TrialsCounted`, `ScoredOnce` and `BoughtOnce`, for any campaigns
made of the modelled steps and any number of runs, versions, edits and crashes. What a process
is past is read off its script, so the invariant speaks of scripts as data:

    IInv == Sound /\ Counted /\ Bought /\ Scored /\ NamesKept /\ Made

`Sound` has the types and what a loaded or finished file implies; `Counted` that each line step a
process is past left its row; `Bought` that nobody is about to open a file that is there;
`Scored` that what a process found missing is missing still or its own; `NamesKept` that the
first name survives the two ways of amending; `Made` that what a process has in hand, and every
outcome, comes from code a registration names. What the theorems need of the scripts is
stated once, in `ScriptsAssumption` and `CampaignsAssumption`: an outcome is preceded by the
question for the registration and by the comparison, by the trial rows; one command registers,
amends, buys or writes a given table; evidence is computed from evidence only. TLC evaluates both
on the translated scripts of all campaigns in `research_protocol`, so that a campaign outside
them would be found.

### TradePathProofs

`ReferenceAgrees`, under `PolicyAssumption` and `PathAssumption` only: any risk, arm and target
distances in that order, any spreads, gaps, moves and minutes. Both programs are case
distinctions over a bar, so each is first read as a table (`ArmedRows`, `UnarmedRows`,
`RefUnarmedRows`: which bar leads to which trade, and that the rows leave no bar out) and the
tables are compared row by row (`ArmedAgree`, `UnarmedAgree`). The invariant has to say which
trades meet in a bar:

    IInv == Types /\ Agreement

`Types` says that every minute's extremes enclose its open and close, so that the merged bar
does (`MergedCovers`); `Agreement` that an open trade is fresh but for being armed, that stop
first the two trades are equal, and that target first they are equal or closed alike: there the
reference leaves a trade unarmed that the harness arms in its last bar.

### TradeBracketProofs

`Bracket`, `ExactUnlessAmbiguous` and `MinutesDecide`, for all five plans, for any risk, arm and
target distances, spreads, gaps, minutes, moves per bar, trailing candidates and waits, under one
more premise, `Sensible` (`TradePath`): a trade may last more than one bar; the spread is smaller
than the risk, as for every signal that `lim13.py` line 202 lets pass (otherwise the price
that fills a limit order could lie below its stop, and a loss of one `Risk` would not be a
bound); and `Far`, the model's infinity, is further from a trailing stop than a price gets in one
bar. `MCResearchTrades` assumes it by name, so TLC evaluates it on the instance the run checks.

The difficulty is that the orders see every price and the simulators only bars, so the
invariant has to say what the minutes so far tell of the orders in the open bar:

    Inv == Types /\ LiveInv /\ LimitInv /\ Bounds /\ Agreement /\ SimsInv

`LiveInv` says where the stop is, that an open position has seen no level reached, that a closed
one was closed in the first minute that reached one, at the level or at the open beyond it, and
whether it was armed before (`Outcome`, `HitAt`); it grows with every price. `LimitInv` says that
the minute of the fill is the first through the limit, the one `ScanFill` finds, and what may have
happened inside it. `Bounds` says that nobody holds beyond the horizon and that a bar under a
trailing stop is no wider than its moves. `SimsInv` is the comparison itself: in a bar that
is still fresh each compared simulator holds the very trade the orders hold (`Carried`), and once
the orders are done each reports them (`Reported`). Of a limit order only the strict, pessimistic
result is compared; nothing is proved of the touch result, which is another trade.

When a bar closes, the minutes are merged: `BarOf` turns what the minutes tell into what the merged
bar tells, and the tables of the simulators then give a lower, an upper or an exact result
(`UnarmedJudges`, `ArmedJudges`, `FillFits`); the walk through the minutes gives the exact one
unless the deciding minute is ambiguous (`UnarmedWalks`, `ArmedWalks`). One lemma per
plan closes the bar (`PolicyCloses`, `FirstCloses` and `LaterCloses` for limit orders,
`RangeCloses`, `RatchetCloses`, `PathCloses`), and `SimsClose` carries the result to the next
bar or to the end of the trade.

### Only model-checked

- Liveness (`EveryRunEnds`, `BarsAreJudged`, `DueIsLoaded`, the fair part of `KeepsPromise`),
  which the installed provers cannot reach.
- `LoopsAreCausal`: the loops are folds over a history, and what they compute for every history
  needs an induction the provers do not have.

## 5. What the checks found

- A run cancelled after a follow-up keeps its interim proposal (`queue_cancel_proposal`).
- A restart between the enqueue of a judged bar's wake and `RecordWake` hides the run for
  good, because the bar is already stored as judged (`monitor_unseen_wake`). The wake of a
  silent feed is found again by a later tick, under the same key, while no new bar has come.
- A catch-up tick can pass the wake budget of a trade (`monitor_trade_budget`).
- With `EntryBar = 1` in `MCPositionMonitor_row.cfg`, `NoSilentGap` fails: for an entry on
  the very opening of a bar the gap test starts one bar late. The run keeps
  `EntryBar = 0`, since entries carry seconds and fall on an opening only by chance.

- `DueIsLoaded` needs `opened` in its premise: the first open of a stream loads nothing
  (`live-reopen.ts`), so an event that commits after the page's first load and before the
  handler reads what is visible is marked as sent and reaches the page only with the next
  event or reopen. `RunPage` has no timer that would load it.
- A transaction that commits when exactly `streamLookback` later ids are visible can already
  be missed; the comment at `server.go:575` says "more than".

- A locked test of scan46 that dies between computing the locked windows and writing
  `locked.json` leaves no mark (`research_locked`); `ladder.py:310` records its look first.

Read while modelling, and visible in the models as what a property has to leave out:

- `engine.md:83` says that candle fills run "on every candle close"; `runBot` runs them on
  every cycle with the last complete candle (`bot.mjs:361`), and compares no times, so a
  position opened after a candle can be filled by that candle's extremes on the next cycle.
- `bench1/register.py:1` promises "amendments append", and line 15 overwrites
  `code_sha256`; ablate4, fm2, mw6, risk8 and v2 do the same. `NamesFirst` is about the
  campaigns that keep the first hash.
- `ladder.final` computes row A and `de_v2.final` row D in every run, so `ScoredOnce` speaks
  of B, C and E. Two `final` processes at once would both read the ledger before either
  appends; `de_v2.dev` loses an entry of its frozen file in the same way.
- `methodology.md:7` asks for the registration before any outcome; the runs of pairs16,
  roll47 and tsmom36 do not look for it, and nullfix13 is not pinned.
- Campaigns that write results before trial rows undercount after a crash. A fetch that dies
  between its download and `os.replace` buys that part again; one that dies before its log
  line hides the cost. Stamps taken at the end of a run (fade31, flow29, flow42, vol33,
  vm40) name the code on disk, not the code that ran.
- A registration that is amended in place and torn by a crash stays torn: every later
  command dies on it.
- `de_v2.base_active` lets a bar be active only if the data reach past its longest trade,
  although `replay` promises "data <= i". `EntryReplay` therefore compares settled trades.
- fade31 and vol33 drop overlaps by the gross exit bar, so net trades may overlap although
  `vol33.py:11` says "One open trade per instrument per strategy"; scan46 may enter on a
  later close than "the first close within window".
- lim13 registers its touch result as an upper bound (`lim13.py:492`). It is the result of
  another trade: a price that touches the limit a bar before it trades through it starts that
  trade a bar earlier, whose horizon may end it before the live trade gains. Nor does it look
  at the high of the minute of the fill. `Bracket` takes only the lower bound of a limit order.
- wave23 registers "one open at a time (next signal bar >= previous exit bar)"
  (`wave23.py:459`), and `run_policy` sets `att, free = 0, -1` anew for every session
  (`wave23.py:151`): a trade still open then does not keep the next session's signal out.
- Evaluator v1 armed a trade and left it alive on a bar that touched the first stop, an
  order of touches no price takes; v2 does not, and `Bracket` tells them apart.

## 6. Not modelled

- Indicator, plan, gate, model and score arithmetic, statistics, prompts, provider
  protocols, number formats, HTML, batch imports, plots and summaries: pure functions or
  I/O without an interleaving. In the models their results are arbitrary.
- Signal hub, news triage, strategy versions, watcher guard, keep-fresh loop, chat threads,
  the signal record: modules of the plan below, whose hazards are listed with that note.
- Row locks (transactions are atomic), so lock-order deadlocks, which Postgres breaks by
  aborting one transaction. More than 500 open positions. Two API processes with two monitors
  at once: `cmd/api` starts one.
- Of the paper bot: the stale flag of a mark, the journal, the granularity migration, a
  second process on the database.
- Of the research scripts: what is computed between two file operations, files that no
  command of the campaign writes, deletion of files, one command run twice at once.

## 7. Plan

Order of work, most important first.

1. `RunQueue`, `RunOutcome`, `EventStream`, `PositionMonitor`, `PaperBook`, the research
   modules: modelled and checked; their safety is proved but for what section 4 names.
2. Proofs: `EntryReplay` as far as its folds can be reasoned about.
3. `ConsoleFeed`: the signal hub composed with news triage (one watcher, every subscriber
   watched, pending headlines answered).
4. `StrategyVersions`, `KeepFresh`, `ChatThread`, `SignalRecord`, `WorkerLoop`, `PlanRules`,
   `WatcherGuard`, as far as they carry properties worth their run.
