------------------------------ MODULE PaperBook ------------------------------
(***************************************************************************)
(* The engine's paper portfolio (portfolio.mjs) and the bots that trade it *)
(* (bot.mjs).  A bot belongs to one instrument at one granularity.  All of *)
(* them run in one process, so what a bot does between two awaits is one   *)
(* step; it awaits twice, while its context is built and while the model   *)
(* answers, and the others trade the same book meanwhile.  The statements  *)
(* of a trade are no transaction: a crash may leave it half done.  Crashes *)
(* between the whole trades of one cycle, or while a portfolio without     *)
(* equity is liquidated, are left out.                                     *)
(*                                                                         *)
(* Prices and money are integers, and divisions round down.                *)
(***************************************************************************)
EXTENDS Integers, FiniteSetsExt

CONSTANTS
    Bots, InstrumentOf,
    Bars,              \* what a completed candle can be: [open, high, low, close]
    Levels,            \* the stops and targets a decision may name
    Requests,          \* the notional it may ask for
    StartingBalance, Leverage, Commission, SpreadPaid,
    MaxPositions, RiskPct, AllocationPct, KillSwitchPct,
    MaxOpens,          \* bound: positions ever opened
    MaxTears           \* bound: crashes in the middle of a trade

ASSUME BookAssumption ==
    /\ Levels \subseteq Nat \ {0} /\ Requests \subseteq Nat \ {0}
    /\ \A k \in Bars : k.low \in 1..k.high /\ {k.open, k.close} \subseteq k.low..k.high
    /\ Leverage \in Nat \ {0} /\ {StartingBalance, Commission, SpreadPaid, MaxPositions} \subseteq Nat
    /\ {RiskPct, AllocationPct, KillSwitchPct, MaxOpens, MaxTears} \subseteq Nat

VARIABLES
    account,   \* the row of table portfolio, its positions, the sums over its trades
    phase,     \* per bot: "idle", "context" (buildCtx runs) or "thinking" (llmChat runs)
    quote,     \* per bot: the close its deliberation was started with
    seen,      \* per bot: the positions its deliberation has read
    tears

bookVars == <<account, phase, quote, seen, tears>>

(* In an account, realized is the sum over bot_trades, nextId the next row *)
(* id of a position, and gap, which is history, what half-done trades have *)
(* moved without leaving their row.                                        *)
NewAccount ==
    [cash |-> StartingBalance, halted |-> FALSE, peak |-> 0, positions |-> {},
     realized |-> 0, nextId |-> 1, gap |-> 0]

Unrealized(p, price) == p.side * (price - p.entry) * p.units
Locked(positions) == MapThenSumSet(LAMBDA p : p.margin, positions)
Equity(a) == a.cash + Locked(a.positions) + MapThenSumSet(LAMBDA p : Unrealized(p, p.mark), a.positions)
OnInstrument(a, b) == {p \in a.positions : p.instrument = InstrumentOf[b]}

StopHit(p, price) == p.side * (price - p.stop) <= 0
TargetHit(p, price) == p.target # 0 /\ p.side * (price - p.target) >= 0

\* closeInDb, for each position of exits, a set of [pos, price].
\* Fault: the commission is charged once more.
CloseAll_Fault(a, exits) ==
    LET won == MapThenSumSet(LAMBDA x : Unrealized(x.pos, x.price), exits)
        closed == {x.pos : x \in exits}
    IN  [a EXCEPT !.cash = @ + Locked(closed) + won - Commission * Cardinality(closed),
                  !.realized = @ + won, !.positions = @ \ closed]
CloseAll(a, exits) ==
    LET won == MapThenSumSet(LAMBDA x : Unrealized(x.pos, x.price), exits)
        closed == {x.pos : x \in exits}
    IN  [a EXCEPT !.cash = @ + Locked(closed) + won, !.realized = @ + won, !.positions = @ \ closed]

-----------------------------------------------------------------------------
(* The deterministic part of a cycle *)

Worst(p, k) == IF p.side = 1 THEN k.low ELSE k.high
Best(p, k) == IF p.side = 1 THEN k.high ELSE k.low

\* A level jumped over at the open is filled at the open, the stop comes
\* before the target inside a candle.
FillPrice(p, k) ==
    CASE StopHit(p, k.open) \/ TargetHit(p, k.open) -> k.open
      [] ~StopHit(p, k.open) /\ ~TargetHit(p, k.open) /\ StopHit(p, Worst(p, k)) -> p.stop
      [] OTHER -> p.target

Fills(a, b, k) ==
    {[pos |-> p, price |-> FillPrice(p, k)] :
        p \in {q \in OnInstrument(a, b) : StopHit(q, Worst(q, k)) \/ TargetHit(q, Best(q, k))}}

SimulateFills(a, b, k) == CloseAll(a, Fills(a, b, k))

\* Every position of the instrument is marked at the candle's close and closed
\* where that close has used up its margin or reached a level; without equity
\* everything is closed at its last mark and the portfolio halts.  A cycle is
\* called with the close of its candle as the quote.
Marked(a, b, k) == {[p EXCEPT !.mark = k.close] : p \in OnInstrument(a, b)}
MarkExits(a, b, k) ==
    LET close == k.close IN
    {[pos |-> p, price |-> close] :
        p \in {q \in Marked(a, b, k) : Unrealized(q, close) <= -q.margin \/ StopHit(q, close) \/ TargetHit(q, close)}}
Remark(a, b, k) == [a EXCEPT !.positions = (@ \ OnInstrument(a, b)) \cup Marked(a, b, k)]

MarkToMarket(a, b, k) ==
    LET after == CloseAll(Remark(a, b, k), MarkExits(a, b, k)) IN
    IF Equity(after) <= 0 /\ ~after.halted
    THEN [CloseAll(after, {[pos |-> p, price |-> p.mark] : p \in after.positions}) EXCEPT !.halted = TRUE]
    ELSE after

KillSwitch(a) ==
    LET peak == Max({a.peak, Equity(a)})
    IN  [a EXCEPT !.peak = peak,
                  !.halted = @ \/ (peak > 0 /\ (peak - Equity(a)) * 100 > KillSwitchPct * peak)]

\* The operator's reset; the peak starts again from the equity of now, or the
\* same drawdown would halt again at once.
HaltReset(a) == IF a.halted THEN [a EXCEPT !.halted = FALSE, !.peak = Equity(a)] ELSE a

\* performHaltReset, from the settings page.
ResetHalt ==
    /\ account' = HaltReset(account)
    /\ UNCHANGED <<phase, quote, seen, tears>>

\* runBot up to its first await: a reset asked for in the settings, fills,
\* marks, the kill switch, then a deliberation if there is an event for one.  The
\* candle is the last complete one, for as many cycles as it takes the next to
\* complete.
Cycle(b) ==
    /\ phase[b] = "idle"
    /\ \E k \in Bars, reset, event \in BOOLEAN :
         LET begun == IF reset THEN HaltReset(account) ELSE account
             done == KillSwitch(MarkToMarket(SimulateFills(begun, b, k), b, k))
         IN  /\ account' = done
             /\ event => ~done.halted
             /\ phase' = IF event THEN [phase EXCEPT ![b] = "context"] ELSE phase
             /\ quote' = IF event THEN [quote EXCEPT ![b] = k.close] ELSE quote
    /\ UNCHANGED <<seen, tears>>

-----------------------------------------------------------------------------
(* The deliberation *)

\* deliberate reads the book, then asks the model.
ReadBook(b) ==
    /\ phase[b] = "context"
    /\ phase' = [phase EXCEPT ![b] = "thinking"]
    /\ seen' = [seen EXCEPT ![b] = {p.id : p \in OnInstrument(account, b)}]
    /\ UNCHANGED <<account, quote, tears>>

Answered(b) ==
    /\ phase[b] = "thinking"
    /\ phase' = [phase EXCEPT ![b] = "idle"]
    /\ quote' = [quote EXCEPT ![b] = 0]
    /\ seen' = [seen EXCEPT ![b] = {}]
    /\ UNCHANGED tears

\* hold, a malformed answer, an error, and every decision that is refused.
Hold(b) == Answered(b) /\ UNCHANGED account

\* The margin a position may lock now.
MaxMargin(a, b) ==
    Min({(RiskPct * Equity(a)) \div 100,
         (AllocationPct * Equity(a)) \div 100 - Locked(OnInstrument(a, b))})

\* openPosition sizes the request by the book as it is now.
Position(a, b, d) ==
    LET notional == Min({d.notional, Leverage * MaxMargin(a, b)}) IN
    [id |-> a.nextId, instrument |-> InstrumentOf[b], side |-> d.side, units |-> notional \div quote[b],
     entry |-> quote[b] + d.side * SpreadPaid, margin |-> notional \div Leverage,
     stop |-> d.stop, target |-> d.target, mark |-> quote[b]]

Decisions(b) ==
    {d \in [side : {1, -1}, notional : Requests, stop : Levels, target : Levels \cup {0}] :
        /\ d.side * (quote[b] - d.stop) > 0
        /\ d.target # 0 => d.side * (d.target - quote[b]) > 0}

\* Fault: the kill switch is looked at when the cycle begins, and not again.
MayOpen_Fault(a, b, p) ==
    /\ Cardinality(a.positions) < MaxPositions
    /\ MaxMargin(a, b) > 0
    /\ p.margin + Commission <= a.cash
    /\ a.nextId <= MaxOpens
MayOpen(a, b, p) ==
    /\ ~a.halted
    /\ Cardinality(a.positions) < MaxPositions
    /\ MaxMargin(a, b) > 0
    /\ p.margin + Commission <= a.cash
    /\ a.nextId <= MaxOpens

Open(b) ==
    /\ phase[b] = "thinking"
    /\ \E d \in Decisions(b) :
         LET p == Position(account, b, d) IN
         /\ MayOpen(account, b, p)
         /\ account' = [account EXCEPT !.cash = @ - p.margin - Commission,
                                       !.positions = @ \cup {p}, !.nextId = @ + 1]
    /\ Answered(b)

\* A position the model was shown may be closed if it is still there.
Close(b) ==
    /\ \E p \in account.positions :
         /\ p.id \in seen[b]
         /\ account' = CloseAll(account, {[pos |-> p, price |-> quote[b]]})
    /\ Answered(b)

-----------------------------------------------------------------------------
(* Crashes: the process forgets what it awaits.  In the middle of a trade  *)
(* its first statements have been committed.                               *)

Restarts ==
    /\ phase' = [b \in Bots |-> "idle"]
    /\ quote' = [b \in Bots |-> 0]
    /\ seen' = [b \in Bots |-> {}]

Crash == (\E b \in Bots : phase[b] # "idle") /\ Restarts /\ UNCHANGED <<account, tears>>

\* The cash has been debited, there is no position.
TornOpen(b) ==
    /\ phase[b] = "thinking" /\ tears < MaxTears
    /\ \E d \in Decisions(b) :
         LET p == Position(account, b, d) IN
         /\ MayOpen(account, b, p)
         /\ account' = [account EXCEPT !.cash = @ - p.margin - Commission, !.gap = @ - p.margin - Commission]
    /\ tears' = tears + 1
    /\ Restarts

\* The cash has been credited, perhaps the trade is there too, and so is the
\* position still.
HalfClosed(a, x, recorded) ==
    LET won == Unrealized(x.pos, x.price) IN
    [a EXCEPT !.cash = @ + x.pos.margin + won,
              !.realized = IF recorded THEN @ + won ELSE @,
              !.gap = IF recorded THEN @ + x.pos.margin ELSE @ + x.pos.margin + won]

\* Exits are taken in the order of the positions' ids; x is the torn one.
TornExit(a, exits) ==
    \E x \in exits, recorded \in BOOLEAN :
        account' = HalfClosed(CloseAll(a, {y \in exits : y.pos.id < x.pos.id}), x, recorded)

TornCycle(b) ==
    /\ phase[b] = "idle" /\ tears < MaxTears
    /\ \E k \in Bars : LET filled == SimulateFills(account, b, k) IN
         TornExit(account, Fills(account, b, k)) \/ TornExit(Remark(filled, b, k), MarkExits(filled, b, k))
    /\ tears' = tears + 1
    /\ Restarts

TornClose(b) ==
    /\ tears < MaxTears
    /\ \E p \in account.positions, recorded \in BOOLEAN :
         /\ p.id \in seen[b]
         /\ account' = HalfClosed(account, [pos |-> p, price |-> quote[b]], recorded)
    /\ tears' = tears + 1
    /\ Restarts

-----------------------------------------------------------------------------
BookInit ==
    /\ account = NewAccount
    /\ phase = [b \in Bots |-> "idle"]
    /\ quote = [b \in Bots |-> 0]
    /\ seen = [b \in Bots |-> {}]
    /\ tears = 0

BookNext ==
    \/ ResetHalt
    \/ \E b \in Bots : Cycle(b) \/ ReadBook(b) \/ Hold(b) \/ Open(b) \/ Close(b)
    \/ Crash
    \/ \E b \in Bots : TornOpen(b) \/ TornCycle(b) \/ TornClose(b)

BookSpec == BookInit /\ [][BookNext]_bookVars

-----------------------------------------------------------------------------
\* The money is where the tables say: what was paid in, won and paid for
\* commissions is cash or margin, whoever closes what in which order; a crash
\* inside a trade shifts that by what the half-done trade moved, once.
BooksBalance ==
    account.cash + Locked(account.positions) =
        StartingBalance + account.realized - Commission * (account.nextId - 1) + account.gap

\* A bot that was thinking when another one's cycle halted the portfolio,
\* opened a position or lost money opens nothing beyond the limits that hold
\* when it answers.
OpensWithinLimits ==
    [][account'.nextId > account.nextId =>
         /\ ~account.halted
         /\ Cardinality(account'.positions) <= MaxPositions
         /\ \A b \in Bots : phase[b] = "thinking" /\ phase'[b] = "idle" =>
              100 * Locked(OnInstrument(account', b)) <= AllocationPct * Equity(account)]_bookVars
=============================================================================
