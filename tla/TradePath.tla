------------------------------ MODULE TradePath ------------------------------
(***************************************************************************)
(* One trade of the research registry, twice: as the orders an account     *)
(* would hold while the price moves, and as the simulators see it, which   *)
(* get a bar only when it is over and know its extremes, not their order.  *)
(*                                                                         *)
(* The price moves by one unit inside a bar and may jump between two bars, *)
(* so a level touched inside a bar is filled at the level and a level      *)
(* jumped over at the open.  The bid and the ask move together.            *)
(***************************************************************************)
EXTENDS TradeRules, FiniteSetsExt

CONSTANTS
    Spreads,    \* ask - bid, fixed for the trade
    Minutes,    \* minute bars per bar, for the rules that look at them
    Ticks,      \* price moves per bar
    Gaps,       \* the jumps between two bars
    Trails,     \* candidates for a trailing stop, relative to the entry
    Offsets,    \* how far a limit order rests from the quote
    Waits       \* bars a limit order rests (X)

ASSUME PathAssumption ==
    /\ Spreads \subseteq Nat /\ Offsets \subseteq Nat /\ Ticks \in Nat
    /\ Gaps \subseteq Int /\ Trails \subseteq Int /\ Waits \subseteq Nat \ {0}

\* The trades the registry looks at: more than one bar long, a spread narrower
\* than the risk (lim13 drops a signal above a fifth of it), and no walk that
\* starts from a candidate for the stop reaches Far inside a bar.
Sensible ==
    /\ Horizon > 1 /\ Risk < Far /\ Ticks < Far
    /\ \A s \in Spreads : s < Risk /\ \A x \in Trails : s + x + Ticks < Far

VARIABLES
    plan,       \* the rules: "policy", "limit", "range", "ratchet" or "path"
    side,       \* 1 long, -1 short
    spread,
    bid,        \* the price, the bid of the entry bar's open is 0
    ticks,      \* moves left in this bar
    minutes,    \* the minute bars of this bar, the last one still growing
    j,          \* the bar, counted from the entry bar
    flipped,    \* the trend turned against the trade at the last close
    order,      \* how the trade is entered
    live,       \* the position and its orders
    sims,       \* what each simulator says so far
    over        \* the data ends here

vars == <<plan, side, spread, bid, ticks, minutes, j, flipped, order, live, sims, over>>

Plans == {"policy", "limit", "range", "ratchet", "path"}
Simulators(p) ==
    CASE p = "policy" -> {"pess", "opt", "refPess", "refAdm", "refM1"}
      [] p \in {"range", "limit"} -> {"pess", "opt"}
      [] OTHER -> {"pess"}

\* The exit side of the market, in long semantics; the entry side is the
\* spread above it.  A market entry is made at the open of the entry bar, a
\* limit order rests below the quote of the signal bar's close.
Price(x) == IF side > 0 THEN x ELSE -(x + spread)
LimitPrice(d) == Price(0) - d
Entry == order.price
Managing == plan \in {"policy", "limit"}
Target == IF Managing \/ plan = "range" THEN Entry + Runner ELSE Far

\* The orders, one stop and one target, watched at price p of bar `at`.
Watched(o, p, at) ==
    LET hit == p <= o.stop \/ p >= Target
    IN  IF o.open THEN [o EXCEPT !.open = ~hit, !.price = IF hit THEN p ELSE 0, !.at = IF hit THEN at ELSE -1,
                                 !.touched = @ \/ p >= Entry + Arm]
        ELSE o

Point(x) == [o |-> x, h |-> x, l |-> x, c |-> x]
Grown(b, x) == [b EXCEPT !.h = Max({@, x}), !.l = Min({@, x}), !.c = x]
Merged(ms) ==
    [o |-> ms[1].o, h |-> Max({ms[k].h : k \in DOMAIN ms}),
     l |-> Min({ms[k].l : k \in DOMAIN ms}), c |-> ms[Len(ms)].c]

\* A market order is filled at once; a limit order rests for `left` bars until
\* its minute comes.  It is quiet while its fill minute touches no other level.
\* A price that only touches the limit fills it for the touch result alone, which
\* is then `lead` bars older than the trade.
Market == [price |-> Price(0) + spread, left |-> 0, minute |-> 1, quiet |-> TRUE, lead |-> 0]
Limit(d, x) == [price |-> LimitPrice(d), left |-> x, minute |-> 0, quiet |-> TRUE, lead |-> 0]
Resting == order.minute = 0

Init ==
    /\ plan \in Plans /\ side \in {1, -1} /\ spread \in Spreads
    /\ bid = 0 /\ ticks = Ticks /\ minutes = <<Point(0)>>
    /\ j = 0 /\ flipped = FALSE /\ over = FALSE
    /\ order \in IF plan = "limit" THEN {Limit(d, x) : d \in Offsets, x \in Waits} ELSE {Market}
    /\ LET new == [open |-> TRUE, stop |-> Entry - Risk, touched |-> FALSE, armed |-> FALSE,
                   leave |-> FALSE, price |-> 0, at |-> -1]
       IN  live = IF Resting THEN new ELSE Watched(new, Price(0), 0)
    /\ sims = [n \in Simulators(plan) |-> Trade(Entry - Risk)]

\* Something is still open, in the account or in a simulator.
Running == ~over /\ (live.open \/ \E n \in DOMAIN sims : sims[n].open)

\* The price moves by one unit; it fills a resting order once the entry side
\* is through the limit.
Move(d) ==
    /\ Running /\ ticks > 0
    /\ ticks' = ticks - 1
    /\ bid' = bid + d
    /\ minutes' = [minutes EXCEPT ![Len(minutes)] = Grown(@, bid')]
    /\ LET p == Price(bid')
           minute == IF Resting /\ p + spread < Entry THEN Len(minutes) ELSE order.minute
           filling == plan = "limit" /\ j = 0 /\ minute = Len(minutes)
       IN  /\ live' = IF minute = 0 THEN live ELSE Watched(live, p, j)
           /\ order' = [order EXCEPT !.minute = minute,
                                     !.quiet = IF filling THEN live'.open /\ ~live'.touched ELSE @]
    /\ UNCHANGED <<plan, side, spread, j, flipped, sims, over>>

NextMinute ==
    /\ Running /\ Len(minutes) < Minutes /\ (plan = "policy" \/ (plan = "limit" /\ j = 0))
    /\ minutes' = Append(minutes, Point(bid))
    /\ UNCHANGED <<plan, side, spread, bid, ticks, j, flipped, order, live, sims, over>>

\* The minutes of this bar on the exit side, and the one that fills the order.
SubBars == [k \in DOMAIN minutes |-> RefSideBar(side, minutes[k], spread)]
FillOf(touch) == ScanFill(SubBars, Entry, spread, touch)

\* limit_trade, bar by bar: unless it is filled nothing; the bar of the fill
\* from the fill minute on; then whole bars.  `age` is the bar counted from the
\* fill.  The optimistic result is always the touch result too.
LimitBar(t, b, age, optimistic) ==
    LET fill == FillOf(optimistic)
        rest == IF fill < Len(SubBars) THEN {Merged(SubSeq(SubBars, fill + 1, Len(SubBars)))} ELSE {}
    IN  CASE age = 0 /\ fill = 0 -> t
          [] age = 0 /\ fill # 0 -> ManageFirst(t, rest, SubBars[fill].l, Entry, optimistic)
          [] OTHER -> SimulateBar(t, b, Entry, age, flipped, optimistic)

\* What each simulator makes of the bar that is over.
Judged(flip, cand) ==
    LET b == SideBar(side, Merged(minutes), spread)
        rb == RefSideBar(side, Merged(minutes), spread)
        ref(n, mode) == RefOne(sims[n], rb, SubBars, Entry, j, flipped, mode)
        bar(n) ==
            CASE plan = "policy" /\ n \in {"pess", "opt"} -> SimulateBar(sims[n], b, Entry, j, flipped, n = "opt")
              [] plan = "limit" /\ n = "pess" -> LimitBar(sims[n], b, j, FALSE)
              [] plan = "limit" /\ n = "opt" -> LimitBar(sims[n], b, order.lead + j, TRUE)
              [] n = "refPess" -> ref(n, "pess")
              [] n = "refAdm" -> ref(n, "adm")
              [] n = "refM1" -> ref(n, "m1")
              [] plan = "range" -> RangeBar(sims[n], b, Target, j, n = "opt")
              [] plan = "ratchet" -> RatchetBar(sims[n], b, j, IF flip THEN Far ELSE cand)
              [] plan = "path" -> PathBar(sims[n], b, j, flip, cand)
    IN  [n \in Simulators(plan) |-> bar(n)]

\* The orders for the next bar, decided at the close of bar j.
Managed(flip, cand) ==
    LET last == j = Horizon - 1
        leave == flip \/ (plan \in {"range", "path"} /\ j = Horizon - 2)
        stop == IF Managing THEN (IF live.touched THEN Entry ELSE live.stop)
                ELSE Higher(live.stop, cand)
    IN  IF last /\ (Managing \/ plan = "ratchet")
        THEN [live EXCEPT !.open = FALSE, !.price = Price(bid), !.at = j]
        ELSE [live EXCEPT !.stop = stop, !.armed = live.touched, !.leave = leave]

\* The next bar opens; an exit decided at the close is made at its open.
Opened(o, x) ==
    IF o.open /\ o.leave
    THEN [o EXCEPT !.open = FALSE, !.price = Price(x), !.at = j + 1]
    ELSE Watched(o, Price(x), j + 1)

\* Bar j is over: the simulators judge it, the account decides its orders for
\* the next bar, and the next bar opens, unless the data ends.  A gap inside
\* the wait of a limit order is left out.
CloseBar ==
    /\ Running /\ ~Resting
    /\ \E flip \in (IF plan = "range" THEN {FALSE} ELSE BOOLEAN),
          trail \in (IF plan \in {"ratchet", "path"} THEN Trails ELSE {-Far}),
          end \in (IF j = Horizon - 1 THEN {TRUE} ELSE BOOLEAN) : \E gap \in (IF end THEN {0} ELSE Gaps) :
         LET kept == IF live.open THEN Managed(flip, Entry + trail) ELSE live
         IN  /\ sims' = Judged(flip, Entry + trail)
             /\ over' = end
             /\ flipped' = flip
             /\ IF end
                THEN live' = kept /\ UNCHANGED <<bid, ticks, minutes, j>>
                ELSE /\ live' = Opened(kept, bid + gap)
                     /\ bid' = bid + gap
                     /\ ticks' = Ticks /\ minutes' = <<Point(bid + gap)>> /\ j' = j + 1
    /\ UNCHANGED <<plan, side, spread, order>>

\* A bar is over and the limit order still rests: it is cancelled after its
\* last bar, or when the trend turned against it; a touch of a cancelled order
\* is not followed any further.
RestOn ==
    /\ Running /\ Resting
    /\ \E flip \in BOOLEAN :
         /\ over' = (flip \/ order.left = 1)
         /\ order' = [order EXCEPT !.left = @ - 1,
                                   !.lead = IF @ > 0 \/ FillOf(TRUE) # 0 THEN @ + 1 ELSE 0]
    /\ sims' = Judged(FALSE, -Far)
    /\ ticks' = Ticks /\ minutes' = <<Point(bid)>>
    /\ UNCHANGED <<plan, side, spread, bid, j, flipped, live>>

Next == (\E d \in {-1, 1} : Move(d)) \/ NextMinute \/ CloseBar \/ RestOn
Spec == Init /\ [][Next]_vars

-----------------------------------------------------------------------------
(* What the simulators promise of the live trade *)

\* The simulators have seen the bars before this one.
Seen(at) == at < j \/ over
LiveDone == ~live.open /\ Seen(live.at)
\* Inside the minute of a limit fill the simulators do not follow the price up.
Followed == plan # "limit" \/ order.quiet
Same(s, o) == ~s.open /\ s.price = o.price /\ s.at = o.at

\* The results compared with the trade.  A limit order's touch result is not:
\* it is another trade, filled earlier.
Compared == IF plan = "limit" THEN {"pess"} ELSE Simulators(plan)

\* A limit order that was stopped in the very minute of its fill is a loss of
\* the same bar for the harness, and never a smaller one; an order that was not
\* filled is no trade.
FillMinute ==
    /\ Resting => sims["pess"] = Trade(Entry - Risk)
    /\ ~Resting /\ ~order.quiet /\ ~live.touched /\ LiveDone =>
         ~sims["pess"].open /\ sims["pess"].at = 0 /\ sims["pess"].price <= live.price

\* The harness's result is a lower bound of what the orders earned, its
\* optimistic result (of a trade entered at the market) an upper bound, and all
\* of them leave in the same bar: the order of the touches inside a bar decides
\* no more than that.
Bracket ==
    /\ plan = "limit" => FillMinute
    /\ Followed => \A n \in Compared \cap {"pess", "opt", "refAdm", "refM1"} :
         /\ ~sims[n].open => LiveDone
         /\ LiveDone => /\ ~sims[n].open /\ sims[n].at = live.at
                        /\ n = "pess" => sims[n].price <= live.price
                        /\ n \in {"opt", "refAdm"} => sims[n].price >= live.price

\* A trade that no bar was ambiguous for is the trade the orders made: the
\* same exit at the same price, armed or not.
ExactUnlessAmbiguous ==
    Followed => \A n \in Compared :
        ~sims[n].amb => /\ ~sims[n].open => LiveDone
                        /\ LiveDone => /\ Same(sims[n], live)
                                       /\ plan = "policy" => sims[n].armed = live.touched

\* Walking the minutes of an ambiguous bar gives the trade the orders made,
\* unless a minute is ambiguous itself; then the bounds still hold it.
MinutesDecide ==
    plan = "policy" /\ ~sims["refM1"].open =>
        /\ ~sims["refM1"].residual => Same(sims["refM1"], live) /\ sims["refM1"].armed = live.touched
        /\ sims["pess"].price <= sims["refM1"].price /\ sims["refM1"].price <= sims["opt"].price

\* The audit's scalar reference and the harness agree trade by trade: stop
\* first with stop first, the admissible order with the optimistic bound.
ReferenceAgrees ==
    plan = "policy" =>
        /\ sims["refPess"] = sims["pess"]
        /\ \A f \in {"open", "price", "at", "why", "amb"} : sims["refAdm"][f] = sims["opt"][f]
=============================================================================
