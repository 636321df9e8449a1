----------------------------- MODULE TradeRules -----------------------------
(***************************************************************************)
(* The trade simulators of the research registry, one bar at a time.  All  *)
(* prices are in the "long semantics" of fills.py: the exit side of the    *)
(* market (the bid for a long trade, the ask negated for a short one), so  *)
(* that stop < price < target for both sides.  A bar is [o, h, l, c].      *)
(*                                                                         *)
(* Prices are integers: Risk, Arm and Runner are R, m * R and T * R of the *)
(* management policy in price units, Horizon is H in bars.                 *)
(***************************************************************************)
EXTENDS Integers, Sequences

CONSTANTS Risk, Arm, Runner, Horizon

ASSUME PolicyAssumption ==
    /\ Risk \in Nat \ {0} /\ Horizon \in Nat \ {0}
    /\ Arm \in Nat \ {0} /\ Runner \in Nat /\ Arm < Runner

\* A price no walk reaches: "no target" (+inf), "no candidate" (-inf) and the
\* ratchet's "leave at the next open" (+inf).
Far == 1000

None == [why |-> "none", price |-> 0, amb |-> FALSE]

\* fills.resolve: gaps at the open first, then the stop before the target.
Resolve(b, stop, target) ==
    CASE b.o <= stop -> [why |-> "stop", price |-> b.o, amb |-> FALSE]
      [] b.o > stop /\ b.o >= target -> [why |-> "target", price |-> b.o, amb |-> FALSE]
      [] b.o > stop /\ b.o < target /\ b.l <= stop -> [why |-> "stop", price |-> stop, amb |-> b.h >= target]
      [] b.o > stop /\ b.o < target /\ b.l > stop /\ b.h >= target -> [why |-> "target", price |-> target, amb |-> FALSE]
      [] OTHER -> None

\* The exit side of a bid bar when the ask is `spread` above it.
SideBar_Fault(side, b, spread) ==
    IF side > 0 THEN b
    ELSE [o |-> -(b.o + spread), h |-> -(b.h + spread), l |-> -(b.l + spread), c |-> -(b.c + spread)]
SideBar(side, b, spread) ==
    IF side > 0 THEN b
    ELSE [o |-> -(b.o + spread), h |-> -(b.l + spread), l |-> -(b.h + spread), c |-> -(b.c + spread)]

\* A simulated trade.  `stop` moves in the trailing simulators only; `leave`
\* is an exit decided at a close for the next open; `residual` says that the
\* minutes of an ambiguous bar did not order its touches either.
Trade(stop) ==
    [open |-> TRUE, armed |-> FALSE, amb |-> FALSE, residual |-> FALSE, leave |-> FALSE,
     stop |-> stop, why |-> "none", price |-> 0, at |-> -1]

Closed(t, why, price, j) ==
    IF t.open THEN [t EXCEPT !.open = FALSE, !.why = why, !.price = price, !.at = j] ELSE t

Filled(t, fill, j) ==
    IF fill.why = "none" THEN t ELSE Closed(t, fill.why, fill.price, j)

AtTime(t, b, j) == IF j = Horizon - 1 THEN Closed(t, "time", b.c, j) ELSE t

Favoured(fill, target, optimistic) ==
    IF optimistic /\ fill.amb THEN [fill EXCEPT !.why = "target", !.price = target] ELSE fill

-----------------------------------------------------------------------------
(* labels_v2.simulate *)

ArmedBar_Fault(t, b, entry, j, optimistic) ==
    Filled(t, Favoured(Resolve(b, entry, entry + Runner), entry + Runner, optimistic), j)
ArmedBar(t, b, entry, j, optimistic) ==
    LET fill == Resolve(b, entry, entry + Runner)
    IN  Filled([t EXCEPT !.amb = @ \/ fill.amb], Favoured(fill, entry + Runner, optimistic), j)

\* Evaluator v1: a bar that touches the arm level and the first stop armed the
\* trade and left it alive (the path of fixture F8, no order of touches has it).
UnarmedBar_Fault(t, b, entry, j, optimistic) ==
    LET stop0 == entry - Risk
        target == entry + Runner
        fill == Favoured(Resolve(b, stop0, entry + Arm), entry + Arm, optimistic)
        v == [t EXCEPT !.armed = fill.why = "target"]
    IN  CASE fill.why = "stop" -> Closed(v, "stop", fill.price, j)
          [] fill.why = "target" /\ b.o >= entry + Arm -> Filled(v, Favoured(Resolve(b, stop0, target), target, optimistic), j)
          [] fill.why = "target" /\ b.o < entry + Arm /\ b.h >= target -> Closed(v, "target", target, j)
          [] OTHER -> v
UnarmedBar(t, b, entry, j, optimistic) ==
    LET stop0 == entry - Risk
        arm == entry + Arm
        target == entry + Runner
        touch == Resolve(b, stop0, arm)
        second == Resolve(b, stop0, target)
        newly == touch.why = "target" \/ (optimistic /\ touch.amb /\ b.h >= target)
        gap == newly /\ b.o >= arm
        v == [t EXCEPT !.armed = newly \/ (optimistic /\ touch.amb),
                       !.amb = @ \/ touch.amb \/ (gap /\ second.amb)]
    IN  CASE ~newly -> Filled(v, touch, j)
          [] gap -> Filled(v, Favoured(second, target, optimistic), j)
          [] newly /\ ~gap /\ b.h >= target -> Closed(v, "target", target, j)
          [] OTHER -> v

SimulateBar(t, b, entry, j, flipped, optimistic) ==
    LET u == IF j >= 1 /\ flipped THEN Closed(t, "flip", b.o, j) ELSE t
        v == IF u.open
             THEN IF u.armed THEN ArmedBar(u, b, entry, j, optimistic)
                             ELSE UnarmedBar(u, b, entry, j, optimistic)
             ELSE u
    IN  AtTime(v, b, j)

-----------------------------------------------------------------------------
(* The scalar reference of the audit, campaigns/v1/fixtures.py *)

RefResolve(b, stop, tgt) ==
    LET fill(why, price, amb) == [why |-> why, price |-> price, amb |-> amb]
    IN  IF b.o <= stop THEN fill("stop", b.o, FALSE)
        ELSE IF b.o >= tgt THEN fill("target", b.o, FALSE)
        ELSE IF b.l <= stop THEN fill("stop", stop, b.h >= tgt)
        ELSE IF b.h >= tgt THEN fill("target", tgt, FALSE)
        ELSE None

RefSideBar(side, b, spread) ==
    LET flip(x) == -(x + spread)
    IN  IF side > 0 THEN b ELSE [o |-> flip(b.o), h |-> flip(b.l), l |-> flip(b.h), c |-> flip(b.c)]

\* The index of the first minute that reaches a level; 0 when none does.
FirstHit(subs, stop, upper) ==
    LET hit(k) == RefResolve(subs[k], stop, upper).why # "none"
    IN  IF \E k \in DOMAIN subs : hit(k)
        THEN CHOOSE k \in DOMAIN subs : hit(k) /\ \A i \in 1..(k - 1) : ~hit(i)
        ELSE 0

WalkArmed(subs, stop, tgt) ==
    LET k == FirstHit(subs, stop, tgt)
    IN  IF k = 0 THEN None ELSE RefResolve(subs[k], stop, tgt)

\* The fill of an unarmed bar and whether the arm level came first.
WalkUnarmed_Fault(subs, stop0, arm, tgt) ==
    LET k == FirstHit(subs, stop0, arm)
        b == subs[k]
        touch == RefResolve(b, stop0, arm)
        fill == CASE b.o >= arm -> RefResolve(b, stop0, tgt)
                  [] b.o < arm /\ b.h >= tgt -> [why |-> "target", price |-> tgt, amb |-> FALSE]
                  [] OTHER -> None
    IN  CASE k = 0 -> [fill |-> None, armed |-> FALSE]
          [] k # 0 /\ touch.why = "stop" -> [fill |-> touch, armed |-> FALSE]
          [] OTHER -> [fill |-> fill, armed |-> TRUE]
WalkUnarmed(subs, stop0, arm, tgt) ==
    LET k == FirstHit(subs, stop0, arm)
        b == subs[k]
        touch == RefResolve(b, stop0, arm)
        rest == WalkArmed(SubSeq(subs, k + 1, Len(subs)), stop0, tgt)
        fill == CASE b.o >= arm -> RefResolve(b, stop0, tgt)
                  [] b.o < arm /\ b.h >= tgt -> [why |-> "target", price |-> tgt, amb |-> FALSE]
                  [] OTHER -> None
    IN  CASE k = 0 -> [fill |-> None, armed |-> FALSE]
          [] k # 0 /\ touch.why = "stop" -> [fill |-> touch, armed |-> FALSE]
          [] OTHER -> [fill |-> IF fill.why = "none" THEN rest ELSE fill, armed |-> TRUE]

\* An ambiguous bar is resolved as its mode says: stop first (pess), target
\* first (adm), or by the order of its minutes (m1).
RefOrdered(t, touch, subs, stop, tgt, mode) ==
    LET walked == WalkArmed(subs, stop, tgt)
    IN  CASE ~touch.amb \/ mode = "pess" -> [t |-> [t EXCEPT !.amb = @ \/ touch.amb], fill |-> touch]
          [] touch.amb /\ mode = "adm" ->
               [t |-> [t EXCEPT !.amb = TRUE], fill |-> [touch EXCEPT !.why = "target", !.price = tgt]]
          [] OTHER -> [t |-> [t EXCEPT !.amb = TRUE, !.residual = @ \/ walked.amb], fill |-> walked]

RefUnarmed(t, b, subs, entry, j, mode) ==
    LET stop0 == entry - Risk
        arm == entry + Arm
        tgt == entry + Runner
        touch == RefResolve(b, stop0, arm)
        second == RefOrdered([t EXCEPT !.armed = TRUE], RefResolve(b, stop0, tgt), subs, stop0, tgt, mode)
        walked == WalkUnarmed(subs, stop0, arm, tgt)
        flagged == [t EXCEPT !.amb = TRUE]
    IN  CASE touch.amb /\ mode = "adm" ->
               IF b.h >= tgt THEN Closed(flagged, "target", tgt, j) ELSE Closed(flagged, "stop", stop0, j)
          [] touch.amb /\ mode = "m1" ->
               Filled([flagged EXCEPT !.armed = walked.armed, !.residual = @ \/ walked.fill.amb], walked.fill, j)
          [] touch.amb /\ mode = "pess" -> Filled(flagged, touch, j)
          [] ~touch.amb /\ touch.why = "target" /\ b.o >= arm -> Filled(second.t, second.fill, j)
          [] ~touch.amb /\ touch.why = "target" /\ b.o < arm ->
               LET v == [t EXCEPT !.armed = TRUE]
               IN  IF b.h >= tgt THEN Closed(v, "target", tgt, j) ELSE v
          [] OTHER -> Filled(t, touch, j)

RefOne(t, b, subs, entry, j, flipped, mode) ==
    LET managed == RefOrdered(t, RefResolve(b, entry, entry + Runner), subs, entry, entry + Runner, mode)
        v == CASE ~t.open -> t
               [] t.open /\ j >= 1 /\ flipped -> Closed(t, "flip", b.o, j)
               [] t.open /\ ~(j >= 1 /\ flipped) /\ t.armed -> Filled(managed.t, managed.fill, j)
               [] OTHER -> RefUnarmed(t, b, subs, entry, j, mode)
    IN  AtTime(v, b, j)

-----------------------------------------------------------------------------
(* lim13: a resting limit order, then simulate's management (manage copies *)
(* it line by line) from the bar of the fill on.                           *)

\* The first minute whose entry side trades strictly through the limit, or, for
\* the touch result, up to it; 0 when none does.  The entry side is the exit
\* side plus the spread.
ScanFill(subs, limit, spread, touch) ==
    LET through(k) == subs[k].l + spread < limit \/ (touch /\ subs[k].l + spread = limit)
    IN  IF \E k \in DOMAIN subs : through(k)
        THEN CHOOSE k \in DOMAIN subs : through(k) /\ \A i \in 1..(k - 1) : ~through(i)
        ELSE 0

\* The bar of the fill: what is left of it after the fill minute (`rest`, if
\* anything), and the low of the fill minute, where the order of the fill and
\* the stop is unknown: stop first, unless optimistic.
ManageFirst(t, rest, low, entry, optimistic) ==
    LET stop0 == entry - Risk
    IN  CASE low <= stop0 /\ ~optimistic -> Closed(t, "stop", stop0, 0)
          [] (low > stop0 \/ optimistic) /\ rest # {} ->
               SimulateBar(t, CHOOSE b \in rest : TRUE, entry, 0, FALSE, optimistic)
          [] OTHER -> t

-----------------------------------------------------------------------------
(* dt14.range_sim (orb15 and sess25 use it too): a fixed stop, a fixed     *)
(* target, out at the open of bar `last`.                                  *)

RangeBar(t, b, target, j, optimistic) ==
    LET fill == Resolve(b, t.stop, target)
    IN  IF j >= Horizon - 1 THEN Closed(t, "end", b.o, j)
        ELSE Filled([t EXCEPT !.amb = @ \/ (t.open /\ fill.amb)], Favoured(fill, target, optimistic), j)

Higher(a, b) == IF a > b THEN a ELSE b

\* wave23.sim_trade: the stop of a bar is fixed before it opens, and each
\* close may raise it to a candidate (Far: the trend turned, out at the open).
RatchetBar(t, b, j, cand) ==
    LET u == AtTime(Filled(t, Resolve(b, t.stop, Far), j), b, j)
    IN  [u EXCEPT !.stop = IF u.open THEN Higher(@, cand) ELSE @]

\* mw6.sim_path: the same stop, and an exit decided at a close leaves at the
\* next open.
PathBar(t, b, j, exitSignal, cand) ==
    LET u == IF t.leave THEN Closed(t, "exit", b.o, j) ELSE Filled(t, Resolve(b, t.stop, Far), j)
        out == j + 1 >= Horizon - 1 \/ exitSignal
    IN  CASE ~u.open -> u
          [] u.open /\ out -> [u EXCEPT !.leave = TRUE]
          [] OTHER -> [u EXCEPT !.stop = Higher(@, cand)]
=============================================================================
