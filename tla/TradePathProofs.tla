---------------------------- MODULE TradePathProofs ----------------------------
(***************************************************************************)
(* The trade simulators of the research registry, for any prices, spreads, *)
(* gaps and minutes.                                                       *)
(*                                                                         *)
(* A simulator is a case distinction over one bar.  The first half of the  *)
(* module reads each of them as a table: which bar leads to which trade.   *)
(* Tables of two simulators are compared row by row; the invariant says    *)
(* which trades are compared: fresh ones, armed or not, and closed ones.   *)
(***************************************************************************)
EXTENDS TradePath, FiniteSetTheorems, WellFoundedInduction, SequenceTheorems, TLAPS

Lives == [open : BOOLEAN, stop : Int, touched : BOOLEAN, armed : BOOLEAN, leave : BOOLEAN, price : Int, at : Int]
MinuteBars == {b \in [o : Int, h : Int, l : Int, c : Int] : b.l <= b.o /\ b.o <= b.h /\ b.l <= b.c /\ b.c <= b.h}
Orders == [price : Int, left : Int, minute : Nat, quiet : BOOLEAN, lead : Int]

\* What a minute m in which a stop S or a target T is reached fills at.
Stops(m, S, T, price) ==
  IF m.o <= S \/ m.o >= T THEN price = m.o ELSE (price = S /\ m.l <= S) \/ (price = T /\ m.h >= T)

HitAt(W, k, S, T, A, o) ==
  /\ \A i \in 1..(k - 1) : W[i].l > S /\ W[i].h < T
  /\ W[k].l <= S \/ W[k].h >= T
  /\ Stops(W[k], S, T, o.price)
  /\ k = 1 \/ (S < W[k].o /\ W[k].o < T)
  /\ o.armed \/ (\E i \in 1..(k - 1) : W[i].h >= A) \/ W[k].o >= A \/ o.price >= A => o.touched
  /\ o.touched => o.armed \/ \E i \in 1..k : W[i].h >= A
  /\ W[k].o <= S /\ W[k].o < A /\ o.touched => o.armed

Outcome(W, n, S, T, A, o) ==
  /\ o.open => /\ \A k \in 1..n : W[k].l > S /\ W[k].h < T
               /\ o.touched <=> (o.armed \/ \E k \in 1..n : W[k].h >= A)
  /\ ~o.open => \E k \in 1..n : HitAt(W, k, S, T, A, o)


-----------------------------------------------------------------------------
(* Bars                                                                    *)

\* The bar of the n minutes of W.
Covers(b, W, n) ==
  /\ n \in Nat \ {0} /\ b \in MinuteBars
  /\ \A k \in 1..n : W[k] \in MinuteBars /\ b.l <= W[k].l /\ W[k].h <= b.h
  /\ b.o = W[1].o /\ b.c = W[n].c
  /\ \E k \in 1..n : b.l = W[k].l
  /\ \E k \in 1..n : b.h = W[k].h

\* What the bar tells of the orders watched through it.
BarOutcome(b, S, T, A, o) ==
  /\ o.open => b.l > S /\ b.h < T /\ (o.touched <=> (o.armed \/ b.h >= A))
  /\ ~o.open => /\ b.l <= S \/ b.h >= T
                /\ Stops(b, S, T, o.price)
                /\ o.armed \/ b.o >= A \/ o.price >= A => o.touched
                /\ o.touched => o.armed \/ b.h >= A
                /\ b.o <= S /\ b.o < A /\ o.touched => o.armed

LEMMA BarOf ==
  ASSUME NEW b, NEW W, NEW n, Covers(b, W, n), NEW S \in Int, NEW T \in Int, NEW A \in Int,
         NEW o \in Lives, Outcome(W, n, S, T, A, o)
  PROVE  BarOutcome(b, S, T, A, o)
<1>0. n \in Nat /\ n > 0
  BY DEF Covers
<1>1. b.o \in Int /\ b.h \in Int /\ b.l \in Int /\ b.c \in Int /\ b.l <= b.o /\ b.o <= b.h
  BY DEF Covers, MinuteBars
<1>2. \A k \in 1..n : /\ W[k].o \in Int /\ W[k].h \in Int /\ W[k].l \in Int /\ W[k].l <= W[k].o /\ W[k].o <= W[k].h
                      /\ b.l <= W[k].l /\ W[k].h <= b.h
  BY DEF Covers, MinuteBars
<1>3. PICK x \in 1..n : b.l = W[x].l
  BY DEF Covers
<1>4. PICK y \in 1..n : b.h = W[y].h
  BY DEF Covers
<1>5. CASE o.open
  <2>1. /\ \A k \in 1..n : W[k].l > S /\ W[k].h < T
        /\ o.touched <=> (o.armed \/ \E k \in 1..n : W[k].h >= A)
    BY <1>5 DEF Outcome
  <2>2. b.l > S /\ b.h < T
    BY <2>1, <1>3, <1>4
  <2>3. b.h >= A <=> \E k \in 1..n : W[k].h >= A
    BY <1>1, <1>2, <1>4
  <2>4. QED
    BY <1>5, <2>1, <2>2, <2>3 DEF BarOutcome
<1>6. CASE ~o.open
  <2>1. PICK k \in 1..n : HitAt(W, k, S, T, A, o)
    BY <1>6 DEF Outcome
  <2>2. k \in Int /\ 1 <= k /\ k <= n /\ o.price \in Int
    BY <1>0 DEF Lives
  <2>3. b.l <= S \/ b.h >= T
    BY <1>1, <1>2, <2>1 DEF HitAt
  <2>4. b.o = W[1].o
    BY DEF Covers
  <2>5. Stops(b, S, T, o.price)
    <3>1. CASE k = 1
      BY <3>1, <2>1, <2>4, <1>1, <1>2 DEF HitAt, Stops
    <3>2. CASE k # 1
      <4>1. 1 \in 1..(k - 1) /\ 1 \in 1..n
        BY <3>2, <2>2, <1>0
      <4>2. W[1].l > S /\ W[1].h < T
        BY <2>1, <4>1 DEF HitAt
      <4>3. ~(b.o <= S \/ b.o >= T)
        BY <4>1, <4>2, <2>4, <1>2
      <4>4. ~(W[k].o <= S \/ W[k].o >= T)
        BY <3>2, <2>1, <1>2 DEF HitAt
      <4>5. (o.price = S /\ W[k].l <= S) \/ (o.price = T /\ W[k].h >= T)
        BY <2>1, <4>4 DEF HitAt, Stops
      <4>6. (o.price = S /\ b.l <= S) \/ (o.price = T /\ b.h >= T)
        BY <4>5, <1>1, <1>2
      <4>7. QED
        BY <4>3, <4>6 DEF Stops
    <3>3. QED
      BY <3>1, <3>2
  <2>6. o.armed \/ b.o >= A \/ o.price >= A => o.touched
    <3>1. CASE k = 1
      BY <3>1, <2>1, <2>4 DEF HitAt
    <3>2. CASE k # 1
      <4>1. 1 \in 1..(k - 1) /\ 1 \in 1..n
        BY <3>2, <2>2, <1>0
      <4>2. b.o >= A => W[1].h >= A
        BY <4>1, <2>4, <1>2
      <4>3. QED
        BY <4>1, <4>2, <2>1 DEF HitAt
    <3>3. QED
      BY <3>1, <3>2
  <2>7. o.touched => o.armed \/ b.h >= A
    <3>1. \A i \in 1..k : i \in 1..n
      BY <2>2, <1>0
    <3>2. QED
      BY <3>1, <2>1, <1>1, <1>2 DEF HitAt
  <2>8. b.o <= S /\ b.o < A /\ o.touched => o.armed
    <3>1. CASE k = 1
      BY <3>1, <2>1, <2>4 DEF HitAt
    <3>2. CASE k # 1
      <4>1. 1 \in 1..(k - 1) /\ 1 \in 1..n
        BY <3>2, <2>2, <1>0
      <4>2. W[1].l > S
        BY <2>1, <4>1 DEF HitAt
      <4>3. ~(b.o <= S)
        BY <4>1, <4>2, <2>4, <1>2
      <4>4. QED
        BY <4>3
    <3>3. QED
      BY <3>1, <3>2
  <2>9. QED
    BY <1>6, <2>3, <2>5, <2>6, <2>7, <2>8 DEF BarOutcome
<1>7. QED
  BY <1>5, <1>6

LEMMA ResolveSame ==
  ASSUME NEW b \in MinuteBars, NEW S \in Int, NEW T \in Int
  PROVE  RefResolve(b, S, T) = Resolve(b, S, T)
<1>1. b.o \in Int /\ b.h \in Int /\ b.l \in Int
  BY DEF MinuteBars
<1>2. QED
  BY <1>1 DEF RefResolve, Resolve

Fill(why, price, amb) == [why |-> why, price |-> price, amb |-> amb]

\* The fill of a bar b against a stop S and a target T, case by case.
ResolvedAs(fill, b, S, T) ==
  /\ b.o <= S => fill = Fill("stop", b.o, FALSE)
  /\ b.o > S /\ b.o >= T => fill = Fill("target", b.o, FALSE)
  /\ S < b.o /\ b.o < T /\ b.l <= S /\ b.h >= T => fill = Fill("stop", S, TRUE)
  /\ S < b.o /\ b.o < T /\ b.l <= S /\ b.h < T => fill = Fill("stop", S, FALSE)
  /\ S < b.o /\ b.o < T /\ b.l > S /\ b.h >= T => fill = Fill("target", T, FALSE)
  /\ S < b.o /\ b.o < T /\ b.l > S /\ b.h < T => fill = None

LEMMA ResolveCases ==
  ASSUME NEW b \in MinuteBars, NEW S \in Int, NEW T \in Int
  PROVE  ResolvedAs(Resolve(b, S, T), b, S, T)
<1> DEFINE x == b.h >= T
<1>1. b.o \in Int /\ b.h \in Int /\ b.l \in Int
  BY DEF MinuteBars
<1>2. S < b.o /\ b.o < T /\ b.l <= S => Resolve(b, S, T) = [why |-> "stop", price |-> S, amb |-> x]
  BY <1>1 DEF Resolve
<1>3. (b.h >= T => x = TRUE) /\ (b.h < T => x = FALSE)
  BY <1>1
<1> HIDE DEF x
<1>4. x = TRUE => [why |-> "stop", price |-> S, amb |-> x] = Fill("stop", S, TRUE)
  BY Zenon DEF Fill
<1>5. x = FALSE => [why |-> "stop", price |-> S, amb |-> x] = Fill("stop", S, FALSE)
  BY Zenon DEF Fill
<1>6. /\ S < b.o /\ b.o < T /\ b.l <= S /\ b.h >= T => Resolve(b, S, T) = Fill("stop", S, TRUE)
      /\ S < b.o /\ b.o < T /\ b.l <= S /\ b.h < T => Resolve(b, S, T) = Fill("stop", S, FALSE)
  BY <1>2, <1>3, <1>4, <1>5
<1>7. /\ b.o <= S => Resolve(b, S, T) = Fill("stop", b.o, FALSE)
      /\ b.o > S /\ b.o >= T => Resolve(b, S, T) = Fill("target", b.o, FALSE)
      /\ S < b.o /\ b.o < T /\ b.l > S /\ b.h >= T => Resolve(b, S, T) = Fill("target", T, FALSE)
      /\ S < b.o /\ b.o < T /\ b.l > S /\ b.h < T => Resolve(b, S, T) = None
  BY <1>1 DEF Resolve, Fill
<1>8. QED
  BY <1>6, <1>7 DEF ResolvedAs

\* A bar in which the orders are filled, or are not.
Reaches(b, S, T) == b.l <= S \/ b.h >= T
Ends(b, S, T, o) ==
  /\ o.open => ~Reaches(b, S, T)
  /\ ~o.open => Reaches(b, S, T) /\ Stops(b, S, T, o.price)

\* Where a level is reached, the order's price lies between the two readings.
Fits(r, S, T, o) ==
  /\ o.open => r = None
  /\ ~o.open => /\ r.why \in {"stop", "target"} /\ r.price \in Int /\ r.price <= o.price
                /\ r.amb = TRUE => r.why = "stop" /\ r.price = S /\ o.price <= T
                /\ r.amb = FALSE => r.price = o.price
                /\ r.amb = TRUE \/ r.amb = FALSE

LEMMA FillFits ==
  ASSUME NEW b \in MinuteBars, NEW S \in Int, NEW T \in Int, S <= T, NEW o \in Lives, Ends(b, S, T, o)
  PROVE  Fits(Resolve(b, S, T), S, T, o)
<1> DEFINE r == Resolve(b, S, T)
<1>1. b.o \in Int /\ b.h \in Int /\ b.l \in Int /\ b.l <= b.o /\ b.o <= b.h /\ o.price \in Int
  BY DEF MinuteBars, Lives
<1>2. CASE o.open
  <2>1. b.l > S /\ b.h < T
    BY <1>1, <1>2 DEF Ends, Reaches
  <2>2. S < b.o /\ b.o < T
    BY <1>1, <2>1
  <2>c. ResolvedAs(Resolve(b, S, T), b, S, T)
    BY ResolveCases
  <2>3. Resolve(b, S, T) = None
    BY <2>1, <2>2, <2>c DEF ResolvedAs
  <2>4. QED
    BY <1>2, <2>3 DEF Fits
<1>3. CASE ~o.open
  <2>a. Stops(b, S, T, o.price) /\ (b.l <= S \/ b.h >= T)
    BY <1>3 DEF Ends, Reaches
  <2>b. \A why, price : /\ Fill(why, price, TRUE).why = why /\ Fill(why, price, TRUE).price = price /\ Fill(why, price, TRUE).amb = TRUE
                        /\ Fill(why, price, FALSE).why = why /\ Fill(why, price, FALSE).price = price /\ Fill(why, price, FALSE).amb = FALSE
    BY DEF Fill
  <2>r. /\ b.o <= S => r = Fill("stop", b.o, FALSE)
        /\ b.o > S /\ b.o >= T => r = Fill("target", b.o, FALSE)
        /\ S < b.o /\ b.o < T /\ b.l <= S /\ b.h >= T => r = Fill("stop", S, TRUE)
        /\ S < b.o /\ b.o < T /\ b.l <= S /\ b.h < T => r = Fill("stop", S, FALSE)
        /\ S < b.o /\ b.o < T /\ b.l > S /\ b.h >= T => r = Fill("target", T, FALSE)
    <3>1. ResolvedAs(r, b, S, T)
      BY ResolveCases
    <3> HIDE DEF r
    <3>2. QED
      BY <3>1 DEF ResolvedAs
  <2> HIDE DEF r
  <2>c. ASSUME NEW why \in {"stop", "target"}, r = Fill(why, o.price, FALSE)
        PROVE  Fits(r, S, T, o)
    <3>1. r.why = why /\ r.price = o.price /\ r.amb = FALSE
      BY <2>c DEF Fill
    <3>2. QED
      BY <1>1, <1>3, <3>1 DEF Fits
  <2>1. CASE b.o <= S
    <3>a. o.price = b.o
      BY <1>1, <2>a, <2>1 DEF Stops
    <3>b. r = Fill("stop", b.o, FALSE)
      BY <1>1, <2>1, <2>r
    <3>1. r = Fill("stop", o.price, FALSE)
      BY <3>a, <3>b
    <3>2. QED
      BY <2>c, <3>1 DEF r
  <2>2. CASE b.o > S /\ b.o >= T
    <3>a. o.price = b.o
      BY <1>1, <2>a, <2>2 DEF Stops
    <3>b. r = Fill("target", b.o, FALSE)
      BY <1>1, <2>2, <2>r
    <3>1. r = Fill("target", o.price, FALSE)
      BY <3>a, <3>b
    <3>2. QED
      BY <2>c, <3>1 DEF r
  <2>3. CASE b.o > S /\ b.o < T /\ b.l <= S /\ b.h >= T
    <3>1. r = Fill("stop", S, TRUE)
      BY <1>1, <2>3, <2>r
    <3>2. o.price = S \/ o.price = T
      BY <1>1, <2>a, <2>3 DEF Stops
    <3>3. r.why = "stop" /\ r.price = S /\ r.amb = TRUE
      BY <2>b, <3>1
    <3>4. Fits(r, S, T, o)
      BY <1>1, <1>3, <3>2, <3>3 DEF Fits
    <3>5. QED
      BY <3>4 DEF r
  <2>4. CASE b.o > S /\ b.o < T /\ b.l <= S /\ b.h < T
    <3>a. o.price = S
      BY <1>1, <2>a, <2>4 DEF Stops
    <3>b. r = Fill("stop", S, FALSE)
      BY <1>1, <2>4, <2>r
    <3>1. r = Fill("stop", o.price, FALSE)
      BY <3>a, <3>b
    <3>2. QED
      BY <2>c, <3>1 DEF r
  <2>5. CASE b.o > S /\ b.o < T /\ b.l > S
    <3>a. o.price = T /\ b.h >= T
      BY <1>1, <2>a, <2>5 DEF Stops
    <3>b. r = Fill("target", T, FALSE)
      BY <1>1, <2>5, <2>r, <3>a
    <3>1. r = Fill("target", o.price, FALSE)
      BY <3>a, <3>b
    <3>2. QED
      BY <2>c, <3>1 DEF r
  <2>6. QED
    BY <1>1, <2>1, <2>2, <2>3, <2>4, <2>5
<1>4. QED
  BY <1>2, <1>3

-----------------------------------------------------------------------------
(* What the harness makes of one bar of a managed trade, row by row.       *)

Clean(armed, stop) ==
  [open |-> TRUE, armed |-> armed, amb |-> FALSE, residual |-> FALSE, leave |-> FALSE,
   stop |-> stop, why |-> "none", price |-> 0, at |-> -1]
Done(armed, amb, stop, why, price, at) ==
  [open |-> FALSE, armed |-> armed, amb |-> amb, residual |-> FALSE, leave |-> FALSE,
   stop |-> stop, why |-> why, price |-> price, at |-> at]

Marked(armed, stop) ==
  [open |-> TRUE, armed |-> armed, amb |-> TRUE, residual |-> FALSE, leave |-> FALSE,
   stop |-> stop, why |-> "none", price |-> 0, at |-> -1]

LEMMA Marking ==
  ASSUME NEW s, NEW am, NEW ar
  PROVE  /\ am = FALSE => [Clean(TRUE, s) EXCEPT !.amb = am] = Clean(TRUE, s)
         /\ am = TRUE => [Clean(TRUE, s) EXCEPT !.amb = am] = Marked(TRUE, s)
         /\ ar = FALSE /\ am = FALSE => [Clean(FALSE, s) EXCEPT !.armed = ar, !.amb = am] = Clean(FALSE, s)
         /\ ar = TRUE /\ am = FALSE => [Clean(FALSE, s) EXCEPT !.armed = ar, !.amb = am] = Clean(TRUE, s)
         /\ ar = FALSE /\ am = TRUE => [Clean(FALSE, s) EXCEPT !.armed = ar, !.amb = am] = Marked(FALSE, s)
         /\ ar = TRUE /\ am = TRUE => [Clean(FALSE, s) EXCEPT !.armed = ar, !.amb = am] = Marked(TRUE, s)
<1>1. ASSUME NEW q, q = [Clean(TRUE, s) EXCEPT !.amb = am]
      PROVE  /\ am = FALSE => q = Clean(TRUE, s)
             /\ am = TRUE => q = Marked(TRUE, s)
  BY <1>1 DEF Clean, Marked
<1>2. ASSUME NEW q, q = [Clean(FALSE, s) EXCEPT !.armed = ar, !.amb = am]
      PROVE  /\ ar = FALSE /\ am = FALSE => q = Clean(FALSE, s)
             /\ ar = TRUE /\ am = FALSE => q = Clean(TRUE, s)
             /\ ar = FALSE /\ am = TRUE => q = Marked(FALSE, s)
             /\ ar = TRUE /\ am = TRUE => q = Marked(TRUE, s)
  BY <1>2 DEF Clean, Marked
<1>3. QED
  BY Zenon, <1>1, <1>2

LEMMA ClosedClean ==
  ASSUME NEW armed, NEW s, NEW why, NEW price, NEW at
  PROVE  Closed(Clean(armed, s), why, price, at) = Done(armed, FALSE, s, why, price, at)
BY DEF Closed, Clean, Done

LEMMA ClosedMarked ==
  ASSUME NEW armed, NEW s, NEW why, NEW price, NEW at
  PROVE  Closed(Marked(armed, s), why, price, at) = Done(armed, TRUE, s, why, price, at)
BY DEF Closed, Marked, Done

LEMMA StopCloses ==
  ASSUME NEW t, NEW price, NEW amb, NEW at
  PROVE  Filled(t, Fill("stop", price, amb), at) = Closed(t, "stop", price, at)
BY DEF Filled, Fill

LEMMA TargetCloses ==
  ASSUME NEW t, NEW price, NEW amb, NEW at
  PROVE  Filled(t, Fill("target", price, amb), at) = Closed(t, "target", price, at)
BY DEF Filled, Fill

LEMMA StopFillsClean ==
  ASSUME NEW armed, NEW s, NEW price, NEW at
  PROVE  Filled(Clean(armed, s), Fill("stop", price, FALSE), at) = Done(armed, FALSE, s, "stop", price, at)
<1>1. Filled(Clean(armed, s), Fill("stop", price, FALSE), at) = Closed(Clean(armed, s), "stop", price, at)
  BY Zenon, StopCloses
<1>2. Closed(Clean(armed, s), "stop", price, at) = Done(armed, FALSE, s, "stop", price, at)
  BY Zenon, ClosedClean
<1>3. QED
  BY <1>1, <1>2

LEMMA TargetFillsClean ==
  ASSUME NEW armed, NEW s, NEW price, NEW at
  PROVE  Filled(Clean(armed, s), Fill("target", price, FALSE), at) = Done(armed, FALSE, s, "target", price, at)
<1>1. Filled(Clean(armed, s), Fill("target", price, FALSE), at) = Closed(Clean(armed, s), "target", price, at)
  BY Zenon, TargetCloses
<1>2. Closed(Clean(armed, s), "target", price, at) = Done(armed, FALSE, s, "target", price, at)
  BY Zenon, ClosedClean
<1>3. QED
  BY <1>1, <1>2

LEMMA StopFillsMarked ==
  ASSUME NEW armed, NEW s, NEW price, NEW at
  PROVE  Filled(Marked(armed, s), Fill("stop", price, TRUE), at) = Done(armed, TRUE, s, "stop", price, at)
<1>1. Filled(Marked(armed, s), Fill("stop", price, TRUE), at) = Closed(Marked(armed, s), "stop", price, at)
  BY Zenon, StopCloses
<1>2. Closed(Marked(armed, s), "stop", price, at) = Done(armed, TRUE, s, "stop", price, at)
  BY Zenon, ClosedMarked
<1>3. QED
  BY <1>1, <1>2

LEMMA TargetFillsMarked ==
  ASSUME NEW armed, NEW s, NEW price, NEW at
  PROVE  Filled(Marked(armed, s), Fill("target", price, TRUE), at) = Done(armed, TRUE, s, "target", price, at)
<1>1. Filled(Marked(armed, s), Fill("target", price, TRUE), at) = Closed(Marked(armed, s), "target", price, at)
  BY Zenon, TargetCloses
<1>2. Closed(Marked(armed, s), "target", price, at) = Done(armed, TRUE, s, "target", price, at)
  BY Zenon, ClosedMarked
<1>3. QED
  BY <1>1, <1>2

LEMMA FilledNone ==
  ASSUME NEW t, NEW at
  PROVE  Filled(t, None, at) = t
  BY DEF Filled, None

LEMMA FavouredRows ==
  ASSUME NEW T, NEW optimistic
  PROVE  /\ \A fill : fill.amb = FALSE => Favoured(fill, T, optimistic) = fill
         /\ Favoured(None, T, optimistic) = None
         /\ \A price : optimistic = TRUE => Favoured(Fill("stop", price, TRUE), T, optimistic) = Fill("target", T, TRUE)
         /\ \A price : optimistic = FALSE => Favoured(Fill("stop", price, TRUE), T, optimistic) = Fill("stop", price, TRUE)
<1>2. None.amb = FALSE
  BY DEF None
<1>3. /\ \A fill : fill.amb = FALSE => Favoured(fill, T, optimistic) = fill
      /\ Favoured(None, T, optimistic) = None
  BY <1>2 DEF Favoured
<1>4. ASSUME NEW price, NEW q, q = Favoured(Fill("stop", price, TRUE), T, optimistic)
      PROVE  /\ optimistic = TRUE => q = Fill("target", T, TRUE)
             /\ optimistic = FALSE => q = Fill("stop", price, TRUE)
  BY <1>4 DEF Favoured, Fill
<1>5. QED
  BY <1>3, <1>4

\* Rows of a bar b against a stop S and a target T.
Inside(b, S, T) == S < b.o /\ b.o < T
Falls(b, S) == b.l <= S
Climbs(b, T) == b.h >= T

\* The fill of a bar b against a stop S and a target T, row by row.
LEMMA ResolveRows ==
  ASSUME NEW b \in MinuteBars, NEW S \in Int, NEW T \in Int
  PROVE  /\ b.o <= S => Resolve(b, S, T) = Fill("stop", b.o, FALSE)
         /\ b.o > S /\ b.o >= T => Resolve(b, S, T) = Fill("target", b.o, FALSE)
         /\ Inside(b, S, T) /\ Falls(b, S) /\ Climbs(b, T) => Resolve(b, S, T) = Fill("stop", S, TRUE)
         /\ Inside(b, S, T) /\ Falls(b, S) /\ ~Climbs(b, T) => Resolve(b, S, T) = Fill("stop", S, FALSE)
         /\ Inside(b, S, T) /\ ~Falls(b, S) /\ Climbs(b, T) => Resolve(b, S, T) = Fill("target", T, FALSE)
         /\ Inside(b, S, T) /\ ~Falls(b, S) /\ ~Climbs(b, T) => Resolve(b, S, T) = None
<1>1. b.o \in Int /\ b.h \in Int /\ b.l \in Int
  BY DEF MinuteBars
<1>2. /\ Falls(b, S) <=> b.l <= S
      /\ ~Falls(b, S) <=> b.l > S
      /\ Climbs(b, T) <=> b.h >= T
      /\ ~Climbs(b, T) <=> b.h < T
      /\ Inside(b, S, T) <=> S < b.o /\ b.o < T
  BY <1>1 DEF Falls, Climbs, Inside
<1> DEFINE r == Resolve(b, S, T)
<1>3. /\ b.o <= S => r = Fill("stop", b.o, FALSE)
      /\ b.o > S /\ b.o >= T => r = Fill("target", b.o, FALSE)
      /\ S < b.o /\ b.o < T /\ b.l <= S /\ b.h >= T => r = Fill("stop", S, TRUE)
      /\ S < b.o /\ b.o < T /\ b.l <= S /\ b.h < T => r = Fill("stop", S, FALSE)
      /\ S < b.o /\ b.o < T /\ b.l > S /\ b.h >= T => r = Fill("target", T, FALSE)
      /\ S < b.o /\ b.o < T /\ b.l > S /\ b.h < T => r = None
  <2>1. ResolvedAs(r, b, S, T)
    BY ResolveCases
  <2> HIDE DEF r
  <2>2. QED
    BY <2>1 DEF ResolvedAs
<1> HIDE DEF r
<1>4. QED
  BY <1>2, <1>3 DEF r

\* The same as a table, to be instantiated whole.
ResolveTable(fill, b, S, T) ==
  /\ b.o <= S => fill = Fill("stop", b.o, FALSE)
  /\ b.o > S /\ b.o >= T => fill = Fill("target", b.o, FALSE)
  /\ Inside(b, S, T) /\ Falls(b, S) /\ Climbs(b, T) => fill = Fill("stop", S, TRUE)
  /\ Inside(b, S, T) /\ Falls(b, S) /\ ~Climbs(b, T) => fill = Fill("stop", S, FALSE)
  /\ Inside(b, S, T) /\ ~Falls(b, S) /\ Climbs(b, T) => fill = Fill("target", T, FALSE)
  /\ Inside(b, S, T) /\ ~Falls(b, S) /\ ~Climbs(b, T) => fill = None

LEMMA ResolveTabled ==
  ASSUME NEW b \in MinuteBars, NEW S \in Int, NEW T \in Int
  PROVE  ResolveTable(Resolve(b, S, T), b, S, T)
BY ResolveRows DEF ResolveTable

ArmedTable(v, b, e, s, at, optimistic) ==
  LET T == e + Runner
  IN  /\ b.o <= e => v = Done(TRUE, FALSE, s, "stop", b.o, at)
      /\ b.o > e /\ b.o >= T => v = Done(TRUE, FALSE, s, "target", b.o, at)
      /\ Inside(b, e, T) /\ Falls(b, e) /\ Climbs(b, T) =>
           v = (IF optimistic THEN Done(TRUE, TRUE, s, "target", T, at) ELSE Done(TRUE, TRUE, s, "stop", e, at))
      /\ Inside(b, e, T) /\ Falls(b, e) /\ ~Climbs(b, T) => v = Done(TRUE, FALSE, s, "stop", e, at)
      /\ Inside(b, e, T) /\ ~Falls(b, e) /\ Climbs(b, T) => v = Done(TRUE, FALSE, s, "target", T, at)
      /\ Inside(b, e, T) /\ ~Falls(b, e) /\ ~Climbs(b, T) => v = Clean(TRUE, s)

LEMMA ArmedRows ==
  ASSUME NEW b \in MinuteBars, NEW e \in Int, NEW s, NEW at, NEW optimistic \in BOOLEAN
  PROVE  ArmedTable(ArmedBar(Clean(TRUE, s), b, e, at, optimistic), b, e, s, at, optimistic)
<1> DEFINE T == e + Runner
           t == Clean(TRUE, s)
           fill == Resolve(b, e, T)
           am == t.amb \/ fill.amb
           v == ArmedBar(Clean(TRUE, s), b, e, at, optimistic)
<1>0. T \in Int /\ b.o \in Int /\ b.l \in Int /\ b.h \in Int
  BY PolicyAssumption DEF MinuteBars
<1>1. v = Filled([t EXCEPT !.amb = am], Favoured(fill, T, optimistic), at)
  BY DEF ArmedBar
<1>2. t.amb = FALSE
  BY DEF Clean
<1>3. /\ b.o <= e => fill = Fill("stop", b.o, FALSE)
      /\ b.o > e /\ b.o >= T => fill = Fill("target", b.o, FALSE)
      /\ Inside(b, e, T) /\ Falls(b, e) /\ Climbs(b, T) => fill = Fill("stop", e, TRUE)
      /\ Inside(b, e, T) /\ Falls(b, e) /\ ~Climbs(b, T) => fill = Fill("stop", e, FALSE)
      /\ Inside(b, e, T) /\ ~Falls(b, e) /\ Climbs(b, T) => fill = Fill("target", T, FALSE)
      /\ Inside(b, e, T) /\ ~Falls(b, e) /\ ~Climbs(b, T) => fill = None
  <2> HIDE DEF T
  <2>1. QED
    BY <1>0, ResolveRows
<1>4. /\ fill.amb = TRUE => am = TRUE
      /\ fill.amb = FALSE => am = FALSE
  BY <1>2
<1> HIDE DEF T, fill, am, v
<1>a. /\ am = FALSE => [t EXCEPT !.amb = am] = Clean(TRUE, s)
      /\ am = TRUE => [t EXCEPT !.amb = am] = Marked(TRUE, s)
  BY Marking
<1>b. /\ \A why, price : Fill(why, price, FALSE).amb = FALSE /\ Fill(why, price, TRUE).amb = TRUE
      /\ None.amb = FALSE
  BY DEF Fill, None
<1> HIDE DEF t
<1>5. ASSUME NEW why \in {"stop", "target"}, NEW price, fill = Fill(why, price, FALSE)
      PROVE  v = Done(TRUE, FALSE, s, why, price, at)
  <2>1. v = Filled(Clean(TRUE, s), Fill(why, price, FALSE), at)
    <3>1. [t EXCEPT !.amb = am] = Clean(TRUE, s)
      BY <1>4, <1>5, <1>a, <1>b
    <3>2. Favoured(fill, T, optimistic) = Fill(why, price, FALSE)
      <4>1. fill.amb = FALSE
        BY <1>5, <1>b
      <4>2. Favoured(fill, T, optimistic) = fill
        BY <4>1 DEF Favoured
      <4>3. QED
        BY <4>2, <1>5
    <3>3. QED
      BY <1>1, <3>1, <3>2
  <2>2. QED
    <3>1. CASE why = "stop"
      BY Zenon, <2>1, <3>1, StopFillsClean
    <3>2. CASE why = "target"
      BY Zenon, <2>1, <3>2, TargetFillsClean
    <3>3. QED
      BY <1>5, <3>1, <3>2
<1>6. ASSUME fill = None PROVE v = Clean(TRUE, s)
  <2>1. v = Filled(Clean(TRUE, s), None, at)
    BY <1>1, <1>4, <1>6, <1>a, <1>b, FavouredRows
  <2>2. QED
    BY <2>1, FilledNone
<1>7. ASSUME fill = Fill("stop", e, TRUE)
      PROVE  v = (IF optimistic THEN Done(TRUE, TRUE, s, "target", T, at) ELSE Done(TRUE, TRUE, s, "stop", e, at))
  <2>1. v = Filled(Marked(TRUE, s), Favoured(Fill("stop", e, TRUE), T, optimistic), at)
    BY <1>1, <1>4, <1>7, <1>a, <1>b
  <2>2. CASE optimistic = TRUE
    <3>1. Favoured(Fill("stop", e, TRUE), T, optimistic) = Fill("target", T, TRUE)
      BY <2>2, FavouredRows
    <3>2. v = Filled(Marked(TRUE, s), Fill("target", T, TRUE), at)
      BY <2>1, <3>1
    <3>3. v = Done(TRUE, TRUE, s, "target", T, at)
      BY Zenon, <3>2, TargetFillsMarked
    <3>4. QED
      BY <2>2, <3>3
  <2>3. CASE optimistic = FALSE
    <3>1. Favoured(Fill("stop", e, TRUE), T, optimistic) = Fill("stop", e, TRUE)
      BY <2>3 DEF Favoured
    <3>2. v = Filled(Marked(TRUE, s), Fill("stop", e, TRUE), at)
      BY <2>1, <3>1
    <3>3. v = Done(TRUE, TRUE, s, "stop", e, at)
      BY Zenon, <3>2, StopFillsMarked
    <3>4. QED
      BY <2>3, <3>3
  <2>4. QED
    BY <2>2, <2>3
<1>8. QED
  BY <1>0, <1>3, <1>5, <1>6, <1>7 DEF T, v, ArmedTable

UnarmedTable(v, b, e, s, at, optimistic) ==
  LET S == e - Risk
      A == e + Arm
      T == e + Runner
  IN  /\ b.o <= S => v = Done(FALSE, FALSE, s, "stop", b.o, at)
      /\ Inside(b, S, A) /\ Falls(b, S) /\ ~Climbs(b, A) => v = Done(FALSE, FALSE, s, "stop", S, at)
      /\ Inside(b, S, A) /\ Falls(b, S) /\ Climbs(b, A) /\ ~Climbs(b, T) =>
           v = (IF optimistic THEN Done(TRUE, TRUE, s, "stop", S, at) ELSE Done(FALSE, TRUE, s, "stop", S, at))
      /\ Inside(b, S, A) /\ Falls(b, S) /\ Climbs(b, A) /\ Climbs(b, T) =>
           v = (IF optimistic THEN Done(TRUE, TRUE, s, "target", T, at) ELSE Done(FALSE, TRUE, s, "stop", S, at))
      /\ Inside(b, S, A) /\ ~Falls(b, S) /\ ~Climbs(b, A) => v = Clean(FALSE, s)
      /\ Inside(b, S, A) /\ ~Falls(b, S) /\ Climbs(b, A) /\ ~Climbs(b, T) => v = Clean(TRUE, s)
      /\ Inside(b, S, A) /\ ~Falls(b, S) /\ Climbs(b, A) /\ Climbs(b, T) => v = Done(TRUE, FALSE, s, "target", T, at)
      /\ b.o >= A /\ b.o >= T => v = Done(TRUE, FALSE, s, "target", b.o, at)
      /\ b.o >= A /\ b.o < T /\ Falls(b, S) /\ Climbs(b, T) =>
           v = (IF optimistic THEN Done(TRUE, TRUE, s, "target", T, at) ELSE Done(TRUE, TRUE, s, "stop", S, at))
      /\ b.o >= A /\ b.o < T /\ Falls(b, S) /\ ~Climbs(b, T) => v = Done(TRUE, FALSE, s, "stop", S, at)
      /\ b.o >= A /\ b.o < T /\ ~Falls(b, S) /\ Climbs(b, T) => v = Done(TRUE, FALSE, s, "target", T, at)
      /\ b.o >= A /\ b.o < T /\ ~Falls(b, S) /\ ~Climbs(b, T) => v = Clean(TRUE, s)

LEMMA UnarmedRows ==
  ASSUME NEW b \in MinuteBars, NEW e \in Int, NEW s, NEW at, NEW optimistic \in BOOLEAN
  PROVE  UnarmedTable(UnarmedBar(Clean(FALSE, s), b, e, at, optimistic), b, e, s, at, optimistic)
<1> DEFINE S == e - Risk
           A == e + Arm
           T == e + Runner
           t == Clean(FALSE, s)
           touch == Resolve(b, S, A)
           second == Resolve(b, S, T)
           newly == touch.why = "target" \/ (optimistic /\ touch.amb /\ b.h >= T)
           gap == newly /\ b.o >= A
           ar == newly \/ (optimistic /\ touch.amb)
           am == t.amb \/ touch.amb \/ (gap /\ second.amb)
           u == [t EXCEPT !.armed = ar, !.amb = am]
           v == UnarmedBar(Clean(FALSE, s), b, e, at, optimistic)
<1>0. S \in Int /\ A \in Int /\ T \in Int /\ S < A /\ A < T /\ b.o \in Int /\ b.l \in Int /\ b.h \in Int
  BY PolicyAssumption DEF MinuteBars
<1>1. /\ ~newly => v = Filled(u, touch, at)
      /\ newly /\ b.o >= A => v = Filled(u, Favoured(second, T, optimistic), at)
      /\ newly /\ ~(b.o >= A) /\ b.h >= T => v = Closed(u, "target", T, at)
      /\ newly /\ ~(b.o >= A) /\ ~(b.h >= T) => v = u
  BY DEF UnarmedBar
<1>2. t.amb = FALSE
  BY DEF Clean
<1> HIDE DEF S, A, T
<1>3. /\ b.o <= S => touch = Fill("stop", b.o, FALSE)
      /\ b.o >= A => touch = Fill("target", b.o, FALSE)
      /\ Inside(b, S, A) /\ Falls(b, S) /\ Climbs(b, A) => touch = Fill("stop", S, TRUE)
      /\ Inside(b, S, A) /\ Falls(b, S) /\ ~Climbs(b, A) => touch = Fill("stop", S, FALSE)
      /\ Inside(b, S, A) /\ ~Falls(b, S) /\ Climbs(b, A) => touch = Fill("target", A, FALSE)
      /\ Inside(b, S, A) /\ ~Falls(b, S) /\ ~Climbs(b, A) => touch = None
  <2>1. b.o >= A => b.o > S /\ b.o >= A
    BY <1>0
  <2>2. ResolveTable(Resolve(b, S, A), b, S, A)
    BY <1>0, ResolveTabled
  <2> HIDE DEF touch, second
  <2>3. ResolveTable(touch, b, S, A)
    BY <2>2 DEF touch
  <2>4. QED
    BY <1>0, <2>1, <2>3 DEF ResolveTable
<1>4. /\ b.o >= A /\ b.o >= T => second = Fill("target", b.o, FALSE)
      /\ b.o >= A /\ b.o < T /\ Falls(b, S) /\ Climbs(b, T) => second = Fill("stop", S, TRUE)
      /\ b.o >= A /\ b.o < T /\ Falls(b, S) /\ ~Climbs(b, T) => second = Fill("stop", S, FALSE)
      /\ b.o >= A /\ b.o < T /\ ~Falls(b, S) /\ Climbs(b, T) => second = Fill("target", T, FALSE)
      /\ b.o >= A /\ b.o < T /\ ~Falls(b, S) /\ ~Climbs(b, T) => second = None
  <2>1. /\ b.o >= A /\ b.o >= T => b.o > S /\ b.o >= T
        /\ b.o >= A /\ b.o < T => Inside(b, S, T)
    BY <1>0 DEF Inside
  <2>2. ResolveTable(Resolve(b, S, T), b, S, T)
    BY <1>0, ResolveTabled
  <2> HIDE DEF touch, second
  <2>3. ResolveTable(second, b, S, T)
    BY <2>2 DEF second
  <2>4. QED
    BY <1>0, <2>1, <2>3 DEF ResolveTable
<1> HIDE DEF touch, second
<1>5. ASSUME touch.why # "target", touch.amb = FALSE
      PROVE  ~newly /\ ar = FALSE /\ am = FALSE
  BY <1>2, <1>5
<1>6. ASSUME touch.why # "target", touch.amb = TRUE
      PROVE  /\ newly <=> optimistic /\ b.h >= T
             /\ optimistic = TRUE => ar = TRUE
             /\ optimistic = FALSE => ar = FALSE
             /\ am = TRUE
  BY <1>2, <1>6
<1>7. ASSUME touch.why = "target", touch.amb = FALSE
      PROVE  /\ newly /\ ar = TRUE
             /\ ~(b.o >= A) => am = FALSE
             /\ b.o >= A /\ second.amb = FALSE => am = FALSE
             /\ b.o >= A /\ second.amb = TRUE => am = TRUE
  BY <1>2, <1>7
<1> HIDE DEF newly, gap, ar, am
<1>a. u = [Clean(FALSE, s) EXCEPT !.armed = ar, !.amb = am]
  OBVIOUS
<1> HIDE DEF t, u, v
<1>8. /\ ar = FALSE /\ am = FALSE => u = Clean(FALSE, s)
      /\ ar = TRUE /\ am = FALSE => u = Clean(TRUE, s)
      /\ ar = FALSE /\ am = TRUE => u = Marked(FALSE, s)
      /\ ar = TRUE /\ am = TRUE => u = Marked(TRUE, s)
  BY <1>a DEF Clean, Marked
<1>b. /\ \A why, price : /\ Fill(why, price, FALSE).amb = FALSE /\ Fill(why, price, TRUE).amb = TRUE
                         /\ Fill(why, price, FALSE).why = why /\ Fill(why, price, TRUE).why = why
      /\ None.amb = FALSE /\ None.why = "none"
  BY DEF Fill, None
\* The arm level was not reached, or after the stop.
<1>9. ASSUME NEW price, touch = Fill("stop", price, FALSE)
      PROVE  v = Done(FALSE, FALSE, s, "stop", price, at)
  <2>1. v = Filled(Clean(FALSE, s), Fill("stop", price, FALSE), at)
    BY <1>1, <1>5, <1>8, <1>9, <1>b
  <2>2. QED
    BY Zenon, <2>1, StopFillsClean
<1>10. ASSUME touch = None PROVE v = Clean(FALSE, s)
  <2>1. v = Filled(Clean(FALSE, s), None, at)
    BY <1>1, <1>5, <1>8, <1>10, <1>b
  <2>2. QED
    BY <2>1, FilledNone
<1>11. ASSUME touch = Fill("stop", S, TRUE), b.o < A
       PROVE  /\ Climbs(b, T) => v = (IF optimistic THEN Done(TRUE, TRUE, s, "target", T, at) ELSE Done(FALSE, TRUE, s, "stop", S, at))
              /\ ~Climbs(b, T) => v = (IF optimistic THEN Done(TRUE, TRUE, s, "stop", S, at) ELSE Done(FALSE, TRUE, s, "stop", S, at))
  <2>1. ~(b.o >= A)
    BY <1>0, <1>11
  <2>2. CASE optimistic = TRUE
    <3>1. u = Marked(TRUE, s) /\ (newly <=> b.h >= T)
      BY <1>6, <1>8, <1>11, <1>b, <2>2
    <3>2. CASE Climbs(b, T)
      <4>1. v = Closed(Marked(TRUE, s), "target", T, at)
        BY <1>1, <2>1, <3>1, <3>2 DEF Climbs
      <4>2. v = Done(TRUE, TRUE, s, "target", T, at)
        BY Zenon, <4>1, ClosedMarked
      <4>3. QED
        BY <4>2, <3>2, <2>2
    <3>3. CASE ~Climbs(b, T)
      <4>1. v = Filled(Marked(TRUE, s), Fill("stop", S, TRUE), at)
        BY <1>1, <1>11, <3>1, <3>3 DEF Climbs
      <4>2. v = Done(TRUE, TRUE, s, "stop", S, at)
        BY Zenon, <4>1, StopFillsMarked
      <4>3. QED
        BY <4>2, <3>3, <2>2
    <3>4. QED
      BY <3>2, <3>3
  <2>3. CASE optimistic = FALSE
    <3>1. u = Marked(FALSE, s) /\ ~newly
      BY <1>6, <1>8, <1>11, <1>b, <2>3
    <3>2. v = Filled(Marked(FALSE, s), Fill("stop", S, TRUE), at)
      BY <1>1, <1>11, <3>1
    <3>3. v = Done(FALSE, TRUE, s, "stop", S, at)
      BY Zenon, <3>2, StopFillsMarked
    <3>4. QED
      BY <3>3, <2>3
  <2>4. QED
    BY <2>2, <2>3
\* The arm level was reached first, inside the bar.
<1>12. ASSUME touch = Fill("target", A, FALSE), b.o < A
       PROVE  /\ Climbs(b, T) => v = Done(TRUE, FALSE, s, "target", T, at)
              /\ ~Climbs(b, T) => v = Clean(TRUE, s)
  <2>1. ~(b.o >= A)
    BY <1>0, <1>12
  <2>2. u = Clean(TRUE, s) /\ newly
    BY <1>7, <1>8, <1>12, <1>b, <2>1
  <2>3. QED
    <3>1. ASSUME Climbs(b, T) PROVE v = Done(TRUE, FALSE, s, "target", T, at)
      <4>1. v = Closed(Clean(TRUE, s), "target", T, at)
        BY <1>1, <2>1, <2>2, <3>1 DEF Climbs
      <4>2. QED
        BY Zenon, <4>1, ClosedClean
    <3>2. ASSUME ~Climbs(b, T) PROVE v = Clean(TRUE, s)
      BY <1>1, <2>1, <2>2, <3>2 DEF Climbs
    <3>3. QED
      BY <3>1, <3>2
\* The bar opens above the arm level.
<1>13. ASSUME touch = Fill("target", b.o, FALSE), b.o >= A
       PROVE  /\ \A why \in {"stop", "target"} : \A price : second = Fill(why, price, FALSE) => v = Done(TRUE, FALSE, s, why, price, at)
              /\ second = None => v = Clean(TRUE, s)
              /\ second = Fill("stop", S, TRUE) =>
                   v = (IF optimistic THEN Done(TRUE, TRUE, s, "target", T, at) ELSE Done(TRUE, TRUE, s, "stop", S, at))
  <2>1. newly /\ ar = TRUE /\ (second.amb = FALSE => am = FALSE) /\ (second.amb = TRUE => am = TRUE)
    BY <1>7, <1>13, <1>b
  <2>2. v = Filled(u, Favoured(second, T, optimistic), at)
    BY <1>1, <1>13, <2>1
  <2>3. ASSUME NEW why \in {"stop", "target"}, NEW price, second = Fill(why, price, FALSE)
        PROVE  v = Done(TRUE, FALSE, s, why, price, at)
    <3>1. v = Filled(Clean(TRUE, s), Fill(why, price, FALSE), at)
      <4>1. u = Clean(TRUE, s)
        BY <1>8, <1>b, <2>1, <2>3
      <4>2. Favoured(second, T, optimistic) = Fill(why, price, FALSE)
        <5>1. second.amb = FALSE
          BY <1>b, <2>3
        <5>2. Favoured(second, T, optimistic) = second
          BY <5>1 DEF Favoured
        <5>3. QED
          BY <5>2, <2>3
      <4>3. QED
        BY <2>2, <4>1, <4>2
    <3>2. QED
      <4>1. CASE why = "stop"
        BY Zenon, <3>1, <4>1, StopFillsClean
      <4>2. CASE why = "target"
        BY Zenon, <3>1, <4>2, TargetFillsClean
      <4>3. QED
        BY <2>3, <4>1, <4>2
  <2>4. ASSUME second = None PROVE v = Clean(TRUE, s)
    <3>1. u = Clean(TRUE, s)
      BY <1>8, <1>b, <2>1, <2>4
    <3>2. Favoured(second, T, optimistic) = None
      BY <2>4, FavouredRows
    <3>3. QED
      BY <2>2, <3>1, <3>2, FilledNone
  <2>5. ASSUME second = Fill("stop", S, TRUE)
        PROVE  v = (IF optimistic THEN Done(TRUE, TRUE, s, "target", T, at) ELSE Done(TRUE, TRUE, s, "stop", S, at))
    <3>1. v = Filled(Marked(TRUE, s), Favoured(Fill("stop", S, TRUE), T, optimistic), at)
      BY <1>8, <1>b, <2>1, <2>2, <2>5
    <3>2. CASE optimistic = TRUE
      <4>1. Favoured(Fill("stop", S, TRUE), T, optimistic) = Fill("target", T, TRUE)
        BY <3>2, FavouredRows
      <4>2. v = Filled(Marked(TRUE, s), Fill("target", T, TRUE), at)
        BY <3>1, <4>1
      <4>3. v = Done(TRUE, TRUE, s, "target", T, at)
        BY Zenon, <4>2, TargetFillsMarked
      <4>4. QED
        BY <3>2, <4>3
    <3>3. CASE optimistic = FALSE
      <4>1. Favoured(Fill("stop", S, TRUE), T, optimistic) = Fill("stop", S, TRUE)
        BY <3>3 DEF Favoured
      <4>2. v = Filled(Marked(TRUE, s), Fill("stop", S, TRUE), at)
        BY <3>1, <4>1
      <4>3. v = Done(TRUE, TRUE, s, "stop", S, at)
        BY Zenon, <4>2, StopFillsMarked
      <4>4. QED
        BY <3>3, <4>3
    <3>4. QED
      BY <3>2, <3>3
  <2>6. QED
    BY <2>3, <2>4, <2>5
<1>14. Inside(b, S, A) => b.o < A
  BY DEF Inside
<1> HIDE DEF v
<1>15. /\ b.o <= S => v = Done(FALSE, FALSE, s, "stop", b.o, at)
       /\ Inside(b, S, A) /\ Falls(b, S) /\ ~Climbs(b, A) => v = Done(FALSE, FALSE, s, "stop", S, at)
       /\ Inside(b, S, A) /\ ~Falls(b, S) /\ ~Climbs(b, A) => v = Clean(FALSE, s)
  BY <1>3, <1>9, <1>10
<1>16. /\ Inside(b, S, A) /\ Falls(b, S) /\ Climbs(b, A) /\ ~Climbs(b, T) =>
            v = (IF optimistic THEN Done(TRUE, TRUE, s, "stop", S, at) ELSE Done(FALSE, TRUE, s, "stop", S, at))
       /\ Inside(b, S, A) /\ Falls(b, S) /\ Climbs(b, A) /\ Climbs(b, T) =>
            v = (IF optimistic THEN Done(TRUE, TRUE, s, "target", T, at) ELSE Done(FALSE, TRUE, s, "stop", S, at))
  BY <1>3, <1>11, <1>14
<1>17. /\ Inside(b, S, A) /\ ~Falls(b, S) /\ Climbs(b, A) /\ ~Climbs(b, T) => v = Clean(TRUE, s)
       /\ Inside(b, S, A) /\ ~Falls(b, S) /\ Climbs(b, A) /\ Climbs(b, T) => v = Done(TRUE, FALSE, s, "target", T, at)
  BY <1>3, <1>12, <1>14
<1>18. /\ b.o >= A /\ b.o >= T => v = Done(TRUE, FALSE, s, "target", b.o, at)
       /\ b.o >= A /\ b.o < T /\ Falls(b, S) /\ Climbs(b, T) =>
            v = (IF optimistic THEN Done(TRUE, TRUE, s, "target", T, at) ELSE Done(TRUE, TRUE, s, "stop", S, at))
       /\ b.o >= A /\ b.o < T /\ Falls(b, S) /\ ~Climbs(b, T) => v = Done(TRUE, FALSE, s, "stop", S, at)
       /\ b.o >= A /\ b.o < T /\ ~Falls(b, S) /\ Climbs(b, T) => v = Done(TRUE, FALSE, s, "target", T, at)
       /\ b.o >= A /\ b.o < T /\ ~Falls(b, S) /\ ~Climbs(b, T) => v = Clean(TRUE, s)
  BY <1>3, <1>4, <1>13
<1>19. QED
  BY <1>15, <1>16, <1>17, <1>18 DEF S, A, T, v, UnarmedTable

-----------------------------------------------------------------------------
(* The scalar reference makes the same of a bar.                           *)

\* What an armed trade makes of the touch the mode orders.
Ordered(s, touch, subs, S, T, mode, at) ==
  LET m == RefOrdered(Clean(TRUE, s), touch, subs, S, T, mode) IN Filled(m.t, m.fill, at)

OrderedTable(v, s, touch, S, T, mode, at) ==
  /\ touch = None => v = Clean(TRUE, s)
  /\ \A price : touch = Fill("stop", price, FALSE) => v = Done(TRUE, FALSE, s, "stop", price, at)
  /\ \A price : touch = Fill("target", price, FALSE) => v = Done(TRUE, FALSE, s, "target", price, at)
  /\ touch = Fill("stop", S, TRUE) /\ mode = "pess" => v = Done(TRUE, TRUE, s, "stop", S, at)
  /\ touch = Fill("stop", S, TRUE) /\ mode = "adm" => v = Done(TRUE, TRUE, s, "target", T, at)

LEMMA OrderedRows ==
  ASSUME NEW s, NEW touch, NEW subs, NEW S, NEW T, NEW mode, NEW at, NEW v,
         mode = "pess" \/ mode = "adm", v = Ordered(s, touch, subs, S, T, mode, at)
  PROVE  OrderedTable(v, s, touch, S, T, mode, at)
<1> DEFINE t == Clean(TRUE, s)
           m == RefOrdered(t, touch, subs, S, T, mode)
           am == t.amb \/ touch.amb
<1>0. v = Filled(m.t, m.fill, at)
  BY DEF Ordered
<1>1. /\ ~touch.amb \/ mode = "pess" => m = [t |-> [t EXCEPT !.amb = am], fill |-> touch]
      /\ touch.amb /\ mode = "adm" => m = [t |-> [t EXCEPT !.amb = TRUE], fill |-> [touch EXCEPT !.why = "target", !.price = T]]
  BY DEF RefOrdered
<1>2. t.amb = FALSE
  BY DEF Clean
<1>3. /\ touch.amb = FALSE => am = FALSE
      /\ touch.amb = TRUE => am = TRUE
  BY <1>2
<1> HIDE DEF am, m
<1>4. /\ am = FALSE => [t EXCEPT !.amb = am] = Clean(TRUE, s)
      /\ am = TRUE => [t EXCEPT !.amb = am] = Marked(TRUE, s)
      /\ [t EXCEPT !.amb = TRUE] = Marked(TRUE, s)
  BY Marking
<1> HIDE DEF t
<1>5. ASSUME touch.amb = FALSE PROVE v = Filled(Clean(TRUE, s), touch, at)
  <2>1. m = [t |-> Clean(TRUE, s), fill |-> touch]
    BY <1>1, <1>3, <1>4, <1>5
  <2>2. QED
    BY <1>0, <2>1
<1>6. ASSUME touch.amb = TRUE, mode = "pess" PROVE v = Filled(Marked(TRUE, s), touch, at)
  <2>1. m = [t |-> Marked(TRUE, s), fill |-> touch]
    BY <1>1, <1>3, <1>4, <1>6
  <2>2. QED
    BY <1>0, <2>1
<1>7. ASSUME touch = Fill("stop", S, TRUE), mode = "adm" PROVE v = Filled(Marked(TRUE, s), Fill("target", T, TRUE), at)
  <2>1. touch.amb = TRUE
    BY <1>7 DEF Fill
  <2>2. ASSUME NEW f, f = [touch EXCEPT !.why = "target", !.price = T] PROVE f = Fill("target", T, TRUE)
    BY <1>7, <2>2 DEF Fill
  <2>3. m = [t |-> Marked(TRUE, s), fill |-> Fill("target", T, TRUE)]
    BY <1>1, <1>4, <1>7, <2>1, <2>2
  <2>4. QED
    BY <1>0, <2>3
<1>8. /\ touch = None => touch.amb = FALSE
      /\ \A price : touch = Fill("stop", price, FALSE) => touch.amb = FALSE
      /\ \A price : touch = Fill("target", price, FALSE) => touch.amb = FALSE
      /\ touch = Fill("stop", S, TRUE) => touch.amb = TRUE
  BY DEF None, Fill
<1>9. /\ touch = None => v = Clean(TRUE, s)
      /\ \A price : touch = Fill("stop", price, FALSE) => v = Done(TRUE, FALSE, s, "stop", price, at)
      /\ \A price : touch = Fill("target", price, FALSE) => v = Done(TRUE, FALSE, s, "target", price, at)
  <2>1. ASSUME touch = None PROVE v = Clean(TRUE, s)
    BY <1>5, <1>8, <2>1, FilledNone
  <2>2. ASSUME NEW price, touch = Fill("stop", price, FALSE) PROVE v = Done(TRUE, FALSE, s, "stop", price, at)
    <3>1. v = Filled(Clean(TRUE, s), Fill("stop", price, FALSE), at)
      BY <1>5, <1>8, <2>2
    <3>2. QED
      BY Zenon, <3>1, StopFillsClean
  <2>3. ASSUME NEW price, touch = Fill("target", price, FALSE) PROVE v = Done(TRUE, FALSE, s, "target", price, at)
    <3>1. v = Filled(Clean(TRUE, s), Fill("target", price, FALSE), at)
      BY <1>5, <1>8, <2>3
    <3>2. QED
      BY Zenon, <3>1, TargetFillsClean
  <2>4. QED
    BY <2>1, <2>2, <2>3
<1>10. /\ touch = Fill("stop", S, TRUE) /\ mode = "pess" => v = Done(TRUE, TRUE, s, "stop", S, at)
       /\ touch = Fill("stop", S, TRUE) /\ mode = "adm" => v = Done(TRUE, TRUE, s, "target", T, at)
  <2>1. ASSUME touch = Fill("stop", S, TRUE), mode = "pess" PROVE v = Done(TRUE, TRUE, s, "stop", S, at)
    <3>1. v = Filled(Marked(TRUE, s), Fill("stop", S, TRUE), at)
      BY <1>6, <1>8, <2>1
    <3>2. QED
      BY Zenon, <3>1, StopFillsMarked
  <2>2. ASSUME touch = Fill("stop", S, TRUE), mode = "adm" PROVE v = Done(TRUE, TRUE, s, "target", T, at)
    <3>1. v = Filled(Marked(TRUE, s), Fill("target", T, TRUE), at)
      BY <1>7, <2>2
    <3>2. QED
      BY Zenon, <3>1, TargetFillsMarked
  <2>3. QED
    BY <2>1, <2>2
<1>11. QED
  BY <1>9, <1>10 DEF OrderedTable

RefUnarmedTable(v, b, e, s, at, mode) ==
  LET S == e - Risk
      A == e + Arm
      T == e + Runner
  IN  /\ b.o <= S => v = Done(FALSE, FALSE, s, "stop", b.o, at)
      /\ Inside(b, S, A) /\ Falls(b, S) /\ ~Climbs(b, A) => v = Done(FALSE, FALSE, s, "stop", S, at)
      /\ Inside(b, S, A) /\ Falls(b, S) /\ Climbs(b, A) /\ (~Climbs(b, T) \/ mode = "pess") =>
           v = Done(FALSE, TRUE, s, "stop", S, at)
      /\ Inside(b, S, A) /\ Falls(b, S) /\ Climbs(b, A) /\ Climbs(b, T) /\ mode = "adm" =>
           v = Done(FALSE, TRUE, s, "target", T, at)
      /\ Inside(b, S, A) /\ ~Falls(b, S) /\ ~Climbs(b, A) => v = Clean(FALSE, s)
      /\ Inside(b, S, A) /\ ~Falls(b, S) /\ Climbs(b, A) /\ ~Climbs(b, T) => v = Clean(TRUE, s)
      /\ Inside(b, S, A) /\ ~Falls(b, S) /\ Climbs(b, A) /\ Climbs(b, T) => v = Done(TRUE, FALSE, s, "target", T, at)
      /\ b.o >= A /\ b.o >= T => v = Done(TRUE, FALSE, s, "target", b.o, at)
      /\ b.o >= A /\ b.o < T /\ Falls(b, S) /\ Climbs(b, T) =>
           v = (IF mode = "adm" THEN Done(TRUE, TRUE, s, "target", T, at) ELSE Done(TRUE, TRUE, s, "stop", S, at))
      /\ b.o >= A /\ b.o < T /\ Falls(b, S) /\ ~Climbs(b, T) => v = Done(TRUE, FALSE, s, "stop", S, at)
      /\ b.o >= A /\ b.o < T /\ ~Falls(b, S) /\ Climbs(b, T) => v = Done(TRUE, FALSE, s, "target", T, at)
      /\ b.o >= A /\ b.o < T /\ ~Falls(b, S) /\ ~Climbs(b, T) => v = Clean(TRUE, s)

LEMMA RefUnarmedRows ==
  ASSUME NEW b \in MinuteBars, NEW e \in Int, NEW subs, NEW s, NEW at, NEW mode, mode = "pess" \/ mode = "adm"
  PROVE  RefUnarmedTable(RefUnarmed(Clean(FALSE, s), b, subs, e, at, mode), b, e, s, at, mode)
<1> DEFINE S == e - Risk
           A == e + Arm
           T == e + Runner
           t == Clean(FALSE, s)
           touch == RefResolve(b, S, A)
           second == RefResolve(b, S, T)
           u == [t EXCEPT !.armed = TRUE]
           flagged == [t EXCEPT !.amb = TRUE]
           m == RefOrdered(u, second, subs, S, T, mode)
           v == RefUnarmed(Clean(FALSE, s), b, subs, e, at, mode)
<1>0. S \in Int /\ A \in Int /\ T \in Int /\ S < A /\ A < T /\ b.o \in Int /\ b.l \in Int /\ b.h \in Int
  BY PolicyAssumption DEF MinuteBars
<1>1. /\ touch.amb /\ mode = "adm" /\ b.h >= T => v = Closed(flagged, "target", T, at)
      /\ touch.amb /\ mode = "adm" /\ ~(b.h >= T) => v = Closed(flagged, "stop", S, at)
      /\ touch.amb /\ mode = "pess" => v = Filled(flagged, touch, at)
      /\ ~touch.amb /\ touch.why = "target" /\ b.o >= A => v = Filled(m.t, m.fill, at)
      /\ ~touch.amb /\ touch.why = "target" /\ b.o < A /\ b.h >= T => v = Closed(u, "target", T, at)
      /\ ~touch.amb /\ touch.why = "target" /\ b.o < A /\ ~(b.h >= T) => v = u
      /\ ~touch.amb /\ touch.why # "target" => v = Filled(t, touch, at)
  <2> HIDE DEF S, A, T, touch, second, u, flagged, m
  <2>1. v = CASE touch.amb /\ mode = "adm" ->
               IF b.h >= T THEN Closed(flagged, "target", T, at) ELSE Closed(flagged, "stop", S, at)
          [] touch.amb /\ mode = "m1" -> v
          [] touch.amb /\ mode = "pess" -> Filled(flagged, touch, at)
          [] ~touch.amb /\ touch.why = "target" /\ b.o >= A -> Filled(m.t, m.fill, at)
          [] ~touch.amb /\ touch.why = "target" /\ b.o < A -> IF b.h >= T THEN Closed(u, "target", T, at) ELSE u
          [] OTHER -> Filled(t, touch, at)
    BY DEF RefUnarmed, S, A, T, touch, second, u, flagged, m
  <2> HIDE DEF v, t
  <2>2. QED
    BY <1>0, <2>1
<1>2. t = Clean(FALSE, s) /\ u = Clean(TRUE, s) /\ flagged = Marked(FALSE, s)
  <2>1. ASSUME NEW q, q = u PROVE q = Clean(TRUE, s)
    BY <2>1 DEF Clean
  <2>2. ASSUME NEW q, q = flagged PROVE q = Marked(FALSE, s)
    BY <2>2 DEF Clean, Marked
  <2>3. QED
    BY <2>1, <2>2
<1>3. touch = Resolve(b, S, A) /\ second = Resolve(b, S, T)
  BY <1>0, ResolveSame
<1>4. m = RefOrdered(Clean(TRUE, s), second, subs, S, T, mode)
  BY <1>2
<1> HIDE DEF S, A, T, t, touch, second, u, flagged, m, v
<1>5. /\ b.o <= S => touch = Fill("stop", b.o, FALSE)
      /\ b.o >= A => touch = Fill("target", b.o, FALSE)
      /\ Inside(b, S, A) /\ Falls(b, S) /\ Climbs(b, A) => touch = Fill("stop", S, TRUE)
      /\ Inside(b, S, A) /\ Falls(b, S) /\ ~Climbs(b, A) => touch = Fill("stop", S, FALSE)
      /\ Inside(b, S, A) /\ ~Falls(b, S) /\ Climbs(b, A) => touch = Fill("target", A, FALSE)
      /\ Inside(b, S, A) /\ ~Falls(b, S) /\ ~Climbs(b, A) => touch = None
  <2>1. b.o >= A => b.o > S /\ b.o >= A
    BY <1>0
  <2>2. ResolveTable(Resolve(b, S, A), b, S, A)
    BY <1>0, ResolveTabled
  <2>3. ResolveTable(touch, b, S, A)
    BY <1>3, <2>2
  <2>4. QED
    BY <1>0, <2>1, <2>3 DEF ResolveTable
<1>6. /\ b.o >= A /\ b.o >= T => second = Fill("target", b.o, FALSE)
      /\ b.o >= A /\ b.o < T /\ Falls(b, S) /\ Climbs(b, T) => second = Fill("stop", S, TRUE)
      /\ b.o >= A /\ b.o < T /\ Falls(b, S) /\ ~Climbs(b, T) => second = Fill("stop", S, FALSE)
      /\ b.o >= A /\ b.o < T /\ ~Falls(b, S) /\ Climbs(b, T) => second = Fill("target", T, FALSE)
      /\ b.o >= A /\ b.o < T /\ ~Falls(b, S) /\ ~Climbs(b, T) => second = None
  <2>1. /\ b.o >= A /\ b.o >= T => b.o > S /\ b.o >= T
        /\ b.o >= A /\ b.o < T => Inside(b, S, T)
    BY <1>0 DEF Inside
  <2>2. ResolveTable(Resolve(b, S, T), b, S, T)
    BY <1>0, ResolveTabled
  <2>3. ResolveTable(second, b, S, T)
    BY <1>3, <2>2
  <2>4. QED
    BY <1>0, <2>1, <2>3 DEF ResolveTable
<1>7. Inside(b, S, A) => b.o < A
  BY DEF Inside
<1>8. Climbs(b, T) <=> b.h >= T
  BY DEF Climbs
<1>9. /\ \A why, price : /\ Fill(why, price, FALSE).amb = FALSE /\ Fill(why, price, TRUE).amb = TRUE
                         /\ Fill(why, price, FALSE).why = why /\ Fill(why, price, TRUE).why = why
      /\ None.amb = FALSE /\ None.why = "none"
  BY DEF Fill, None
\* The arm level was not reached, or after the stop.
<1>10. ASSUME NEW price, touch = Fill("stop", price, FALSE)
       PROVE  v = Done(FALSE, FALSE, s, "stop", price, at)
  <2>1. ~touch.amb /\ touch.why # "target"
    BY <1>9, <1>10
  <2>2. v = Filled(Clean(FALSE, s), Fill("stop", price, FALSE), at)
    BY <1>1, <1>2, <1>10, <2>1
  <2>3. QED
    BY Zenon, <2>2, StopFillsClean
<1>11. ASSUME touch = None PROVE v = Clean(FALSE, s)
  BY <1>1, <1>2, <1>9, <1>11, FilledNone
<1>12. ASSUME touch = Fill("stop", S, TRUE)
       PROVE  /\ ~Climbs(b, T) \/ mode = "pess" => v = Done(FALSE, TRUE, s, "stop", S, at)
              /\ Climbs(b, T) /\ mode = "adm" => v = Done(FALSE, TRUE, s, "target", T, at)
  <2>1. touch.amb
    BY <1>9, <1>12
  <2>2. ASSUME mode = "pess" PROVE v = Done(FALSE, TRUE, s, "stop", S, at)
    <3>1. v = Filled(Marked(FALSE, s), Fill("stop", S, TRUE), at)
      BY <1>1, <1>2, <1>12, <2>1, <2>2
    <3>2. QED
      BY Zenon, <3>1, StopFillsMarked
  <2>3. ASSUME mode = "adm", ~Climbs(b, T) PROVE v = Done(FALSE, TRUE, s, "stop", S, at)
    <3>1. v = Closed(Marked(FALSE, s), "stop", S, at)
      BY <1>1, <1>2, <1>8, <2>1, <2>3
    <3>2. QED
      BY Zenon, <3>1, ClosedMarked
  <2>4. ASSUME mode = "adm", Climbs(b, T) PROVE v = Done(FALSE, TRUE, s, "target", T, at)
    <3>1. v = Closed(Marked(FALSE, s), "target", T, at)
      BY <1>1, <1>2, <1>8, <2>1, <2>4
    <3>2. QED
      BY Zenon, <3>1, ClosedMarked
  <2>5. QED
    BY <2>2, <2>3, <2>4
\* The arm level was reached first, inside the bar.
<1>13. ASSUME touch = Fill("target", A, FALSE), b.o < A
       PROVE  /\ Climbs(b, T) => v = Done(TRUE, FALSE, s, "target", T, at)
              /\ ~Climbs(b, T) => v = Clean(TRUE, s)
  <2>1. ~touch.amb /\ touch.why = "target"
    BY <1>9, <1>13
  <2>2. ASSUME Climbs(b, T) PROVE v = Done(TRUE, FALSE, s, "target", T, at)
    <3>1. v = Closed(Clean(TRUE, s), "target", T, at)
      BY <1>1, <1>2, <1>8, <1>13, <2>1, <2>2
    <3>2. QED
      BY Zenon, <3>1, ClosedClean
  <2>3. ASSUME ~Climbs(b, T) PROVE v = Clean(TRUE, s)
    BY <1>1, <1>2, <1>8, <1>13, <2>1, <2>3
  <2>4. QED
    BY <2>2, <2>3
\* The bar opens above the arm level.
<1>14. ASSUME touch = Fill("target", b.o, FALSE), b.o >= A
       PROVE  /\ second = None => v = Clean(TRUE, s)
              /\ \A price : second = Fill("stop", price, FALSE) => v = Done(TRUE, FALSE, s, "stop", price, at)
              /\ \A price : second = Fill("target", price, FALSE) => v = Done(TRUE, FALSE, s, "target", price, at)
              /\ second = Fill("stop", S, TRUE) =>
                   v = (IF mode = "adm" THEN Done(TRUE, TRUE, s, "target", T, at) ELSE Done(TRUE, TRUE, s, "stop", S, at))
  <2>1. ~touch.amb /\ touch.why = "target"
    BY <1>9, <1>14
  <2>2. v = Filled(m.t, m.fill, at)
    BY <1>1, <1>14, <2>1
  <2>3. /\ second = None => v = Clean(TRUE, s)
        /\ \A price : second = Fill("stop", price, FALSE) => v = Done(TRUE, FALSE, s, "stop", price, at)
        /\ \A price : second = Fill("target", price, FALSE) => v = Done(TRUE, FALSE, s, "target", price, at)
        /\ second = Fill("stop", S, TRUE) /\ mode = "pess" => v = Done(TRUE, TRUE, s, "stop", S, at)
        /\ second = Fill("stop", S, TRUE) /\ mode = "adm" => v = Done(TRUE, TRUE, s, "target", T, at)
    <3>1. v = Ordered(s, second, subs, S, T, mode, at)
      BY <1>4, <2>2 DEF Ordered
    <3>2. OrderedTable(v, s, second, S, T, mode, at)
      BY <3>1, OrderedRows
    <3>3. QED
      BY <3>2 DEF OrderedTable
  <2>4. QED
    BY <2>3
<1>15. /\ b.o <= S => v = Done(FALSE, FALSE, s, "stop", b.o, at)
       /\ Inside(b, S, A) /\ Falls(b, S) /\ ~Climbs(b, A) => v = Done(FALSE, FALSE, s, "stop", S, at)
       /\ Inside(b, S, A) /\ Falls(b, S) /\ Climbs(b, A) /\ (~Climbs(b, T) \/ mode = "pess") =>
            v = Done(FALSE, TRUE, s, "stop", S, at)
       /\ Inside(b, S, A) /\ Falls(b, S) /\ Climbs(b, A) /\ Climbs(b, T) /\ mode = "adm" =>
            v = Done(FALSE, TRUE, s, "target", T, at)
       /\ Inside(b, S, A) /\ ~Falls(b, S) /\ ~Climbs(b, A) => v = Clean(FALSE, s)
       /\ Inside(b, S, A) /\ ~Falls(b, S) /\ Climbs(b, A) /\ ~Climbs(b, T) => v = Clean(TRUE, s)
       /\ Inside(b, S, A) /\ ~Falls(b, S) /\ Climbs(b, A) /\ Climbs(b, T) => v = Done(TRUE, FALSE, s, "target", T, at)
  BY <1>5, <1>7, <1>10, <1>11, <1>12, <1>13
<1>16. /\ b.o >= A /\ b.o >= T => v = Done(TRUE, FALSE, s, "target", b.o, at)
       /\ b.o >= A /\ b.o < T /\ Falls(b, S) /\ Climbs(b, T) =>
            v = (IF mode = "adm" THEN Done(TRUE, TRUE, s, "target", T, at) ELSE Done(TRUE, TRUE, s, "stop", S, at))
       /\ b.o >= A /\ b.o < T /\ Falls(b, S) /\ ~Climbs(b, T) => v = Done(TRUE, FALSE, s, "stop", S, at)
       /\ b.o >= A /\ b.o < T /\ ~Falls(b, S) /\ Climbs(b, T) => v = Done(TRUE, FALSE, s, "target", T, at)
       /\ b.o >= A /\ b.o < T /\ ~Falls(b, S) /\ ~Climbs(b, T) => v = Clean(TRUE, s)
  BY <1>5, <1>6, <1>14
<1>17. QED
  BY <1>15, <1>16 DEF S, A, T, v, RefUnarmedTable

\* The admissible reference against the optimistic harness: where a bar was
\* ambiguous on the way to the arm level the reference does not say armed.
Alike(r, o) ==
  \/ r = o
  \/ \E s, why, price, at : r = Done(FALSE, TRUE, s, why, price, at) /\ o = Done(TRUE, TRUE, s, why, price, at)

\* A trade that is open is untouched but for its arming.
Shaped(v, s) == v.open => v = Clean(TRUE, s) \/ v = Clean(FALSE, s)

LEMMA DoneClosed ==
  ASSUME NEW s, NEW why, NEW price, NEW at
  PROVE  /\ ~Done(TRUE, TRUE, s, why, price, at).open /\ ~Done(TRUE, FALSE, s, why, price, at).open
         /\ ~Done(FALSE, TRUE, s, why, price, at).open /\ ~Done(FALSE, FALSE, s, why, price, at).open
  BY DEF Done

LEMMA CleanOpen ==
  ASSUME NEW s
  PROVE  /\ Clean(TRUE, s).open /\ Clean(FALSE, s).open
         /\ Clean(TRUE, s).armed /\ ~Clean(FALSE, s).armed
  BY DEF Clean

UnarmedAlike(b, e, subs, s, at) ==
  /\ RefUnarmed(Clean(FALSE, s), b, subs, e, at, "pess") = UnarmedBar(Clean(FALSE, s), b, e, at, FALSE)
  /\ Alike(RefUnarmed(Clean(FALSE, s), b, subs, e, at, "adm"), UnarmedBar(Clean(FALSE, s), b, e, at, TRUE))
  /\ Shaped(UnarmedBar(Clean(FALSE, s), b, e, at, TRUE), s)
  /\ Shaped(UnarmedBar(Clean(FALSE, s), b, e, at, FALSE), s)

LEMMA UnarmedAgree ==
  ASSUME NEW b \in MinuteBars, NEW e \in Int, NEW subs, NEW s, NEW at
  PROVE  UnarmedAlike(b, e, subs, s, at)
<1> DEFINE S == e - Risk
           A == e + Arm
           T == e + Runner
           p == UnarmedBar(Clean(FALSE, s), b, e, at, FALSE)
           o == UnarmedBar(Clean(FALSE, s), b, e, at, TRUE)
           rp == RefUnarmed(Clean(FALSE, s), b, subs, e, at, "pess")
           ra == RefUnarmed(Clean(FALSE, s), b, subs, e, at, "adm")
<1>0. S \in Int /\ A \in Int /\ T \in Int /\ S < A /\ A < T /\ b.o \in Int
  BY PolicyAssumption DEF MinuteBars
<1>1. UnarmedTable(p, b, e, s, at, FALSE) /\ UnarmedTable(o, b, e, s, at, TRUE)
  BY UnarmedRows
<1>2. RefUnarmedTable(rp, b, e, s, at, "pess") /\ RefUnarmedTable(ra, b, e, s, at, "adm")
  BY RefUnarmedRows
<1> HIDE DEF p, o, rp, ra
<1>b. SUFFICES rp = p /\ Alike(ra, o) /\ Shaped(o, s) /\ Shaped(p, s)
  BY DEF p, o, rp, ra, UnarmedAlike
<1>c. /\ b.o <= S \/ Inside(b, S, A) \/ b.o >= A
      /\ b.o >= T \/ b.o < T
  BY <1>0 DEF Inside
<1>3. CASE b.o <= S
  <2>1. /\ p = Done(FALSE, FALSE, s, "stop", b.o, at) /\ rp = p
        /\ o = p /\ ra = p
    BY <1>0, <1>1, <1>2, <1>3 DEF UnarmedTable, RefUnarmedTable
  <2>2. QED
    BY <2>1, DoneClosed DEF Alike, Shaped
<1>4. CASE Inside(b, S, A) /\ Falls(b, S) /\ ~Climbs(b, A)
  <2>1. /\ p = Done(FALSE, FALSE, s, "stop", S, at) /\ rp = p
        /\ o = p /\ ra = p
    BY <1>0, <1>1, <1>2, <1>4 DEF UnarmedTable, RefUnarmedTable
  <2>2. QED
    BY <2>1, DoneClosed DEF Alike, Shaped
<1>5. CASE Inside(b, S, A) /\ Falls(b, S) /\ Climbs(b, A) /\ ~Climbs(b, T)
  <2>1. /\ p = Done(FALSE, TRUE, s, "stop", S, at) /\ rp = p
        /\ o = Done(TRUE, TRUE, s, "stop", S, at) /\ ra = p
    BY <1>0, <1>1, <1>2, <1>5 DEF UnarmedTable, RefUnarmedTable
  <2>2. QED
    BY <2>1, DoneClosed DEF Alike, Shaped
<1>6. CASE Inside(b, S, A) /\ Falls(b, S) /\ Climbs(b, A) /\ Climbs(b, T)
  <2>1. /\ p = Done(FALSE, TRUE, s, "stop", S, at) /\ rp = p
        /\ o = Done(TRUE, TRUE, s, "target", T, at) /\ ra = Done(FALSE, TRUE, s, "target", T, at)
    BY <1>0, <1>1, <1>2, <1>6 DEF UnarmedTable, RefUnarmedTable
  <2>2. QED
    BY <2>1, DoneClosed DEF Alike, Shaped
<1>7. CASE Inside(b, S, A) /\ ~Falls(b, S) /\ ~Climbs(b, A)
  <2>1. /\ p = Clean(FALSE, s) /\ rp = p
        /\ o = p /\ ra = p
    BY <1>0, <1>1, <1>2, <1>7 DEF UnarmedTable, RefUnarmedTable
  <2>2. QED
    BY <2>1, CleanOpen DEF Alike, Shaped
<1>8. CASE Inside(b, S, A) /\ ~Falls(b, S) /\ Climbs(b, A) /\ ~Climbs(b, T)
  <2>1. /\ p = Clean(TRUE, s) /\ rp = p
        /\ o = p /\ ra = p
    BY <1>0, <1>1, <1>2, <1>8 DEF UnarmedTable, RefUnarmedTable
  <2>2. QED
    BY <2>1, CleanOpen DEF Alike, Shaped
<1>9. CASE Inside(b, S, A) /\ ~Falls(b, S) /\ Climbs(b, A) /\ Climbs(b, T)
  <2>1. /\ p = Done(TRUE, FALSE, s, "target", T, at) /\ rp = p
        /\ o = p /\ ra = p
    BY <1>0, <1>1, <1>2, <1>9 DEF UnarmedTable, RefUnarmedTable
  <2>2. QED
    BY <2>1, DoneClosed DEF Alike, Shaped
<1>10. CASE b.o >= A /\ b.o >= T
  <2>1. /\ p = Done(TRUE, FALSE, s, "target", b.o, at) /\ rp = p
        /\ o = p /\ ra = p
    BY <1>0, <1>1, <1>2, <1>10 DEF UnarmedTable, RefUnarmedTable
  <2>2. QED
    BY <2>1, DoneClosed DEF Alike, Shaped
<1>11. CASE b.o >= A /\ b.o < T /\ Falls(b, S) /\ Climbs(b, T)
  <2>1. /\ p = Done(TRUE, TRUE, s, "stop", S, at) /\ rp = p
        /\ o = Done(TRUE, TRUE, s, "target", T, at) /\ ra = o
    BY <1>0, <1>1, <1>2, <1>11 DEF UnarmedTable, RefUnarmedTable
  <2>2. QED
    BY <2>1, DoneClosed DEF Alike, Shaped
<1>12. CASE b.o >= A /\ b.o < T /\ Falls(b, S) /\ ~Climbs(b, T)
  <2>1. /\ p = Done(TRUE, FALSE, s, "stop", S, at) /\ rp = p
        /\ o = p /\ ra = p
    BY <1>0, <1>1, <1>2, <1>12 DEF UnarmedTable, RefUnarmedTable
  <2>2. QED
    BY <2>1, DoneClosed DEF Alike, Shaped
<1>13. CASE b.o >= A /\ b.o < T /\ ~Falls(b, S) /\ Climbs(b, T)
  <2>1. /\ p = Done(TRUE, FALSE, s, "target", T, at) /\ rp = p
        /\ o = p /\ ra = p
    BY <1>0, <1>1, <1>2, <1>13 DEF UnarmedTable, RefUnarmedTable
  <2>2. QED
    BY <2>1, DoneClosed DEF Alike, Shaped
<1>14. CASE b.o >= A /\ b.o < T /\ ~Falls(b, S) /\ ~Climbs(b, T)
  <2>1. /\ p = Clean(TRUE, s) /\ rp = p
        /\ o = p /\ ra = p
    BY <1>0, <1>1, <1>2, <1>14 DEF UnarmedTable, RefUnarmedTable
  <2>2. QED
    BY <2>1, CleanOpen DEF Alike, Shaped
<1>20. QED
  BY <1>c, <1>3, <1>4, <1>5, <1>6, <1>7, <1>8, <1>9, <1>10, <1>11, <1>12, <1>13, <1>14

ArmedAlike(b, e, touch, subs, s, at) ==
  /\ Ordered(s, touch, subs, e, e + Runner, "pess", at) = ArmedBar(Clean(TRUE, s), b, e, at, FALSE)
  /\ Ordered(s, touch, subs, e, e + Runner, "adm", at) = ArmedBar(Clean(TRUE, s), b, e, at, TRUE)
  /\ Shaped(ArmedBar(Clean(TRUE, s), b, e, at, TRUE), s)
  /\ Shaped(ArmedBar(Clean(TRUE, s), b, e, at, FALSE), s)

LEMMA ArmedAgree ==
  ASSUME NEW b \in MinuteBars, NEW e \in Int, NEW subs, NEW s, NEW at
  PROVE  ArmedAlike(b, e, RefResolve(b, e, e + Runner), subs, s, at)
<1> DEFINE T == e + Runner
           touch == RefResolve(b, e, T)
           p == ArmedBar(Clean(TRUE, s), b, e, at, FALSE)
           o == ArmedBar(Clean(TRUE, s), b, e, at, TRUE)
           rp == Ordered(s, touch, subs, e, T, "pess", at)
           ra == Ordered(s, touch, subs, e, T, "adm", at)
<1>0. T \in Int /\ b.o \in Int
  BY PolicyAssumption DEF MinuteBars
<1>1. ArmedTable(p, b, e, s, at, FALSE) /\ ArmedTable(o, b, e, s, at, TRUE)
  BY ArmedRows
<1>2. OrderedTable(rp, s, touch, e, T, "pess", at) /\ OrderedTable(ra, s, touch, e, T, "adm", at)
  BY OrderedRows
<1>3. touch = Resolve(b, e, T)
  BY <1>0, ResolveSame
<1> HIDE DEF p, o, rp, ra, touch
<1>4. SUFFICES rp = p /\ ra = o /\ Shaped(o, s) /\ Shaped(p, s)
  BY DEF p, o, rp, ra, touch, ArmedAlike
<1>5. /\ b.o <= e \/ Inside(b, e, T) \/ (b.o > e /\ b.o >= T)
  BY <1>0 DEF Inside
<1>6. CASE b.o <= e
  <2>1. touch = Fill("stop", b.o, FALSE)
    BY <1>0, <1>3, <1>6, ResolveRows
  <2>2. p = Done(TRUE, FALSE, s, "stop", b.o, at) /\ o = p
    BY <1>1, <1>6 DEF ArmedTable
  <2>3. rp = p /\ ra = o
    BY <1>2, <2>1, <2>2 DEF OrderedTable
  <2>4. QED
    BY <2>2, <2>3, DoneClosed DEF Shaped
<1>7. CASE b.o > e /\ b.o >= T
  <2>1. touch = Fill("target", b.o, FALSE)
    BY <1>0, <1>3, <1>7, ResolveRows
  <2>2. p = Done(TRUE, FALSE, s, "target", b.o, at) /\ o = p
    BY <1>1, <1>7 DEF ArmedTable
  <2>3. rp = p /\ ra = o
    BY <1>2, <2>1, <2>2 DEF OrderedTable
  <2>4. QED
    BY <2>2, <2>3, DoneClosed DEF Shaped
<1>8. CASE Inside(b, e, T) /\ Falls(b, e) /\ Climbs(b, T)
  <2>1. touch = Fill("stop", e, TRUE)
    BY <1>0, <1>3, <1>8, ResolveRows
  <2>2. p = Done(TRUE, TRUE, s, "stop", e, at) /\ o = Done(TRUE, TRUE, s, "target", T, at)
    BY <1>1, <1>8 DEF ArmedTable
  <2>3. rp = p /\ ra = o
    BY <1>2, <2>1, <2>2 DEF OrderedTable
  <2>4. QED
    BY <2>2, <2>3, DoneClosed DEF Shaped
<1>9. CASE Inside(b, e, T) /\ Falls(b, e) /\ ~Climbs(b, T)
  <2>1. touch = Fill("stop", e, FALSE)
    BY <1>0, <1>3, <1>9, ResolveRows
  <2>2. p = Done(TRUE, FALSE, s, "stop", e, at) /\ o = p
    BY <1>1, <1>9 DEF ArmedTable
  <2>3. rp = p /\ ra = o
    BY <1>2, <2>1, <2>2 DEF OrderedTable
  <2>4. QED
    BY <2>2, <2>3, DoneClosed DEF Shaped
<1>10. CASE Inside(b, e, T) /\ ~Falls(b, e) /\ Climbs(b, T)
  <2>1. touch = Fill("target", T, FALSE)
    BY <1>0, <1>3, <1>10, ResolveRows
  <2>2. p = Done(TRUE, FALSE, s, "target", T, at) /\ o = p
    BY <1>1, <1>10 DEF ArmedTable
  <2>3. rp = p /\ ra = o
    BY <1>2, <2>1, <2>2 DEF OrderedTable
  <2>4. QED
    BY <2>2, <2>3, DoneClosed DEF Shaped
<1>11. CASE Inside(b, e, T) /\ ~Falls(b, e) /\ ~Climbs(b, T)
  <2>1. touch = None
    BY <1>0, <1>3, <1>11, ResolveRows
  <2>2. p = Clean(TRUE, s) /\ o = p
    BY <1>1, <1>11 DEF ArmedTable
  <2>3. rp = p /\ ra = o
    BY <1>2, <2>1, <2>2 DEF OrderedTable
  <2>4. QED
    BY <2>2, <2>3, CleanOpen DEF Shaped
<1>12. QED
  BY <1>5, <1>6, <1>7, <1>8, <1>9, <1>10, <1>11

LEMMA ClosedShaped ==
  ASSUME NEW t, NEW s, NEW why, NEW price, NEW at, Shaped(t, s)
  PROVE  ~Closed(t, why, price, at).open /\ Shaped(Closed(t, why, price, at), s)
<1>1. CASE ~t.open
  BY <1>1 DEF Closed, Shaped
<1>2. CASE t = Clean(TRUE, s)
  <2>1. Closed(t, why, price, at) = Done(TRUE, FALSE, s, why, price, at)
    BY Zenon, <1>2, ClosedClean
  <2>2. ~Closed(t, why, price, at).open
    BY <2>1, DoneClosed
  <2>3. QED
    BY <2>2 DEF Shaped
<1>3. CASE t = Clean(FALSE, s)
  <2>1. Closed(t, why, price, at) = Done(FALSE, FALSE, s, why, price, at)
    BY Zenon, <1>3, ClosedClean
  <2>2. ~Closed(t, why, price, at).open
    BY <2>1, DoneClosed
  <2>3. QED
    BY <2>2 DEF Shaped
<1>4. QED
  BY <1>1, <1>2, <1>3 DEF Shaped

LEMMA TimeAgrees ==
  ASSUME NEW r, NEW o, NEW s, NEW b, NEW at, Shaped(o, s)
  PROVE  /\ Shaped(AtTime(o, b, at), s)
         /\ Alike(r, o) => Alike(AtTime(r, b, at), AtTime(o, b, at))
<1>1. Shaped(AtTime(o, b, at), s)
  BY ClosedShaped DEF AtTime
<1>2. CASE r = o
  BY <1>1, <1>2 DEF Alike
<1>3. ASSUME NEW k, NEW why, NEW price, NEW a,
             r = Done(FALSE, TRUE, k, why, price, a), o = Done(TRUE, TRUE, k, why, price, a)
      PROVE  AtTime(r, b, at) = r /\ AtTime(o, b, at) = o
  BY <1>3, DoneClosed DEF AtTime, Closed
<1>4. QED
  BY <1>1, <1>2, <1>3 DEF Alike

\* One bar of the harness, and of the reference with the order of its mode.
AgreeOn(t, b, subs, e, s, at, flip) ==
  /\ RefOne(t, b, subs, e, at, flip, "pess") = SimulateBar(t, b, e, at, flip, FALSE)
  /\ Alike(RefOne(t, b, subs, e, at, flip, "adm"), SimulateBar(t, b, e, at, flip, TRUE))
  /\ Shaped(SimulateBar(t, b, e, at, flip, TRUE), s)
  /\ Shaped(SimulateBar(t, b, e, at, flip, FALSE), s)

LEMMA BarsAgree ==
  ASSUME NEW b \in MinuteBars, NEW e \in Int, NEW subs, NEW s, NEW at, NEW flip,
         NEW t, Shaped(t, s)
  PROVE  AgreeOn(t, b, subs, e, s, at, flip)
<1> DEFINE T == e + Runner
           touch == RefResolve(b, e, T)
           m(mode) == RefOrdered(t, touch, subs, e, T, mode)
           ref(mode) == CASE ~t.open -> t
                          [] t.open /\ at >= 1 /\ flip -> Closed(t, "flip", b.o, at)
                          [] t.open /\ ~(at >= 1 /\ flip) /\ t.armed -> Filled(m(mode).t, m(mode).fill, at)
                          [] OTHER -> RefUnarmed(t, b, subs, e, at, mode)
           u == IF at >= 1 /\ flip THEN Closed(t, "flip", b.o, at) ELSE t
           bar(optimistic) == IF u.open THEN IF u.armed THEN ArmedBar(u, b, e, at, optimistic)
                                                        ELSE UnarmedBar(u, b, e, at, optimistic)
                              ELSE u
<1>1. /\ RefOne(t, b, subs, e, at, flip, "pess") = AtTime(ref("pess"), b, at)
      /\ RefOne(t, b, subs, e, at, flip, "adm") = AtTime(ref("adm"), b, at)
  BY DEF RefOne
<1>2. /\ SimulateBar(t, b, e, at, flip, TRUE) = AtTime(bar(TRUE), b, at)
      /\ SimulateBar(t, b, e, at, flip, FALSE) = AtTime(bar(FALSE), b, at)
  BY DEF SimulateBar
<1>3. SUFFICES /\ ref("pess") = bar(FALSE) /\ Alike(ref("adm"), bar(TRUE))
                /\ Shaped(bar(TRUE), s) /\ Shaped(bar(FALSE), s)
  <2> HIDE DEF ref, bar
  <2>1. QED
    BY <1>1, <1>2, <1>3, TimeAgrees DEF AgreeOn
<1>4. CASE ~t.open
  <2>1. u = t
    BY <1>4 DEF Closed
  <2>2. ref("pess") = t /\ ref("adm") = t /\ bar(TRUE) = t /\ bar(FALSE) = t
    BY <1>4, <2>1
  <2>3. QED
    BY <1>4, <2>2 DEF Alike, Shaped
<1>5. CASE t.open /\ at >= 1 /\ flip
  <2>1. ~Closed(t, "flip", b.o, at).open /\ Shaped(Closed(t, "flip", b.o, at), s)
    BY ClosedShaped
  <2>2. u = Closed(t, "flip", b.o, at)
    BY <1>5
  <2>3. ref("pess") = u /\ ref("adm") = u /\ bar(TRUE) = u /\ bar(FALSE) = u
    BY <1>5, <2>1, <2>2
  <2>4. QED
    BY <2>1, <2>2, <2>3 DEF Alike
<1>6. CASE t.open /\ ~(at >= 1 /\ flip)
  <2>1. u = t
    BY <1>6
  <2>2. CASE t = Clean(TRUE, s)
    <3>1. t.armed
      BY <2>2, CleanOpen
    <3>2. /\ ref("pess") = Ordered(s, touch, subs, e, T, "pess", at)
          /\ ref("adm") = Ordered(s, touch, subs, e, T, "adm", at)
      BY <1>6, <2>2, <3>1 DEF Ordered
    <3>3. /\ bar(TRUE) = ArmedBar(Clean(TRUE, s), b, e, at, TRUE)
          /\ bar(FALSE) = ArmedBar(Clean(TRUE, s), b, e, at, FALSE)
      BY <1>6, <2>1, <2>2, <3>1
    <3> HIDE DEF ref, bar
    <3>4. /\ Ordered(s, touch, subs, e, T, "pess", at) = ArmedBar(Clean(TRUE, s), b, e, at, FALSE)
          /\ Ordered(s, touch, subs, e, T, "adm", at) = ArmedBar(Clean(TRUE, s), b, e, at, TRUE)
          /\ Shaped(ArmedBar(Clean(TRUE, s), b, e, at, TRUE), s)
          /\ Shaped(ArmedBar(Clean(TRUE, s), b, e, at, FALSE), s)
      <4>1. ArmedAlike(b, e, RefResolve(b, e, e + Runner), subs, s, at)
        BY ArmedAgree
      <4>2. QED
        BY <4>1 DEF ArmedAlike
    <3>5. QED
      BY <3>2, <3>3, <3>4 DEF Alike
  <2>3. CASE t = Clean(FALSE, s)
    <3>1. ~t.armed
      BY <2>3, CleanOpen
    <3>2. /\ ref("pess") = RefUnarmed(Clean(FALSE, s), b, subs, e, at, "pess")
          /\ ref("adm") = RefUnarmed(Clean(FALSE, s), b, subs, e, at, "adm")
      BY <1>6, <2>3, <3>1
    <3>3. /\ bar(TRUE) = UnarmedBar(Clean(FALSE, s), b, e, at, TRUE)
          /\ bar(FALSE) = UnarmedBar(Clean(FALSE, s), b, e, at, FALSE)
      BY <1>6, <2>1, <2>3, <3>1
    <3> HIDE DEF ref, bar
    <3>4. QED
      <4>1. UnarmedAlike(b, e, subs, s, at)
        BY UnarmedAgree
      <4>2. QED
        BY <3>2, <3>3, <4>1 DEF UnarmedAlike
  <2>4. QED
    BY <1>6, <2>2, <2>3 DEF Shaped
<1>7. QED
  BY <1>4, <1>5, <1>6

-----------------------------------------------------------------------------
(* The bar of a list of minutes.                                           *)

\* Of finitely many numbers one is the largest: of the sets of indices whose
\* number is at least that of k, take one that has no other inside it.
LEMMA Largest ==
  ASSUME NEW n \in Nat \ {0}, NEW f, \A k \in 1..n : f[k] \in Int
  PROVE  \E m \in 1..n : \A k \in 1..n : f[k] <= f[m]
<1> DEFINE Above(k) == {i \in 1..n : f[i] >= f[k]}
           F == {Above(k) : k \in 1..n}
<1>1. F # {}
  <2>1. 1 \in 1..n
    OBVIOUS
  <2> HIDE DEF Above
  <2>2. QED
    BY <2>1
<1>2. F \subseteq FiniteSubsetsOf(1..n)
  <2>1. \A k \in 1..n : IsFiniteSet(Above(k)) /\ Above(k) \subseteq 1..n
    BY FS_Interval, FS_Subset
  <2> HIDE DEF Above
  <2>2. QED
    BY <2>1 DEF FiniteSubsetsOf
<1>3. IsWellFoundedOn(StrictSubsetOrdering(1..n), FiniteSubsetsOf(1..n))
  BY FS_StrictSubsetOrderingWellFounded
<1>4. \E T \in F : \A U \in F : <<U, T>> \notin StrictSubsetOrdering(1..n)
  <2> HIDE DEF F
  <2>1. QED
    BY <1>1, <1>2, <1>3, WFMin
<1>5. PICK m \in 1..n : \A k \in 1..n : <<Above(k), Above(m)>> \notin StrictSubsetOrdering(1..n)
  BY <1>4
<1>6. ASSUME NEW k \in 1..n, f[k] > f[m] PROVE FALSE
  <2>1. Above(k) \subseteq Above(m)
    BY <1>6
  <2>2. m \in Above(m) /\ m \notin Above(k)
    BY <1>6
  <2>3. <<Above(k), Above(m)>> \in StrictSubsetOrdering(1..n)
    <3>1. Above(k) \subseteq 1..n /\ Above(m) \subseteq 1..n
      OBVIOUS
    <3> HIDE DEF Above
    <3>2. QED
      BY <2>1, <2>2, <3>1 DEF StrictSubsetOrdering
  <2>4. QED
    BY <1>5, <2>3
<1>7. QED
  BY <1>6

LEMMA MaxIs ==
  ASSUME NEW S \in SUBSET Int, NEW x \in S, \A y \in S : y <= x
  PROVE  Max(S) = x
<1>1. Max(S) \in S /\ \A y \in S : Max(S) >= y
  <2>1. x \in S /\ \A y \in S : x >= y
    OBVIOUS
  <2>2. QED
    BY <2>1 DEF Max
<1>2. Max(S) \in Int /\ x \in Int /\ Max(S) >= x /\ x >= Max(S)
  BY <1>1
<1>3. QED
  BY <1>2

LEMMA MinIs ==
  ASSUME NEW S \in SUBSET Int, NEW x \in S, \A y \in S : x <= y
  PROVE  Min(S) = x
<1>1. Min(S) \in S /\ \A y \in S : Min(S) <= y
  <2>1. x \in S /\ \A y \in S : x <= y
    OBVIOUS
  <2>2. QED
    BY <2>1 DEF Min
<1>2. Min(S) \in Int /\ x \in Int /\ Min(S) <= x /\ x <= Min(S)
  BY <1>1
<1>3. QED
  BY <1>2

\* A list of minutes, the next one opening where it likes.
MinuteList(ms) == /\ Len(ms) \in Nat \ {0} /\ DOMAIN ms = 1..Len(ms)
                  /\ \A k \in 1..Len(ms) : ms[k] \in MinuteBars

LEMMA MergedCovers ==
  ASSUME NEW ms, MinuteList(ms)
  PROVE  Covers(Merged(ms), ms, Len(ms))
<1> DEFINE n == Len(ms)
           H == {ms[k].h : k \in 1..n}
           L == {ms[k].l : k \in 1..n}
<1>1. /\ n \in Nat \ {0} /\ DOMAIN ms = 1..n
      /\ \A k \in 1..n : ms[k] \in MinuteBars /\ ms[k].o \in Int /\ ms[k].h \in Int /\ ms[k].l \in Int /\ ms[k].c \in Int
                         /\ ms[k].l <= ms[k].o /\ ms[k].o <= ms[k].h /\ ms[k].l <= ms[k].c /\ ms[k].c <= ms[k].h
  BY DEF MinuteList, MinuteBars
<1> HIDE DEF n
<1>2. PICK x \in 1..n : \A k \in 1..n : ms[k].h <= ms[x].h
  <2> DEFINE f == [k \in 1..n |-> ms[k].h]
  <2>1. \A k \in 1..n : f[k] \in Int
    BY <1>1
  <2>2. \E m \in 1..n : \A k \in 1..n : f[k] <= f[m]
    <3> HIDE DEF f
    <3>1. QED
      BY <1>1, <2>1, Largest
  <2>3. QED
    BY <2>2
<1>3. PICK y \in 1..n : \A k \in 1..n : ms[y].l <= ms[k].l
  <2> DEFINE f == [k \in 1..n |-> -(ms[k].l)]
  <2>1. \A k \in 1..n : f[k] \in Int
    BY <1>1
  <2>2. \E m \in 1..n : \A k \in 1..n : f[k] <= f[m]
    <3> HIDE DEF f
    <3>1. QED
      BY <1>1, <2>1, Largest
  <2>3. PICK m \in 1..n : \A k \in 1..n : f[k] <= f[m]
    BY <2>2
  <2>4. \A k \in 1..n : ms[m].l <= ms[k].l
    BY <1>1, <2>3
  <2>5. QED
    BY <2>4
<1>4. Max(H) = ms[x].h
  <2>1. H \in SUBSET Int /\ ms[x].h \in H /\ \A z \in H : z <= ms[x].h
    BY <1>1, <1>2
  <2> HIDE DEF H
  <2>2. QED
    BY <2>1, MaxIs
<1>5. Min(L) = ms[y].l
  <2>1. L \in SUBSET Int /\ ms[y].l \in L /\ \A z \in L : ms[y].l <= z
    BY <1>1, <1>3
  <2> HIDE DEF L
  <2>2. QED
    BY <2>1, MinIs
<1>6. Merged(ms) = [o |-> ms[1].o, h |-> ms[x].h, l |-> ms[y].l, c |-> ms[n].c]
  BY <1>1, <1>4, <1>5 DEF Merged, n
<1>7. 1 \in 1..n /\ n \in 1..n
  BY <1>1
<1>8. Merged(ms) \in MinuteBars
  <2>1. Merged(ms) \in [o : Int, h : Int, l : Int, c : Int]
    BY <1>1, <1>2, <1>3, <1>6, <1>7
  <2>2. /\ Merged(ms).o = ms[1].o /\ Merged(ms).h = ms[x].h
        /\ Merged(ms).l = ms[y].l /\ Merged(ms).c = ms[n].c
    BY <1>6
  <2>3. /\ ms[y].l <= ms[1].l /\ ms[y].l <= ms[n].l /\ ms[1].h <= ms[x].h /\ ms[n].h <= ms[x].h
        /\ ms[y].l \in Int /\ ms[x].h \in Int
    BY <1>1, <1>2, <1>3, <1>7
  <2>4. \A k \in {1, n} : /\ ms[k].l \in Int /\ ms[k].h \in Int /\ ms[k].o \in Int /\ ms[k].c \in Int
                       /\ ms[k].l <= ms[k].o /\ ms[k].o <= ms[k].h /\ ms[k].l <= ms[k].c /\ ms[k].c <= ms[k].h
    BY <1>1, <1>7
  <2>5. ms[y].l <= ms[1].o /\ ms[1].o <= ms[x].h /\ ms[y].l <= ms[n].c /\ ms[n].c <= ms[x].h
    BY <2>3, <2>4
  <2>6. QED
    BY <2>1, <2>2, <2>5 DEF MinuteBars
<1>9. QED
  BY <1>1, <1>2, <1>3, <1>6, <1>8 DEF Covers, n

\* Seen from the exit side a bar is a bar, and both codes read it alike.
LEMMA SideBars ==
  ASSUME NEW sd \in {1, -1}, NEW b \in MinuteBars, NEW sp \in Int
  PROVE  /\ SideBar(sd, b, sp) \in MinuteBars
         /\ RefSideBar(sd, b, sp) = SideBar(sd, b, sp)
<1>1. b.o \in Int /\ b.h \in Int /\ b.l \in Int /\ b.c \in Int /\ b.l <= b.o /\ b.o <= b.h /\ b.l <= b.c /\ b.c <= b.h
  BY DEF MinuteBars
<1>2. CASE sd = 1
  BY <1>2 DEF SideBar, RefSideBar
<1>3. CASE sd = -1
  <2>1. SideBar(sd, b, sp) = [o |-> -(b.o + sp), h |-> -(b.l + sp), l |-> -(b.h + sp), c |-> -(b.c + sp)]
    BY <1>3 DEF SideBar
  <2>2. SideBar(sd, b, sp) \in MinuteBars
    BY <1>1, <2>1 DEF MinuteBars
  <2>3. RefSideBar(sd, b, sp) = SideBar(sd, b, sp)
    BY <1>3 DEF SideBar, RefSideBar
  <2>4. QED
    BY <2>2, <2>3
<1>4. QED
  BY <1>2, <1>3

-----------------------------------------------------------------------------
(* Types                                                                   *)

Types ==
  /\ plan \in Plans /\ side \in {1, -1} /\ spread \in Spreads /\ bid \in Int
  /\ minutes \in Seq(MinuteBars) /\ minutes # <<>> /\ minutes[Len(minutes)].c = bid
  /\ j \in Nat /\ flipped \in BOOLEAN /\ over \in BOOLEAN
  /\ order \in Orders /\ live \in Lives
  /\ plan # "limit" => order.minute # 0 /\ order.quiet
  /\ order.minute <= Len(minutes) \/ j > 0 \/ over
  /\ DOMAIN sims = Simulators(plan)

LEMMA TypesFacts ==
  ASSUME Types
  PROVE  /\ spread \in Nat /\ order.price \in Int /\ order.minute \in Nat /\ Entry \in Int /\ Target \in Int
         /\ MinuteList(minutes)
         /\ \A x \in Int : Price(x) \in Int
  BY PathAssumption, PolicyAssumption DEF Types, Orders, Entry, Target, MinuteList, Price, Far

LEMMA WatchedType ==
  ASSUME Entry \in Int, Target \in Int, NEW o \in Lives, NEW p \in Int, NEW at \in Int
  PROVE  Watched(o, p, at) \in Lives
<1> DEFINE hit == p <= o.stop \/ p >= Target
           t == o.touched \/ p >= Entry + Arm
<1>1. CASE ~o.open
  BY <1>1 DEF Watched
<1>2. CASE o.open
  <2>1. Watched(o, p, at) = [o EXCEPT !.open = ~hit, !.price = IF hit THEN p ELSE 0, !.at = IF hit THEN at ELSE -1,
                                      !.touched = t]
    BY <1>2 DEF Watched
  <2>2. (~hit) \in BOOLEAN /\ t \in BOOLEAN
    <3>1. ((~hit) = TRUE \/ (~hit) = FALSE) /\ (t = TRUE \/ t = FALSE)
      OBVIOUS
    <3>2. \A x : x = TRUE \/ x = FALSE => x \in BOOLEAN
      OBVIOUS
    <3> HIDE DEF hit, t
    <3>3. QED
      BY Zenon, <3>1, <3>2
  <2>a. (IF hit THEN p ELSE 0) \in Int /\ (IF hit THEN at ELSE -1) \in Int
    OBVIOUS
  <2> HIDE DEF hit, t
  <2>3. QED
    BY <2>1, <2>2, <2>a DEF Lives
<1>3. QED
  BY <1>1, <1>2 DEF Lives

LEMMA TypesInit == Init => Types
<1> SUFFICES ASSUME Init PROVE Types
  OBVIOUS
<1>1. spread \in Nat /\ plan \in Plans /\ side \in {1, -1} /\ spread \in Spreads /\ bid = 0 /\ j = 0
      /\ flipped = FALSE /\ over = FALSE /\ minutes = <<Point(0)>>
  BY PathAssumption DEF Init
<1>2. minutes \in Seq(MinuteBars) /\ minutes # <<>> /\ Len(minutes) = 1 /\ minutes[1].c = bid
  BY <1>1 DEF Point, MinuteBars
<1>3. Price(0) \in Int
  BY <1>1 DEF Price
<1>4. order \in Orders /\ (plan # "limit" => order.minute # 0 /\ order.quiet) /\ order.minute <= 1
  <2>1. CASE plan = "limit"
    <3>1. PICK d \in Offsets, x \in Waits : order = Limit(d, x)
      BY <2>1 DEF Init
    <3>2. d \in Int /\ x \in Int
      BY <3>1, PathAssumption
    <3>3. QED
      BY <1>3, <2>1, <3>1, <3>2 DEF Limit, LimitPrice, Orders
  <2>2. CASE plan # "limit"
    <3>1. order = Market
      BY <2>2 DEF Init
    <3>2. QED
      BY <1>1, <1>3, <3>1 DEF Market, Orders
  <2>3. QED
    BY <2>1, <2>2
<1>5. Entry \in Int /\ Target \in Int
  BY <1>4, PolicyAssumption DEF Entry, Target, Orders, Far
<1>6. live \in Lives
  <2> DEFINE new == [open |-> TRUE, stop |-> Entry - Risk, touched |-> FALSE, armed |-> FALSE,
                     leave |-> FALSE, price |-> 0, at |-> -1]
  <2>1. new \in Lives
    BY <1>5, PolicyAssumption DEF Lives
  <2>2. Watched(new, Price(0), 0) \in Lives
    <3> HIDE DEF new
    <3>1. QED
      BY <1>3, <1>5, <2>1, WatchedType
  <2>3. live = new \/ live = Watched(new, Price(0), 0)
    BY DEF Init
  <2> HIDE DEF new
  <2>4. QED
    BY <2>1, <2>2, <2>3
<1>7. DOMAIN sims = Simulators(plan)
  BY DEF Init
<1>8. bid \in Int /\ j \in Nat /\ flipped \in BOOLEAN /\ over \in BOOLEAN /\ order.minute <= Len(minutes)
      /\ minutes[Len(minutes)].c = bid
  <2>1. bid \in Int /\ j \in Nat
    BY <1>1
  <2>2. flipped \in BOOLEAN /\ over \in BOOLEAN
    BY <1>1
  <2>3. order.minute <= Len(minutes)
    BY <1>2, <1>4
  <2>4. minutes[Len(minutes)].c = bid
    BY <1>2
  <2>5. QED
    BY <2>1, <2>2, <2>3, <2>4
<1>9. QED
  BY <1>1, <1>2, <1>4, <1>6, <1>7, <1>8 DEF Types

LEMMA TwoOf ==
  ASSUME NEW a \in Int, NEW b \in Int
  PROVE  /\ Max({a, b}) \in {a, b} /\ Max({a, b}) >= a /\ Max({a, b}) >= b
         /\ Min({a, b}) \in {a, b} /\ Min({a, b}) <= a /\ Min({a, b}) <= b
<1>1. CASE a <= b
  <2>1. Max({a, b}) = b /\ Min({a, b}) = a
    BY <1>1, MaxIs, MinIs
  <2>2. QED
    BY <1>1, <2>1
<1>2. CASE b <= a
  <2>1. Max({a, b}) = a /\ Min({a, b}) = b
    BY <1>2, MaxIs, MinIs
  <2>2. QED
    BY <1>2, <2>1
<1>3. QED
  BY <1>1, <1>2

\* A minute that grows by a price.
Grows(g, b, x) ==
  /\ g \in MinuteBars /\ g.o = b.o /\ g.c = x
  /\ g.h \in {b.h, x} /\ g.h >= b.h /\ g.h >= x
  /\ g.l \in {b.l, x} /\ g.l <= b.l /\ g.l <= x

LEMMA GrownBar ==
  ASSUME NEW b \in MinuteBars, NEW x \in Int
  PROVE  Grows(Grown(b, x), b, x)
<1>1. b.o \in Int /\ b.h \in Int /\ b.l \in Int /\ b.c \in Int /\ b.l <= b.o /\ b.o <= b.h /\ b.l <= b.c /\ b.c <= b.h
      /\ b = [o |-> b.o, h |-> b.h, l |-> b.l, c |-> b.c]
  BY DEF MinuteBars
<1>2. Grown(b, x) = [o |-> b.o, h |-> Max({b.h, x}), l |-> Min({b.l, x}), c |-> x]
  <2>1. ASSUME NEW q, q = Grown(b, x) PROVE q = [o |-> b.o, h |-> Max({b.h, x}), l |-> Min({b.l, x}), c |-> x]
    BY <1>1, <2>1 DEF Grown
  <2>2. QED
    BY <2>1
<1> DEFINE M == Max({b.h, x})
           N == Min({b.l, x})
<1>3. M \in {b.h, x} /\ M >= b.h /\ M >= x
  BY <1>1, TwoOf
<1>4. N \in {b.l, x} /\ N <= b.l /\ N <= x
  BY <1>1, TwoOf
<1> HIDE DEF M, N
<1>5. Grown(b, x) = [o |-> b.o, h |-> M, l |-> N, c |-> x]
  BY <1>2 DEF M, N
<1>6. M \in Int /\ N \in Int /\ N <= b.o /\ b.o <= M /\ N <= x /\ x <= M
  BY <1>1, <1>3, <1>4
<1>7. [o |-> b.o, h |-> M, l |-> N, c |-> x] \in MinuteBars
  BY <1>1, <1>6 DEF MinuteBars
<1>8. QED
  BY <1>3, <1>4, <1>5, <1>7 DEF Grows

\* The minutes after a move: the last one has grown.
Lengthened(x) ==
  /\ minutes' \in Seq(MinuteBars) /\ minutes' # <<>> /\ Len(minutes') = Len(minutes) /\ Len(minutes) \in Nat \ {0}
  /\ \A k \in 1..(Len(minutes) - 1) : minutes'[k] = minutes[k]
  /\ Grows(minutes'[Len(minutes)], minutes[Len(minutes)], x)

LEMMA MoveFacts ==
  ASSUME Types, NEW d \in {-1, 1}, Move(d)
  PROVE  bid' \in Int /\ Price(bid') \in Int /\ Lengthened(bid')
<1> DEFINE n == Len(minutes)
<1>1. bid' \in Int
  BY DEF Types, Move
<1>2. n \in Nat \ {0} /\ n \in 1..n /\ minutes[n] \in MinuteBars /\ \A k \in 1..n : minutes[k] \in MinuteBars
  BY DEF Types
<1>3. Grows(Grown(minutes[n], bid'), minutes[n], bid')
  BY <1>1, <1>2, GrownBar
<1>4. minutes' = [minutes EXCEPT ![n] = Grown(minutes[n], bid')]
  BY DEF Move
<1>5. minutes \in [1..n -> MinuteBars]
  BY <1>2 DEF Types
<1>6. minutes' \in [1..n -> MinuteBars] /\ minutes'[n] = Grown(minutes[n], bid') /\ \A k \in 1..(n - 1) : minutes'[k] = minutes[k]
  <2>1. Grown(minutes[n], bid') \in MinuteBars
    BY <1>3 DEF Grows
  <2> HIDE DEF n
  <2>2. \A k \in 1..(n - 1) : k # n /\ k \in 1..n
    BY <1>2
  <2>3. QED
    BY <1>2, <1>4, <1>5, <2>1, <2>2
<1>7. minutes' \in Seq(MinuteBars) /\ Len(minutes') = n /\ minutes' # <<>>
  BY <1>2, <1>6
<1>8. Price(bid') \in Int
  BY <1>1, TypesFacts
<1>9. QED
  BY <1>1, <1>2, <1>3, <1>6, <1>7, <1>8 DEF Lengthened

LEMMA TypesMove ==
  ASSUME Types, NEW d \in {-1, 1}, Move(d)
  PROVE  Types'
<1> DEFINE p == Price(bid')
           minute == IF Resting /\ p + spread < Entry THEN Len(minutes) ELSE order.minute
           filling == plan = "limit" /\ j = 0 /\ minute = Len(minutes)
           quiet == IF filling THEN live'.open /\ ~live'.touched ELSE order.quiet
<1>1. bid' \in Int /\ p \in Int /\ Lengthened(bid')
  BY MoveFacts
<1>2. UNCHANGED <<plan, side, spread, j, flipped, sims, over>>
  BY DEF Move
<1>3. live' = (IF minute = 0 THEN live ELSE Watched(live, p, j))
  BY DEF Move
<1>4. order' = [order EXCEPT !.minute = minute, !.quiet = quiet]
  BY DEF Move
<1>5. live' \in Lives
  <2> HIDE DEF p, minute
  <2>1. Watched(live, p, j) \in Lives
    BY <1>1, TypesFacts, WatchedType DEF Types
  <2>2. QED
    BY <1>3, <2>1 DEF Types
<1>6. minute \in Nat /\ (minute <= Len(minutes) \/ j > 0 \/ over) /\ (plan # "limit" => minute = order.minute /\ ~filling)
  <2>1. Len(minutes) \in Nat /\ order.minute \in Nat
    BY <1>1, TypesFacts DEF Lengthened
  <2>2. minute = Len(minutes) \/ minute = order.minute
    OBVIOUS
  <2>3. order.minute <= Len(minutes) \/ j > 0 \/ over
    BY DEF Types
  <2>4. plan # "limit" => ~Resting
    BY DEF Types, Resting
  <2>5. plan # "limit" => minute = order.minute /\ ~filling
    BY <2>4
  <2> HIDE DEF minute, filling
  <2>6. QED
    BY <2>1, <2>2, <2>3, <2>5
<1>7. quiet \in BOOLEAN /\ (plan # "limit" => quiet)
  <2>1. order.quiet \in BOOLEAN /\ (plan # "limit" => order.quiet)
    BY DEF Types, Orders
  <2>2. (live'.open /\ ~live'.touched) \in BOOLEAN
    OBVIOUS
  <2>3. quiet \in BOOLEAN
    BY <2>1, <2>2
  <2>4. plan # "limit" => quiet
    BY <1>6, <2>1
  <2>5. QED
    BY <2>3, <2>4
<1> HIDE DEF p, minute, filling, quiet
<1>8. order' \in Orders /\ order'.minute = minute /\ order'.quiet = quiet /\ order'.price = order.price
  BY <1>4, <1>6, <1>7 DEF Types, Orders
<1>9. minutes'[Len(minutes')].c = bid'
  BY <1>1 DEF Lengthened, Grows
<1>10. /\ plan' # "limit" => order'.minute # 0 /\ order'.quiet
       /\ order'.minute <= Len(minutes') \/ j' > 0 \/ over'
  BY <1>1, <1>2, <1>6, <1>7, <1>8 DEF Types, Lengthened
<1>11. QED
  BY <1>1, <1>2, <1>5, <1>8, <1>9, <1>10 DEF Types, Lengthened

LEMMA TypesMinute ==
  ASSUME Types, NextMinute
  PROVE  Types'
<1> DEFINE n == Len(minutes)
<1>1. UNCHANGED <<plan, side, spread, bid, j, flipped, order, live, sims, over>>
  BY DEF NextMinute
<1>2. minutes' = Append(minutes, Point(bid)) /\ bid \in Int
  BY DEF NextMinute, Types
<1>3. Point(bid) \in MinuteBars /\ Point(bid).c = bid
  BY <1>2 DEF Point, MinuteBars
<1>4. n \in Nat \ {0} /\ minutes \in Seq(MinuteBars)
  BY DEF Types
<1>5. minutes' \in Seq(MinuteBars) /\ Len(minutes') = n + 1 /\ minutes'[n + 1] = Point(bid) /\ minutes' # <<>>
  BY <1>2, <1>3, <1>4
<1>6. minutes'[Len(minutes')].c = bid'
  BY <1>1, <1>3, <1>5
<1>7. order'.minute <= Len(minutes') \/ j' > 0 \/ over'
  BY <1>1, <1>4, <1>5 DEF Types, Orders
<1>8. QED
  BY <1>1, <1>5, <1>6, <1>7 DEF Types

LEMMA TypesRest ==
  ASSUME Types, RestOn
  PROVE  Types'
<1>1. UNCHANGED <<plan, side, spread, bid, j, flipped, live>> /\ minutes' = <<Point(bid)>> /\ order.minute = 0
  BY DEF RestOn, Resting
<1>2. PICK flip \in BOOLEAN : /\ over' = (flip \/ order.left = 1)
                              /\ order' = [order EXCEPT !.left = order.left - 1,
                                                        !.lead = IF order.lead > 0 \/ FillOf(TRUE) # 0 THEN order.lead + 1 ELSE 0]
  BY DEF RestOn
<1>3. Point(bid) \in MinuteBars /\ Point(bid).c = bid /\ bid \in Int
  BY DEF Point, MinuteBars, Types
<1>4. minutes' \in Seq(MinuteBars) /\ minutes' # <<>> /\ Len(minutes') = 1 /\ minutes'[1] = Point(bid)
  BY <1>1, <1>3
<1>5. order' \in Orders /\ order'.minute = 0
  <2> DEFINE lead == IF order.lead > 0 \/ FillOf(TRUE) # 0 THEN order.lead + 1 ELSE 0
             left == order.left - 1
             Aged(q, o, x, y) == q = [o EXCEPT !.left = x, !.lead = y]
  <2>1. order \in Orders /\ order.lead \in Int
    BY DEF Types, Orders
  <2>2. lead \in Int
    <3> DEFINE touched == order.lead > 0 \/ FillOf(TRUE) # 0
    <3>1. lead = IF touched THEN order.lead + 1 ELSE 0
      OBVIOUS
    <3> HIDE DEF touched, lead
    <3>2. QED
      BY <2>1, <3>1
  <2> HIDE DEF lead
  <2>3. Aged(order', order, left, lead)
    BY <1>2 DEF lead
  <2>4. ASSUME NEW o \in Orders, NEW x \in Int, NEW y \in Int, NEW q, Aged(q, o, x, y)
        PROVE  q \in Orders /\ q.minute = o.minute
    BY <2>4 DEF Orders
  <2>5. left \in Int
    BY <2>1 DEF Orders
  <2> HIDE DEF Aged, left
  <2>6. order' \in Orders /\ order'.minute = order.minute
    BY Zenon, <2>1, <2>2, <2>3, <2>4, <2>5
  <2>7. QED
    BY <1>1, <2>6
<1>6. over' \in BOOLEAN
  <2>1. (flip \/ order.left = 1) = TRUE \/ (flip \/ order.left = 1) = FALSE
    OBVIOUS
  <2>2. QED
    BY <1>2, <2>1
<1>7. plan = "limit"
  BY <1>1 DEF Types
<1>8. DOMAIN sims' = Simulators(plan)
  BY DEF RestOn, Judged
<1>9. QED
  BY <1>1, <1>3, <1>4, <1>5, <1>6, <1>7, <1>8 DEF Types

LEMMA ManagedType ==
  ASSUME Types, NEW flip \in BOOLEAN, NEW cand \in Int
  PROVE  Managed(flip, cand) \in Lives
<1> DEFINE leave == flip \/ (plan \in {"range", "path"} /\ j = Horizon - 2)
           stop == IF Managing THEN (IF live.touched THEN Entry ELSE live.stop) ELSE Higher(live.stop, cand)
<1>1. live \in Lives /\ live.touched \in BOOLEAN /\ live.stop \in Int /\ Entry \in Int /\ Price(bid) \in Int /\ j \in Int
  BY TypesFacts DEF Types, Lives
<1>2. [live EXCEPT !.open = FALSE, !.price = Price(bid), !.at = j] \in Lives
  BY <1>1 DEF Lives
<1>3. [live EXCEPT !.stop = stop, !.armed = live.touched, !.leave = leave] \in Lives
  <2>1. stop \in Int
    BY <1>1 DEF Higher
  <2>2. leave = TRUE \/ leave = FALSE
    OBVIOUS
  <2> HIDE DEF stop, leave
  <2>3. leave \in BOOLEAN
    BY <2>2
  <2>4. QED
    BY <1>1, <2>1, <2>3 DEF Lives
<1>4. QED
  BY <1>2, <1>3 DEF Managed

LEMMA OpenedType ==
  ASSUME Types, NEW o \in Lives, NEW x \in Int
  PROVE  Opened(o, x) \in Lives
<1>1. Price(x) \in Int /\ j + 1 \in Int
  <2>1. Price(x) \in Int
    BY TypesFacts
  <2>2. j \in Nat
    BY DEF Types
  <2>3. QED
    BY <2>1, <2>2
<1>2. [o EXCEPT !.open = FALSE, !.price = Price(x), !.at = j + 1] \in Lives
  BY <1>1 DEF Lives
<1>3. Watched(o, Price(x), j + 1) \in Lives
  BY <1>1, TypesFacts, WatchedType
<1>4. QED
  BY <1>2, <1>3 DEF Opened

\* The bar that closes and what the next one starts from.
Closing(flip, trail, end, gap) ==
  LET kept == IF live.open THEN Managed(flip, Entry + trail) ELSE live
  IN  /\ sims' = Judged(flip, Entry + trail)
      /\ over' = end
      /\ flipped' = flip
      /\ IF end
         THEN live' = kept /\ UNCHANGED <<bid, ticks, minutes, j>>
         ELSE /\ live' = Opened(kept, bid + gap)
              /\ bid' = bid + gap
              /\ ticks' = Ticks /\ minutes' = <<Point(bid + gap)>> /\ j' = j + 1
      /\ UNCHANGED <<plan, side, spread, order>>
      /\ flip \in BOOLEAN /\ trail \in Int /\ end \in BOOLEAN /\ gap \in Int
      /\ plan = "range" => ~flip
      /\ plan \notin {"ratchet", "path"} => trail = -Far
      /\ plan \in {"ratchet", "path"} => trail \in Trails
      /\ j = Horizon - 1 => end

LEMMA CloseFacts ==
  ASSUME CloseBar
  PROVE  \E flip, trail, end, gap : Closing(flip, trail, end, gap)
<1>1. PICK flip \in (IF plan = "range" THEN {FALSE} ELSE BOOLEAN),
           trail \in (IF plan \in {"ratchet", "path"} THEN Trails ELSE {-Far}),
           end \in (IF j = Horizon - 1 THEN {TRUE} ELSE BOOLEAN) : \E gap \in (IF end THEN {0} ELSE Gaps) :
         LET kept == IF live.open THEN Managed(flip, Entry + trail) ELSE live
         IN  /\ sims' = Judged(flip, Entry + trail)
             /\ over' = end
             /\ flipped' = flip
             /\ IF end
                THEN live' = kept /\ UNCHANGED <<bid, ticks, minutes, j>>
                ELSE /\ live' = Opened(kept, bid + gap)
                     /\ bid' = bid + gap
                     /\ ticks' = Ticks /\ minutes' = <<Point(bid + gap)>> /\ j' = j + 1
  BY DEF CloseBar
<1>2. PICK gap \in (IF end THEN {0} ELSE Gaps) :
         LET kept == IF live.open THEN Managed(flip, Entry + trail) ELSE live
         IN  /\ sims' = Judged(flip, Entry + trail)
             /\ over' = end
             /\ flipped' = flip
             /\ IF end
                THEN live' = kept /\ UNCHANGED <<bid, ticks, minutes, j>>
                ELSE /\ live' = Opened(kept, bid + gap)
                     /\ bid' = bid + gap
                     /\ ticks' = Ticks /\ minutes' = <<Point(bid + gap)>> /\ j' = j + 1
  BY <1>1
<1>3. gap \in Int
  BY PathAssumption
<1>4. trail \in Int
  BY PathAssumption DEF Far
<1>5. UNCHANGED <<plan, side, spread, order>>
  BY DEF CloseBar
<1>6. flip \in BOOLEAN /\ end \in BOOLEAN /\ (plan = "range" => ~flip) /\ (j = Horizon - 1 => end)
      /\ (plan \notin {"ratchet", "path"} => trail = -Far) /\ (plan \in {"ratchet", "path"} => trail \in Trails)
  OBVIOUS
<1>7. Closing(flip, trail, end, gap)
  BY <1>2, <1>3, <1>4, <1>5, <1>6 DEF Closing
<1>8. QED
  BY <1>7

LEMMA TypesClose ==
  ASSUME Types, CloseBar
  PROVE  Types'
<1>1. PICK flip, trail, end, gap : Closing(flip, trail, end, gap)
  BY CloseFacts
<1> DEFINE kept == IF live.open THEN Managed(flip, Entry + trail) ELSE live
<1>2. kept \in Lives
  <2>1. Entry + trail \in Int
    BY <1>1, TypesFacts DEF Closing
  <2>2. Managed(flip, Entry + trail) \in Lives
    BY <1>1, <2>1, ManagedType DEF Closing
  <2>3. QED
    BY <2>2 DEF Types
<1>3. /\ UNCHANGED <<plan, side, spread, order>>
      /\ flipped' \in BOOLEAN /\ over' \in BOOLEAN
      /\ DOMAIN sims' = Simulators(plan)
  BY <1>1 DEF Closing, Judged
<1>4. CASE end
  BY <1>1, <1>2, <1>3, <1>4 DEF Closing, Types
<1>5. CASE ~end
  <2>1. bid' = bid + gap /\ bid' \in Int /\ minutes' = <<Point(bid + gap)>> /\ j' = j + 1 /\ live' = Opened(kept, bid + gap)
    BY <1>1, <1>5 DEF Closing, Types
  <2>2. live' \in Lives
    BY <1>2, <2>1, OpenedType
  <2>3. Point(bid') \in MinuteBars /\ Point(bid').c = bid'
    BY <2>1 DEF Point, MinuteBars
  <2>4. minutes' \in Seq(MinuteBars) /\ minutes' # <<>> /\ minutes'[Len(minutes')].c = bid'
    BY <2>1, <2>3
  <2>5. j' \in Nat /\ j' > 0
    BY <2>1 DEF Types
  <2>6. QED
    BY <1>3, <2>1, <2>2, <2>4, <2>5 DEF Types
<1>6. QED
  BY <1>1, <1>4, <1>5 DEF Closing

LEMMA TypesNext == Types /\ [Next]_vars => Types'
<1> SUFFICES ASSUME Types, [Next]_vars PROVE Types'
  OBVIOUS
<1>1. CASE UNCHANGED vars
  BY <1>1 DEF Types, vars
<1>2. QED
  BY <1>1, TypesMove, TypesMinute, TypesClose, TypesRest DEF Next

-----------------------------------------------------------------------------
(* The reference and the harness.                                          *)

\* Trade by trade: the two are equal stop first, and with the order chosen in
\* the trade's favour alike; what the harness still has open is untouched.
Agreement ==
  plan = "policy" =>
    /\ Shaped(sims["pess"], Entry - Risk) /\ Shaped(sims["opt"], Entry - Risk)
    /\ sims["refPess"] = sims["pess"]
    /\ Alike(sims["refAdm"], sims["opt"])

LEMMA AgreementInit == Init => Agreement
<1> SUFFICES ASSUME Init, plan = "policy" PROVE Agreement
  BY DEF Agreement
<1>1. sims = [n \in Simulators("policy") |-> Trade(Entry - Risk)]
  BY DEF Init
<1>2. {"pess", "opt", "refPess", "refAdm"} \subseteq Simulators("policy")
  BY DEF Simulators
<1>3. /\ sims["pess"] = Trade(Entry - Risk) /\ sims["opt"] = Trade(Entry - Risk)
      /\ sims["refPess"] = Trade(Entry - Risk) /\ sims["refAdm"] = Trade(Entry - Risk)
  BY <1>1, <1>2
<1>4. Trade(Entry - Risk) = Clean(FALSE, Entry - Risk)
  BY DEF Trade, Clean
<1>5. QED
  BY <1>3, <1>4 DEF Agreement, Shaped, Alike

\* A simulated trade that is over stays as it is.
Stays(t, b, subs, e, at, flip) ==
  /\ \A mode : RefOne(t, b, subs, e, at, flip, mode) = t
  /\ SimulateBar(t, b, e, at, flip, TRUE) = t
  /\ SimulateBar(t, b, e, at, flip, FALSE) = t

LEMMA ClosedStays ==
  ASSUME NEW t, ~t.open, NEW b, NEW subs, NEW e, NEW at, NEW flip
  PROVE  Stays(t, b, subs, e, at, flip)
<1>1. \A mode : RefOne(t, b, subs, e, at, flip, mode) = AtTime(t, b, at)
  BY DEF RefOne
<1>2. /\ SimulateBar(t, b, e, at, flip, TRUE) = AtTime(t, b, at)
      /\ SimulateBar(t, b, e, at, flip, FALSE) = AtTime(t, b, at)
  BY DEF SimulateBar, Closed
<1>3. AtTime(t, b, at) = t
  BY DEF AtTime, Closed
<1>4. QED
  BY <1>1, <1>2, <1>3 DEF Stays

\* The bar the simulators are given.
JudgedBar == SideBar(side, Merged(minutes), spread)

LEMMA JudgedBarIs ==
  ASSUME Types
  PROVE  JudgedBar \in MinuteBars /\ RefSideBar(side, Merged(minutes), spread) = JudgedBar
<1>1. MinuteList(minutes) /\ spread \in Int
  BY TypesFacts
<1>2. Merged(minutes) \in MinuteBars
  BY <1>1, MergedCovers DEF Covers
<1>3. QED
  BY <1>1, <1>2, SideBars DEF Types, JudgedBar

LEMMA JudgedPolicy ==
  ASSUME plan = "policy", RefSideBar(side, Merged(minutes), spread) = JudgedBar, NEW flip, NEW cand
  PROVE  LET w == Judged(flip, cand)
             subs == SubBars
         IN  /\ w["pess"] = SimulateBar(sims["pess"], JudgedBar, Entry, j, flipped, FALSE)
             /\ w["opt"] = SimulateBar(sims["opt"], JudgedBar, Entry, j, flipped, TRUE)
             /\ w["refPess"] = RefOne(sims["refPess"], JudgedBar, subs, Entry, j, flipped, "pess")
             /\ w["refAdm"] = RefOne(sims["refAdm"], JudgedBar, subs, Entry, j, flipped, "adm")
             /\ w["refM1"] = RefOne(sims["refM1"], JudgedBar, subs, Entry, j, flipped, "m1")
<1>1. Simulators(plan) = {"pess", "opt", "refPess", "refAdm", "refM1"}
  BY DEF Simulators
<1>2. QED
  BY <1>1 DEF Judged, JudgedBar

LEMMA AgreementClose ==
  ASSUME Types, Agreement, CloseBar
  PROVE  Agreement'
<1> SUFFICES ASSUME plan' = "policy" PROVE Agreement'
  BY DEF Agreement
<1>1. PICK flip, trail, end, gap : Closing(flip, trail, end, gap)
  BY CloseFacts
<1>2. plan = "policy" /\ order' = order /\ sims' = Judged(flip, Entry + trail)
  BY <1>1 DEF Closing
<1> DEFINE b == JudgedBar
           subs == SubBars
           s == Entry - Risk
<1>3. b \in MinuteBars /\ Entry \in Int
  BY JudgedBarIs, TypesFacts
<1>4. /\ sims'["pess"] = SimulateBar(sims["pess"], b, Entry, j, flipped, FALSE)
      /\ sims'["opt"] = SimulateBar(sims["opt"], b, Entry, j, flipped, TRUE)
      /\ sims'["refPess"] = RefOne(sims["refPess"], b, subs, Entry, j, flipped, "pess")
      /\ sims'["refAdm"] = RefOne(sims["refAdm"], b, subs, Entry, j, flipped, "adm")
  BY <1>2, JudgedBarIs, JudgedPolicy
<1>5. /\ Shaped(sims["pess"], s) /\ Shaped(sims["opt"], s)
      /\ sims["refPess"] = sims["pess"] /\ Alike(sims["refAdm"], sims["opt"])
  BY <1>2 DEF Agreement
<1> HIDE DEF b, subs, s
<1>a. AgreeOn(sims["pess"], b, subs, Entry, s, j, flipped) /\ AgreeOn(sims["opt"], b, subs, Entry, s, j, flipped)
  BY <1>3, <1>5, BarsAgree
<1>6. sims'["refPess"] = sims'["pess"] /\ Shaped(sims'["pess"], s)
  <2>1. RefOne(sims["pess"], b, subs, Entry, j, flipped, "pess") = SimulateBar(sims["pess"], b, Entry, j, flipped, FALSE)
    BY <1>a DEF AgreeOn
  <2>2. Shaped(SimulateBar(sims["pess"], b, Entry, j, flipped, FALSE), s)
    BY <1>a DEF AgreeOn
  <2>3. QED
    BY <1>4, <1>5, <2>1, <2>2
<1>7. Shaped(sims'["opt"], s) /\ Alike(RefOne(sims["opt"], b, subs, Entry, j, flipped, "adm"), sims'["opt"])
  <2>1. /\ Alike(RefOne(sims["opt"], b, subs, Entry, j, flipped, "adm"), SimulateBar(sims["opt"], b, Entry, j, flipped, TRUE))
        /\ Shaped(SimulateBar(sims["opt"], b, Entry, j, flipped, TRUE), s)
    BY <1>a DEF AgreeOn
  <2>2. QED
    BY <1>4, <2>1
<1>8. Alike(sims'["refAdm"], sims'["opt"])
  <2>1. CASE sims["refAdm"] = sims["opt"]
    BY <1>4, <1>7, <2>1
  <2>2. CASE ~sims["opt"].open /\ ~sims["refAdm"].open
    <3>1. Stays(sims["refAdm"], b, subs, Entry, j, flipped) /\ Stays(sims["opt"], b, subs, Entry, j, flipped)
      BY <2>2, ClosedStays
    <3>2. /\ RefOne(sims["refAdm"], b, subs, Entry, j, flipped, "adm") = sims["refAdm"]
          /\ SimulateBar(sims["opt"], b, Entry, j, flipped, TRUE) = sims["opt"]
      BY <3>1 DEF Stays
    <3>3. QED
      BY <1>4, <1>5, <3>2
  <2>3. sims["refAdm"] = sims["opt"] \/ (~sims["opt"].open /\ ~sims["refAdm"].open)
    BY <1>5, DoneClosed DEF Alike
  <2>4. QED
    BY <2>1, <2>2, <2>3
<1>9. (Entry - Risk)' = s
  BY <1>2 DEF s, Entry
<1>10. QED
  BY <1>2, <1>6, <1>7, <1>8, <1>9 DEF Agreement

LEMMA AgreementNext == Types /\ Agreement /\ [Next]_vars => Agreement'
<1> SUFFICES ASSUME Types, Agreement, [Next]_vars PROVE Agreement'
  OBVIOUS
<1>1. ASSUME UNCHANGED <<plan, sims>>, order'.price = order.price PROVE Agreement'
  BY <1>1 DEF Agreement, Entry
<1>2. CASE UNCHANGED vars
  BY <1>1, <1>2 DEF vars
<1>3. ASSUME NEW d \in {-1, 1}, Move(d) PROVE Agreement'
  <2>1. UNCHANGED <<plan, sims>>
    BY <1>3 DEF Move
  <2>2. order'.price = order.price
    BY <1>3 DEF Move, Types, Orders
  <2>3. QED
    BY <1>1, <2>1, <2>2
<1>4. CASE NextMinute
  BY <1>1, <1>4 DEF NextMinute
<1>5. CASE RestOn
  BY <1>5 DEF RestOn, Resting, Types, Agreement
<1>6. QED
  BY <1>2, <1>3, <1>4, <1>5, AgreementClose DEF Next

LEMMA AgreementImplies == Agreement => ReferenceAgrees
<1> SUFFICES ASSUME Agreement, plan = "policy"
             PROVE  /\ sims["refPess"] = sims["pess"]
                    /\ \A f \in {"open", "price", "at", "why", "amb"} : sims["refAdm"][f] = sims["opt"][f]
  BY DEF ReferenceAgrees
<1>1. CASE sims["refAdm"] = sims["opt"]
  BY <1>1 DEF Agreement
<1>2. ASSUME NEW s, NEW why, NEW price, NEW at,
             sims["refAdm"] = Done(FALSE, TRUE, s, why, price, at), sims["opt"] = Done(TRUE, TRUE, s, why, price, at)
      PROVE  \A f \in {"open", "price", "at", "why", "amb"} : sims["refAdm"][f] = sims["opt"][f]
  <2> DEFINE r == sims["refAdm"]
             o == sims["opt"]
  <2>1. /\ r.open = FALSE /\ r.price = price /\ r.at = at /\ r.why = why /\ r.amb = TRUE
        /\ o.open = FALSE /\ o.price = price /\ o.at = at /\ o.why = why /\ o.amb = TRUE
    BY <1>2 DEF Done
  <2>2. QED
    BY <2>1
<1>3. QED
  BY <1>1, <1>2 DEF Agreement, Alike

\* The audit's scalar reference and the harness judge every bar alike: with the
\* stop first they give the same trade in every field, and the reference's
\* admissible order is the harness's optimistic bound in all that is reported
\* of a trade (fixtures.py ref_one against labels_v2.simulate).
THEOREM Agrees == Spec => []ReferenceAgrees
<1>1. Init => Types /\ Agreement
  BY TypesInit, AgreementInit
<1>2. Types /\ Agreement /\ [Next]_vars => Types' /\ Agreement'
  BY TypesNext, AgreementNext
<1>3. QED
  BY <1>1, <1>2, AgreementImplies, PTL DEF Spec

-----------------------------------------------------------------------------
(* A bar of the harness against the orders watched through it.             *)

\* What a simulated trade says after a bar, v, and the orders, o.
Judges(v, o, s, at) ==
  /\ o.open => (o.touched => v = Clean(TRUE, s)) /\ (~o.touched => v = Clean(FALSE, s))
  /\ ~o.open => /\ v.open = FALSE /\ v.at = at /\ v.price \in Int
                /\ v.amb = FALSE => /\ v.price = o.price
                                    /\ o.touched => v.armed = TRUE
                                    /\ ~o.touched => v.armed = FALSE
                /\ v.amb \in BOOLEAN
Lower(v, o) == ~o.open => v.price <= o.price
Upper(v, o) == ~o.open => v.price >= o.price

LEMMA UnarmedJudges ==
  ASSUME NEW b \in MinuteBars, NEW e \in Int, NEW s, NEW at, NEW o \in Lives,
         ~o.armed, BarOutcome(b, e - Risk, e + Runner, e + Arm, o)
  PROVE  /\ Judges(UnarmedBar(Clean(FALSE, s), b, e, at, FALSE), o, s, at)
         /\ Lower(UnarmedBar(Clean(FALSE, s), b, e, at, FALSE), o)
         /\ Judges(UnarmedBar(Clean(FALSE, s), b, e, at, TRUE), o, s, at)
         /\ Upper(UnarmedBar(Clean(FALSE, s), b, e, at, TRUE), o)
<1> DEFINE S == e - Risk
           A == e + Arm
           T == e + Runner
           p == UnarmedBar(Clean(FALSE, s), b, e, at, FALSE)
           q == UnarmedBar(Clean(FALSE, s), b, e, at, TRUE)
<1>1. S \in Int /\ A \in Int /\ T \in Int /\ S < A /\ A < T /\ o.price \in Int
      /\ b.o \in Int /\ b.l \in Int /\ b.h \in Int /\ b.l <= b.o /\ b.o <= b.h
  BY PolicyAssumption DEF MinuteBars, Lives
<1>2. UnarmedTable(p, b, e, s, at, FALSE) /\ UnarmedTable(q, b, e, s, at, TRUE)
  BY UnarmedRows
<1> HIDE DEF p, q
<1>3. SUFFICES Judges(p, o, s, at) /\ Lower(p, o) /\ Judges(q, o, s, at) /\ Upper(q, o)
  BY DEF p, q
<1>4. BarOutcome(b, S, T, A, o)
  OBVIOUS
<1>5. (b.o <= S \/ Inside(b, S, A) \/ b.o >= A) /\ (b.o >= T \/ b.o < T)
  BY <1>1 DEF Inside
<1>6. CASE b.o <= S
  <2>1. p = Done(FALSE, FALSE, s, "stop", b.o, at) /\ q = p
    BY <1>1, <1>2, <1>6 DEF UnarmedTable
  <2> HIDE DEF S, A, T
  <2>2. ~o.open /\ o.price = b.o /\ ~o.touched
    BY <1>1, <1>4, <1>6 DEF BarOutcome, Stops, Inside, Falls, Climbs
  <2>3. /\ p.open = FALSE /\ p.at = at /\ p.price = b.o /\ p.armed = FALSE /\ p.amb = FALSE
        /\ q.open = FALSE /\ q.at = at /\ q.price = b.o /\ q.armed = FALSE /\ q.amb = FALSE
    BY <2>1 DEF Done
  <2>4. Judges(p, o, s, at)
    BY <1>1, <2>2, <2>3 DEF Judges
  <2>5. Judges(q, o, s, at)
    BY <1>1, <2>2, <2>3 DEF Judges
  <2>6. Lower(p, o) /\ Upper(q, o)
    BY <1>1, <2>2, <2>3 DEF Lower, Upper
  <2>7. QED
    BY <2>4, <2>5, <2>6
<1>7. CASE Inside(b, S, A) /\ Falls(b, S) /\ ~Climbs(b, A)
  <2>1. p = Done(FALSE, FALSE, s, "stop", S, at) /\ q = p
    BY <1>1, <1>2, <1>7 DEF UnarmedTable
  <2> HIDE DEF S, A, T
  <2>2. ~o.open /\ o.price = S /\ ~o.touched
    BY <1>1, <1>4, <1>7 DEF BarOutcome, Stops, Inside, Falls, Climbs
  <2>3. /\ p.open = FALSE /\ p.at = at /\ p.price = S /\ p.armed = FALSE /\ p.amb = FALSE
        /\ q.open = FALSE /\ q.at = at /\ q.price = S /\ q.armed = FALSE /\ q.amb = FALSE
    BY <2>1 DEF Done
  <2>4. Judges(p, o, s, at)
    BY <1>1, <2>2, <2>3 DEF Judges
  <2>5. Judges(q, o, s, at)
    BY <1>1, <2>2, <2>3 DEF Judges
  <2>6. Lower(p, o) /\ Upper(q, o)
    BY <1>1, <2>2, <2>3 DEF Lower, Upper
  <2>7. QED
    BY <2>4, <2>5, <2>6
<1>8. CASE Inside(b, S, A) /\ Falls(b, S) /\ Climbs(b, A) /\ ~Climbs(b, T)
  <2>1. p = Done(FALSE, TRUE, s, "stop", S, at) /\ q = Done(TRUE, TRUE, s, "stop", S, at)
    BY <1>1, <1>2, <1>8 DEF UnarmedTable
  <2> HIDE DEF S, A, T
  <2>2. ~o.open /\ o.price = S
    BY <1>1, <1>4, <1>8 DEF BarOutcome, Stops, Inside, Falls, Climbs
  <2>3. /\ p.open = FALSE /\ p.at = at /\ p.price = S /\ p.armed = FALSE /\ p.amb = TRUE
        /\ q.open = FALSE /\ q.at = at /\ q.price = S /\ q.armed = TRUE /\ q.amb = TRUE
    BY <2>1 DEF Done
  <2>4. Judges(p, o, s, at)
    BY <1>1, <2>2, <2>3 DEF Judges
  <2>5. Judges(q, o, s, at)
    BY <1>1, <2>2, <2>3 DEF Judges
  <2>6. Lower(p, o) /\ Upper(q, o)
    BY <1>1, <2>2, <2>3 DEF Lower, Upper
  <2>7. QED
    BY <2>4, <2>5, <2>6
<1>9. CASE Inside(b, S, A) /\ Falls(b, S) /\ Climbs(b, A) /\ Climbs(b, T)
  <2>1. p = Done(FALSE, TRUE, s, "stop", S, at) /\ q = Done(TRUE, TRUE, s, "target", T, at)
    BY <1>1, <1>2, <1>9 DEF UnarmedTable
  <2> HIDE DEF S, A, T
  <2>2. ~o.open /\ S <= o.price /\ o.price <= T
    BY <1>1, <1>4, <1>9 DEF BarOutcome, Stops, Inside, Falls, Climbs
  <2>3. /\ p.open = FALSE /\ p.at = at /\ p.price = S /\ p.armed = FALSE /\ p.amb = TRUE
        /\ q.open = FALSE /\ q.at = at /\ q.price = T /\ q.armed = TRUE /\ q.amb = TRUE
    BY <2>1 DEF Done
  <2>4. Judges(p, o, s, at)
    BY <1>1, <2>2, <2>3 DEF Judges
  <2>5. Judges(q, o, s, at)
    BY <1>1, <2>2, <2>3 DEF Judges
  <2>6. Lower(p, o) /\ Upper(q, o)
    BY <1>1, <2>2, <2>3 DEF Lower, Upper
  <2>7. QED
    BY <2>4, <2>5, <2>6
<1>10. CASE Inside(b, S, A) /\ ~Falls(b, S) /\ ~Climbs(b, A)
  <2>1. p = Clean(FALSE, s) /\ q = p
    BY <1>1, <1>2, <1>10 DEF UnarmedTable
  <2> HIDE DEF S, A, T
  <2>2. o.open /\ ~o.touched
    BY <1>1, <1>4, <1>10 DEF BarOutcome, Stops, Inside, Falls, Climbs
  <2>3. QED
    BY <2>1, <2>2 DEF Judges, Lower, Upper
<1>11. CASE Inside(b, S, A) /\ ~Falls(b, S) /\ Climbs(b, A) /\ ~Climbs(b, T)
  <2>1. p = Clean(TRUE, s) /\ q = p
    BY <1>1, <1>2, <1>11 DEF UnarmedTable
  <2> HIDE DEF S, A, T
  <2>2. o.open /\ o.touched
    BY <1>1, <1>4, <1>11 DEF BarOutcome, Stops, Inside, Falls, Climbs
  <2>3. QED
    BY <2>1, <2>2 DEF Judges, Lower, Upper
<1>12. CASE Inside(b, S, A) /\ ~Falls(b, S) /\ Climbs(b, A) /\ Climbs(b, T)
  <2>1. p = Done(TRUE, FALSE, s, "target", T, at) /\ q = p
    BY <1>1, <1>2, <1>12 DEF UnarmedTable
  <2> HIDE DEF S, A, T
  <2>2. ~o.open /\ o.price = T /\ o.touched
    BY <1>1, <1>4, <1>12 DEF BarOutcome, Stops, Inside, Falls, Climbs
  <2>3. /\ p.open = FALSE /\ p.at = at /\ p.price = T /\ p.armed = TRUE /\ p.amb = FALSE
        /\ q.open = FALSE /\ q.at = at /\ q.price = T /\ q.armed = TRUE /\ q.amb = FALSE
    BY <2>1 DEF Done
  <2>4. Judges(p, o, s, at)
    BY <1>1, <2>2, <2>3 DEF Judges
  <2>5. Judges(q, o, s, at)
    BY <1>1, <2>2, <2>3 DEF Judges
  <2>6. Lower(p, o) /\ Upper(q, o)
    BY <1>1, <2>2, <2>3 DEF Lower, Upper
  <2>7. QED
    BY <2>4, <2>5, <2>6
<1>13. CASE b.o >= A /\ b.o >= T
  <2>1. p = Done(TRUE, FALSE, s, "target", b.o, at) /\ q = p
    BY <1>1, <1>2, <1>13 DEF UnarmedTable
  <2> HIDE DEF S, A, T
  <2>2. ~o.open /\ o.price = b.o /\ o.touched
    BY <1>1, <1>4, <1>13 DEF BarOutcome, Stops, Inside, Falls, Climbs
  <2>3. /\ p.open = FALSE /\ p.at = at /\ p.price = b.o /\ p.armed = TRUE /\ p.amb = FALSE
        /\ q.open = FALSE /\ q.at = at /\ q.price = b.o /\ q.armed = TRUE /\ q.amb = FALSE
    BY <2>1 DEF Done
  <2>4. Judges(p, o, s, at)
    BY <1>1, <2>2, <2>3 DEF Judges
  <2>5. Judges(q, o, s, at)
    BY <1>1, <2>2, <2>3 DEF Judges
  <2>6. Lower(p, o) /\ Upper(q, o)
    BY <1>1, <2>2, <2>3 DEF Lower, Upper
  <2>7. QED
    BY <2>4, <2>5, <2>6
<1>14. CASE b.o >= A /\ b.o < T /\ Falls(b, S) /\ Climbs(b, T)
  <2>1. p = Done(TRUE, TRUE, s, "stop", S, at) /\ q = Done(TRUE, TRUE, s, "target", T, at)
    BY <1>1, <1>2, <1>14 DEF UnarmedTable
  <2> HIDE DEF S, A, T
  <2>2. ~o.open /\ S <= o.price /\ o.price <= T
    BY <1>1, <1>4, <1>14 DEF BarOutcome, Stops, Inside, Falls, Climbs
  <2>3. /\ p.open = FALSE /\ p.at = at /\ p.price = S /\ p.armed = TRUE /\ p.amb = TRUE
        /\ q.open = FALSE /\ q.at = at /\ q.price = T /\ q.armed = TRUE /\ q.amb = TRUE
    BY <2>1 DEF Done
  <2>4. Judges(p, o, s, at)
    BY <1>1, <2>2, <2>3 DEF Judges
  <2>5. Judges(q, o, s, at)
    BY <1>1, <2>2, <2>3 DEF Judges
  <2>6. Lower(p, o) /\ Upper(q, o)
    BY <1>1, <2>2, <2>3 DEF Lower, Upper
  <2>7. QED
    BY <2>4, <2>5, <2>6
<1>15. CASE b.o >= A /\ b.o < T /\ Falls(b, S) /\ ~Climbs(b, T)
  <2>1. p = Done(TRUE, FALSE, s, "stop", S, at) /\ q = p
    BY <1>1, <1>2, <1>15 DEF UnarmedTable
  <2> HIDE DEF S, A, T
  <2>2. ~o.open /\ o.price = S /\ o.touched
    BY <1>1, <1>4, <1>15 DEF BarOutcome, Stops, Inside, Falls, Climbs
  <2>3. /\ p.open = FALSE /\ p.at = at /\ p.price = S /\ p.armed = TRUE /\ p.amb = FALSE
        /\ q.open = FALSE /\ q.at = at /\ q.price = S /\ q.armed = TRUE /\ q.amb = FALSE
    BY <2>1 DEF Done
  <2>4. Judges(p, o, s, at)
    BY <1>1, <2>2, <2>3 DEF Judges
  <2>5. Judges(q, o, s, at)
    BY <1>1, <2>2, <2>3 DEF Judges
  <2>6. Lower(p, o) /\ Upper(q, o)
    BY <1>1, <2>2, <2>3 DEF Lower, Upper
  <2>7. QED
    BY <2>4, <2>5, <2>6
<1>16. CASE b.o >= A /\ b.o < T /\ ~Falls(b, S) /\ Climbs(b, T)
  <2>1. p = Done(TRUE, FALSE, s, "target", T, at) /\ q = p
    BY <1>1, <1>2, <1>16 DEF UnarmedTable
  <2> HIDE DEF S, A, T
  <2>2. ~o.open /\ o.price = T /\ o.touched
    BY <1>1, <1>4, <1>16 DEF BarOutcome, Stops, Inside, Falls, Climbs
  <2>3. /\ p.open = FALSE /\ p.at = at /\ p.price = T /\ p.armed = TRUE /\ p.amb = FALSE
        /\ q.open = FALSE /\ q.at = at /\ q.price = T /\ q.armed = TRUE /\ q.amb = FALSE
    BY <2>1 DEF Done
  <2>4. Judges(p, o, s, at)
    BY <1>1, <2>2, <2>3 DEF Judges
  <2>5. Judges(q, o, s, at)
    BY <1>1, <2>2, <2>3 DEF Judges
  <2>6. Lower(p, o) /\ Upper(q, o)
    BY <1>1, <2>2, <2>3 DEF Lower, Upper
  <2>7. QED
    BY <2>4, <2>5, <2>6
<1>17. CASE b.o >= A /\ b.o < T /\ ~Falls(b, S) /\ ~Climbs(b, T)
  <2>1. p = Clean(TRUE, s) /\ q = p
    BY <1>1, <1>2, <1>17 DEF UnarmedTable
  <2> HIDE DEF S, A, T
  <2>2. o.open /\ o.touched
    BY <1>1, <1>4, <1>17 DEF BarOutcome, Stops, Inside, Falls, Climbs
  <2>3. QED
    BY <2>1, <2>2 DEF Judges, Lower, Upper
<1>18. QED
  BY <1>5, <1>6, <1>7, <1>8, <1>9, <1>10, <1>11, <1>12, <1>13, <1>14, <1>15, <1>16, <1>17

LEMMA ArmedJudges ==
  ASSUME NEW b \in MinuteBars, NEW e \in Int, NEW s, NEW at, NEW o \in Lives,
         o.armed, BarOutcome(b, e, e + Runner, e + Arm, o)
  PROVE  /\ Judges(ArmedBar(Clean(TRUE, s), b, e, at, FALSE), o, s, at)
         /\ Lower(ArmedBar(Clean(TRUE, s), b, e, at, FALSE), o)
         /\ Judges(ArmedBar(Clean(TRUE, s), b, e, at, TRUE), o, s, at)
         /\ Upper(ArmedBar(Clean(TRUE, s), b, e, at, TRUE), o)
<1> DEFINE S == e
           A == e + Arm
           T == e + Runner
           p == ArmedBar(Clean(TRUE, s), b, e, at, FALSE)
           q == ArmedBar(Clean(TRUE, s), b, e, at, TRUE)
<1>1. S \in Int /\ A \in Int /\ T \in Int /\ S < A /\ A < T /\ o.price \in Int
      /\ b.o \in Int /\ b.l \in Int /\ b.h \in Int /\ b.l <= b.o /\ b.o <= b.h
  BY PolicyAssumption DEF MinuteBars, Lives
<1>2. ArmedTable(p, b, e, s, at, FALSE) /\ ArmedTable(q, b, e, s, at, TRUE)
  BY ArmedRows
<1> HIDE DEF p, q
<1>3. SUFFICES Judges(p, o, s, at) /\ Lower(p, o) /\ Judges(q, o, s, at) /\ Upper(q, o)
  BY DEF p, q
<1>4. BarOutcome(b, S, T, A, o)
  OBVIOUS
<1>5. b.o <= S \/ Inside(b, S, T) \/ (b.o > S /\ b.o >= T)
  BY <1>1 DEF Inside
<1>6. CASE b.o <= S
  <2>1. p = Done(TRUE, FALSE, s, "stop", b.o, at) /\ q = p
    BY <1>1, <1>2, <1>6 DEF ArmedTable
  <2> HIDE DEF S, A, T
  <2>2. ~o.open /\ o.price = b.o /\ o.touched
    BY <1>1, <1>4, <1>6 DEF BarOutcome, Stops, Inside, Falls, Climbs
  <2>3. /\ p.open = FALSE /\ p.at = at /\ p.price = b.o /\ p.armed = TRUE /\ p.amb = FALSE
        /\ q.open = FALSE /\ q.at = at /\ q.price = b.o /\ q.armed = TRUE /\ q.amb = FALSE
    BY <2>1 DEF Done
  <2>4. Judges(p, o, s, at)
    BY <1>1, <2>2, <2>3 DEF Judges
  <2>5. Judges(q, o, s, at)
    BY <1>1, <2>2, <2>3 DEF Judges
  <2>6. Lower(p, o) /\ Upper(q, o)
    BY <1>1, <2>2, <2>3 DEF Lower, Upper
  <2>7. QED
    BY <2>4, <2>5, <2>6
<1>7. CASE b.o > S /\ b.o >= T
  <2>1. p = Done(TRUE, FALSE, s, "target", b.o, at) /\ q = p
    BY <1>1, <1>2, <1>7 DEF ArmedTable
  <2> HIDE DEF S, A, T
  <2>2. ~o.open /\ o.price = b.o /\ o.touched
    BY <1>1, <1>4, <1>7 DEF BarOutcome, Stops, Inside, Falls, Climbs
  <2>3. /\ p.open = FALSE /\ p.at = at /\ p.price = b.o /\ p.armed = TRUE /\ p.amb = FALSE
        /\ q.open = FALSE /\ q.at = at /\ q.price = b.o /\ q.armed = TRUE /\ q.amb = FALSE
    BY <2>1 DEF Done
  <2>4. Judges(p, o, s, at)
    BY <1>1, <2>2, <2>3 DEF Judges
  <2>5. Judges(q, o, s, at)
    BY <1>1, <2>2, <2>3 DEF Judges
  <2>6. Lower(p, o) /\ Upper(q, o)
    BY <1>1, <2>2, <2>3 DEF Lower, Upper
  <2>7. QED
    BY <2>4, <2>5, <2>6
<1>8. CASE Inside(b, S, T) /\ Falls(b, S) /\ Climbs(b, T)
  <2>1. p = Done(TRUE, TRUE, s, "stop", S, at) /\ q = Done(TRUE, TRUE, s, "target", T, at)
    BY <1>1, <1>2, <1>8 DEF ArmedTable
  <2> HIDE DEF S, A, T
  <2>2. ~o.open /\ S <= o.price /\ o.price <= T
    BY <1>1, <1>4, <1>8 DEF BarOutcome, Stops, Inside, Falls, Climbs
  <2>3. /\ p.open = FALSE /\ p.at = at /\ p.price = S /\ p.armed = TRUE /\ p.amb = TRUE
        /\ q.open = FALSE /\ q.at = at /\ q.price = T /\ q.armed = TRUE /\ q.amb = TRUE
    BY <2>1 DEF Done
  <2>4. Judges(p, o, s, at)
    BY <1>1, <2>2, <2>3 DEF Judges
  <2>5. Judges(q, o, s, at)
    BY <1>1, <2>2, <2>3 DEF Judges
  <2>6. Lower(p, o) /\ Upper(q, o)
    BY <1>1, <2>2, <2>3 DEF Lower, Upper
  <2>7. QED
    BY <2>4, <2>5, <2>6
<1>9. CASE Inside(b, S, T) /\ Falls(b, S) /\ ~Climbs(b, T)
  <2>1. p = Done(TRUE, FALSE, s, "stop", S, at) /\ q = p
    BY <1>1, <1>2, <1>9 DEF ArmedTable
  <2> HIDE DEF S, A, T
  <2>2. ~o.open /\ o.price = S /\ o.touched
    BY <1>1, <1>4, <1>9 DEF BarOutcome, Stops, Inside, Falls, Climbs
  <2>3. /\ p.open = FALSE /\ p.at = at /\ p.price = S /\ p.armed = TRUE /\ p.amb = FALSE
        /\ q.open = FALSE /\ q.at = at /\ q.price = S /\ q.armed = TRUE /\ q.amb = FALSE
    BY <2>1 DEF Done
  <2>4. Judges(p, o, s, at)
    BY <1>1, <2>2, <2>3 DEF Judges
  <2>5. Judges(q, o, s, at)
    BY <1>1, <2>2, <2>3 DEF Judges
  <2>6. Lower(p, o) /\ Upper(q, o)
    BY <1>1, <2>2, <2>3 DEF Lower, Upper
  <2>7. QED
    BY <2>4, <2>5, <2>6
<1>10. CASE Inside(b, S, T) /\ ~Falls(b, S) /\ Climbs(b, T)
  <2>1. p = Done(TRUE, FALSE, s, "target", T, at) /\ q = p
    BY <1>1, <1>2, <1>10 DEF ArmedTable
  <2> HIDE DEF S, A, T
  <2>2. ~o.open /\ o.price = T /\ o.touched
    BY <1>1, <1>4, <1>10 DEF BarOutcome, Stops, Inside, Falls, Climbs
  <2>3. /\ p.open = FALSE /\ p.at = at /\ p.price = T /\ p.armed = TRUE /\ p.amb = FALSE
        /\ q.open = FALSE /\ q.at = at /\ q.price = T /\ q.armed = TRUE /\ q.amb = FALSE
    BY <2>1 DEF Done
  <2>4. Judges(p, o, s, at)
    BY <1>1, <2>2, <2>3 DEF Judges
  <2>5. Judges(q, o, s, at)
    BY <1>1, <2>2, <2>3 DEF Judges
  <2>6. Lower(p, o) /\ Upper(q, o)
    BY <1>1, <2>2, <2>3 DEF Lower, Upper
  <2>7. QED
    BY <2>4, <2>5, <2>6
<1>11. CASE Inside(b, S, T) /\ ~Falls(b, S) /\ ~Climbs(b, T)
  <2>1. p = Clean(TRUE, s) /\ q = p
    BY <1>1, <1>2, <1>11 DEF ArmedTable
  <2> HIDE DEF S, A, T
  <2>2. o.open /\ o.touched
    BY <1>1, <1>4, <1>11 DEF BarOutcome, Stops, Inside, Falls, Climbs
  <2>3. QED
    BY <2>1, <2>2 DEF Judges, Lower, Upper
<1>12. QED
  BY <1>5, <1>6, <1>7, <1>8, <1>9, <1>10, <1>11

-----------------------------------------------------------------------------
(* The orders while the price moves.                                       *)

\* The orders o after one more price x in bar `at`.
Watches(q, o, x, T, A, at) ==
  /\ q \in Lives /\ q.stop = o.stop /\ q.armed = o.armed /\ q.leave = o.leave
  /\ ~o.open => q = o
  /\ o.open /\ (x <= o.stop \/ x >= T) => ~q.open /\ q.price = x /\ q.at = at
  /\ o.open /\ ~(x <= o.stop \/ x >= T) => q.open /\ q.price = 0 /\ q.at = -1
  /\ o.open => (q.touched <=> (o.touched \/ x >= A))

LEMMA WatchedIs ==
  ASSUME Entry \in Int, Target \in Int, NEW o \in Lives, NEW p \in Int, NEW at \in Int
  PROVE  Watches(Watched(o, p, at), o, p, Target, Entry + Arm, at)
<1> DEFINE hit == p <= o.stop \/ p >= Target
           t == o.touched \/ p >= Entry + Arm
<1>1. ASSUME NEW q, q = Watched(o, p, at) PROVE Watches(q, o, p, Target, Entry + Arm, at)
  <2>1. q \in Lives
    BY <1>1, WatchedType
  <2>2. CASE ~o.open
    <3>1. q = o
      BY <1>1, <2>2 DEF Watched
    <3>2. QED
      BY <2>1, <2>2, <3>1 DEF Watches
  <2>3. CASE o.open
    <3>1. q = [o EXCEPT !.open = ~hit, !.price = IF hit THEN p ELSE 0, !.at = IF hit THEN at ELSE -1, !.touched = t]
      BY <1>1, <2>3 DEF Watched
    <3>2. /\ q.stop = o.stop /\ q.armed = o.armed /\ q.leave = o.leave
          /\ q.open = ~hit /\ q.price = (IF hit THEN p ELSE 0) /\ q.at = (IF hit THEN at ELSE -1)
          /\ q.touched = t
      <4> HIDE DEF hit, t
      <4>1. QED
        BY <3>1 DEF Lives
    <3>3. QED
      BY <2>1, <2>3, <3>2 DEF Watches
  <2>4. QED
    BY <2>2, <2>3
<1>2. QED
  BY <1>1

\* The last minute grows by one unit: a level that is reached is reached exactly.
LEMMA OutcomeGrows ==
  ASSUME NEW n \in Nat \ {0}, NEW W, NEW V, \A k \in 1..n : W[k] \in MinuteBars,
         \A k \in 1..(n - 1) : V[k] = W[k], NEW x \in Int, Grows(V[n], W[n], x),
         x = W[n].c + 1 \/ x = W[n].c - 1, NEW T \in Int, NEW A \in Int, NEW at, NEW o \in Lives, NEW q,
         Watches(q, o, x, T, A, at), Outcome(W, n, o.stop, T, A, o)
  PROVE  Outcome(V, n, q.stop, T, A, q)
<1> DEFINE S == o.stop
<1>1. S \in Int /\ q.stop = S /\ q.armed = o.armed /\ q.price \in Int
  BY DEF Watches, Lives
<1>2. /\ W[n].o \in Int /\ W[n].h \in Int /\ W[n].l \in Int /\ W[n].c \in Int
      /\ W[n].l <= W[n].o /\ W[n].o <= W[n].h /\ W[n].l <= W[n].c /\ W[n].c <= W[n].h
  BY DEF MinuteBars
<1>3. /\ V[n].o = W[n].o /\ V[n].h \in {W[n].h, x} /\ V[n].h >= W[n].h /\ V[n].h >= x
      /\ V[n].l \in {W[n].l, x} /\ V[n].l <= W[n].l /\ V[n].l <= x
  BY DEF Grows
<1>4. n \in 1..n /\ \A k \in 1..n : k = n \/ k \in 1..(n - 1)
  OBVIOUS
<1> HIDE DEF S
<1>5. ASSUME ~o.open PROVE Outcome(V, n, S, T, A, q)
  <2>1. q = o
    BY <1>5 DEF Watches
  <2>2. PICK k \in 1..n : HitAt(W, k, S, T, A, o)
    BY <1>5 DEF Outcome, S
  <2>3. HitAt(V, k, S, T, A, o)
    <3>1. CASE k \in 1..(n - 1)
      <4>1. V[k] = W[k] /\ \A i \in 1..(k - 1) : V[i] = W[i]
        BY <3>1
      <4>2. \A i \in 1..k : V[i] = W[i]
        BY <4>1
      <4>3. QED
        BY <2>2, <4>1, <4>2 DEF HitAt
    <3>2. CASE k = n
      <4>1. Stops(V[n], S, T, o.price)
        <5>1. Stops(W[n], S, T, o.price)
          BY <2>2, <3>2 DEF HitAt
        <5>2. QED
          BY <1>1, <1>2, <1>3, <5>1 DEF Stops
      <4>2. V[n].l <= S \/ V[n].h >= T
        BY <1>1, <1>2, <1>3, <2>2, <3>2 DEF HitAt
      <4>3. o.touched => o.armed \/ \E i \in 1..n : V[i].h >= A
        <5>1. ASSUME NEW i \in 1..n, W[i].h >= A PROVE V[i].h >= A
          BY <1>2, <1>3, <1>4, <5>1
        <5>2. o.touched => o.armed \/ \E i \in 1..n : W[i].h >= A
          BY <2>2, <3>2 DEF HitAt
        <5>3. QED
          BY <5>1, <5>2
      <4>4. QED
        BY <1>3, <2>2, <3>2, <4>1, <4>2, <4>3 DEF HitAt
    <3>3. QED
      BY <1>4, <3>1, <3>2
  <2>4. QED
    BY <1>5, <2>1, <2>3 DEF Outcome
<1>6. ASSUME o.open PROVE Outcome(V, n, S, T, A, q)
  <2>1. /\ \A k \in 1..n : W[k].l > S /\ W[k].h < T
        /\ o.touched <=> (o.armed \/ \E k \in 1..n : W[k].h >= A)
    BY <1>6 DEF Outcome, S
  <2>2. W[n].l > S /\ W[n].h < T
    BY <2>1
  <2>3. (\E k \in 1..n : V[k].h >= A) <=> (x >= A \/ \E k \in 1..n : W[k].h >= A)
    <3>1. ASSUME NEW k \in 1..n, W[k].h >= A PROVE V[k].h >= A
      BY <1>2, <1>3, <1>4, <3>1
    <3>2. x >= A => V[n].h >= A
      BY <1>2, <1>3
    <3>3. ASSUME NEW k \in 1..n, V[k].h >= A PROVE W[k].h >= A \/ x >= A
      BY <1>3, <1>4, <3>3
    <3>4. QED
      BY <1>4, <3>1, <3>2, <3>3
  <2>4. q.touched <=> (o.armed \/ \E k \in 1..n : V[k].h >= A)
    BY <1>6, <2>1, <2>3 DEF Watches
  <2>5. CASE x > S /\ x < T
    <3>1. q.open
      BY <1>1, <1>6, <2>5 DEF Watches, S
    <3>2. ASSUME NEW k \in 1..n PROVE V[k].l > S /\ V[k].h < T
      BY <1>1, <1>2, <1>3, <1>4, <2>1, <2>5
    <3>3. QED
      BY <1>1, <2>4, <3>1, <3>2 DEF Outcome
  <2>6. CASE x <= S \/ x >= T
    <3>1. ~q.open /\ q.price = x
      BY <1>6, <2>6 DEF Watches, S
    <3>2. \A i \in 1..(n - 1) : V[i].l > S /\ V[i].h < T
      BY <2>1
    <3>3. V[n].l <= S \/ V[n].h >= T
      BY <1>1, <1>2, <1>3, <2>6
    <3>4. S < V[n].o /\ V[n].o < T
      BY <1>1, <1>2, <1>3, <2>2
    <3>5. Stops(V[n], S, T, x)
      BY <1>1, <1>2, <1>3, <2>2, <2>6, <3>4 DEF Stops
    <3>6. q.armed \/ (\E i \in 1..(n - 1) : V[i].h >= A) \/ V[n].o >= A \/ q.price >= A => q.touched
      <4>1. V[n].o >= A => V[n].h >= A
        BY <1>2, <1>3
      <4>2. x >= A => V[n].h >= A
        BY <1>2, <1>3
      <4>3. (\E i \in 1..(n - 1) : V[i].h >= A) => \E i \in 1..n : V[i].h >= A
        OBVIOUS
      <4>4. QED
        BY <1>1, <1>4, <2>4, <3>1, <4>1, <4>2, <4>3
    <3>7. q.touched => q.armed \/ \E i \in 1..n : V[i].h >= A
      BY <1>1, <2>4
    <3>8. HitAt(V, n, S, T, A, q)
      BY <1>1, <1>2, <1>3, <3>1, <3>2, <3>3, <3>4, <3>5, <3>6, <3>7 DEF HitAt
    <3>9. QED
      BY <1>4, <3>1, <3>8 DEF Outcome
  <2>7. QED
    BY <1>1, <2>5, <2>6
<1>7. QED
  BY <1>1, <1>5, <1>6

\* The next minute begins at the last price.
LEMMA OutcomeLengthens ==
  ASSUME NEW n \in Nat, NEW W, NEW V, \A k \in 1..n : V[k] = W[k], NEW x \in Int, V[n + 1] = Point(x),
         NEW S \in Int, NEW T \in Int, NEW A \in Int, NEW o \in Lives,
         o.open => S < x /\ x < T /\ (x >= A => o.touched), Outcome(W, n, S, T, A, o)
  PROVE  Outcome(V, n + 1, S, T, A, o)
<1>1. \A k \in 1..(n + 1) : k = n + 1 \/ k \in 1..n
  OBVIOUS
<1>2. V[n + 1].l = x /\ V[n + 1].h = x
  BY DEF Point
<1>3. CASE o.open
  <2>1. ASSUME NEW k \in 1..(n + 1) PROVE V[k].l > S /\ V[k].h < T
    BY <1>1, <1>2, <1>3 DEF Outcome
  <2>2. (\E k \in 1..(n + 1) : V[k].h >= A) <=> (x >= A \/ \E k \in 1..n : W[k].h >= A)
    <3>1. n + 1 \in 1..(n + 1) /\ 1..n \subseteq 1..(n + 1)
      OBVIOUS
    <3>2. QED
      BY <1>1, <1>2, <3>1
  <2>3. o.touched <=> (o.armed \/ \E k \in 1..n : W[k].h >= A)
    BY <1>3 DEF Outcome
  <2>4. QED
    BY <1>3, <2>1, <2>2, <2>3 DEF Outcome
<1>4. CASE ~o.open
  <2>1. PICK k \in 1..n : HitAt(W, k, S, T, A, o)
    BY <1>4 DEF Outcome
  <2>2. k \in 1..(n + 1) /\ \A i \in 1..k : V[i] = W[i]
    OBVIOUS
  <2>3. \A i \in 1..(k - 1) : V[i] = W[i]
    OBVIOUS
  <2>4. k \in 1..k
    OBVIOUS
  <2>5. HitAt(V, k, S, T, A, o)
    BY <2>1, <2>2, <2>3, <2>4 DEF HitAt
  <2>6. QED
    BY <1>4, <2>2, <2>5 DEF Outcome
<1>5. QED
  BY <1>3, <1>4

\* The first price of a bar.
LEMMA OutcomeStarts ==
  ASSUME NEW W, NEW x \in Int, W[1] = Point(x), NEW T \in Int, NEW A \in Int, NEW at, NEW o \in Lives, NEW q,
         o.open, o.touched = o.armed, Watches(q, o, x, T, A, at)
  PROVE  Outcome(W, 1, q.stop, T, A, q)
<1> DEFINE S == q.stop
<1>1. S \in Int /\ o.stop = S /\ q.armed = o.armed /\ q.price \in Int /\ 1..1 = {1} /\ 1..(1 - 1) = {}
  BY DEF Watches, Lives
<1>2. W[1].o = x /\ W[1].l = x /\ W[1].h = x
  BY DEF Point
<1>3. q.touched <=> (q.armed \/ x >= A)
  BY <1>1 DEF Watches
<1> HIDE DEF S
<1>4. CASE x > S /\ x < T
  <2>1. q.open
    BY <1>1, <1>4 DEF Watches
  <2>2. QED
    BY <1>1, <1>2, <1>3, <1>4, <2>1 DEF Outcome, S
<1>5. CASE x <= S \/ x >= T
  <2>1. ~q.open /\ q.price = x
    BY <1>1, <1>5 DEF Watches
  <2>2. Stops(W[1], S, T, x)
    BY <1>2, <1>5 DEF Stops
  <2>3. HitAt(W, 1, S, T, A, q)
    BY <1>1, <1>2, <1>3, <1>5, <2>1, <2>2 DEF HitAt
  <2>4. QED
    BY <1>1, <2>1, <2>3 DEF Outcome, S
<1>6. QED
  BY <1>1, <1>4, <1>5

-----------------------------------------------------------------------------
(* Walking the minutes of a bar.                                           *)

LEMMA Least ==
  ASSUME NEW n \in Nat, NEW H \in SUBSET (1..n), H # {}
  PROVE  \E m \in H : \A i \in H : m <= i
<1> DEFINE f == [k \in 1..n |-> IF k \in H THEN -k ELSE -n - 1]
<1>1. n \in Nat \ {0} /\ \A k \in 1..n : f[k] \in Int
  <2>1. n # 0
    <3>1. PICK h \in H : h \in 1..n
      OBVIOUS
    <3>2. QED
      BY <3>1
  <2>2. ASSUME NEW k \in 1..n PROVE f[k] \in Int
    OBVIOUS
  <2> HIDE DEF f
  <2>3. QED
    BY <2>1, <2>2
<1>2. \E m \in 1..n : \A k \in 1..n : f[k] <= f[m]
  <2> HIDE DEF f
  <2>1. QED
    BY <1>1, Largest
<1>3. PICK m \in 1..n : \A k \in 1..n : f[k] <= f[m]
  BY <1>2
<1>4. PICK h \in H : TRUE
  OBVIOUS
<1>5. m \in H
  <2>1. f[h] <= f[m] /\ f[h] = -h
    BY <1>3
  <2>2. m \notin H => f[m] = -n - 1
    OBVIOUS
  <2> HIDE DEF f
  <2>3. QED
    BY <1>1, <2>1, <2>2
<1>6. ASSUME NEW i \in H PROVE m <= i
  <2>1. f[i] <= f[m] /\ f[i] = -i /\ f[m] = -m
    BY <1>3, <1>5
  <2> HIDE DEF f
  <2>2. QED
    BY <2>1
<1>7. QED
  BY <1>5, <1>6

\* The minutes of a bar; there may be none left.
Minutely(W, n) == n \in Nat /\ Len(W) = n /\ DOMAIN W = 1..n /\ \A k \in 1..n : W[k] \in MinuteBars

\* k is the first of n minutes to reach a level, 0 when none does.
First(W, n, S, T, k) ==
  \/ k = 0 /\ \A i \in 1..n : ~Reaches(W[i], S, T)
  \/ k \in 1..n /\ Reaches(W[k], S, T) /\ \A i \in 1..(k - 1) : ~Reaches(W[i], S, T)

LEMMA Reaching ==
  ASSUME NEW b \in MinuteBars, NEW S \in Int, NEW T \in Int
  PROVE  /\ RefResolve(b, S, T).why # "none" <=> Reaches(b, S, T)
         /\ ~Reaches(b, S, T) => RefResolve(b, S, T) = None
<1>1. b.o \in Int /\ b.h \in Int /\ b.l \in Int /\ b.l <= b.o /\ b.o <= b.h
  BY DEF MinuteBars
<1>2. \A why, price : Fill(why, price, TRUE).why = why /\ Fill(why, price, FALSE).why = why
  BY DEF Fill
<1>3. None.why = "none"
  BY DEF None
<1> DEFINE r == Resolve(b, S, T)
<1>4. RefResolve(b, S, T) = r
  BY ResolveSame
<1>r. ResolvedAs(r, b, S, T)
  BY ResolveCases
<1> HIDE DEF r
<1>5. CASE b.l > S /\ b.h < T
  <2>1. ~Reaches(b, S, T)
    BY <1>1, <1>5 DEF Reaches
  <2>a. S < b.o /\ b.o < T
    BY <1>1, <1>5
  <2>2. r = None
    BY <1>5, <1>r, <2>a DEF ResolvedAs
  <2>3. QED
    BY <1>3, <1>4, <2>1, <2>2
<1>6. CASE b.l <= S \/ b.h >= T
  <2>1. Reaches(b, S, T)
    BY <1>6 DEF Reaches
  <2>a. \/ b.o <= S
        \/ b.o > S /\ b.o >= T
        \/ S < b.o /\ b.o < T /\ b.l <= S /\ b.h >= T
        \/ S < b.o /\ b.o < T /\ b.l <= S /\ b.h < T
        \/ S < b.o /\ b.o < T /\ b.l > S /\ b.h >= T
    BY <1>1, <1>6
  <2>b. \E price : r \in {Fill("stop", price, TRUE), Fill("stop", price, FALSE), Fill("target", price, FALSE)}
    BY <1>r, <2>a DEF ResolvedAs
  <2>2. r.why = "stop" \/ r.why = "target"
    BY <2>b DEF Fill
  <2>3. r.why # "none"
    BY <2>2
  <2>4. QED
    BY <1>4, <2>1, <2>3
<1>7. QED
  BY <1>1, <1>5, <1>6

LEMMA FirstIs ==
  ASSUME NEW W, NEW n, Minutely(W, n), NEW S \in Int, NEW T \in Int
  PROVE  First(W, n, S, T, FirstHit(W, S, T))
<1> DEFINE hit(k) == RefResolve(W[k], S, T).why # "none"
           H == {k \in 1..n : hit(k)}
           f == FirstHit(W, S, T)
<1>1. n \in Nat /\ DOMAIN W = 1..n /\ \A k \in 1..n : hit(k) <=> Reaches(W[k], S, T)
  BY Reaching DEF Minutely
<1>2. f = IF \E k \in 1..n : hit(k) THEN CHOOSE k \in 1..n : hit(k) /\ \A i \in 1..(k - 1) : ~hit(i) ELSE 0
  BY <1>1 DEF FirstHit
<1> HIDE DEF hit, f
<1>3. CASE H = {}
  BY <1>1, <1>2, <1>3 DEF First, f
<1>4. CASE H # {}
  <2>1. PICK m \in H : \A i \in H : m <= i
    BY <1>1, <1>4, Least
  <2>2. m \in 1..n /\ hit(m) /\ \A i \in 1..(m - 1) : ~hit(i)
    BY <1>1, <2>1
  <2>3. f \in 1..n /\ hit(f) /\ \A i \in 1..(f - 1) : ~hit(i)
    BY <1>2, <2>2
  <2>4. \A i \in 1..(f - 1) : i \in 1..n
    BY <1>1, <2>3
  <2>5. QED
    BY <1>1, <2>3, <2>4 DEF First, f
<1>5. QED
  BY <1>3, <1>4

\* The minute that ends the orders, if one does.
EndsIn(W, n, S, T, o) ==
  /\ o.open => \A i \in 1..n : ~Reaches(W[i], S, T)
  /\ ~o.open => \E k \in 1..n : /\ Reaches(W[k], S, T) /\ \A i \in 1..(k - 1) : ~Reaches(W[i], S, T)
                                /\ Stops(W[k], S, T, o.price)

LEMMA WalkFits ==
  ASSUME NEW W, NEW n, Minutely(W, n), NEW S \in Int, NEW T \in Int, S <= T, NEW o \in Lives, EndsIn(W, n, S, T, o)
  PROVE  Fits(WalkArmed(W, S, T), S, T, o)
<1> DEFINE f == FirstHit(W, S, T)
           w == WalkArmed(W, S, T)
<1>1. First(W, n, S, T, f) /\ n \in Nat
  BY FirstIs DEF Minutely
<1>2. w = IF f = 0 THEN None ELSE RefResolve(W[f], S, T)
  BY DEF WalkArmed
<1> HIDE DEF f, w
<1>3. CASE o.open
  <2>1. f = 0
    BY <1>1, <1>3 DEF EndsIn, First
  <2>2. QED
    BY <1>2, <1>3, <2>1 DEF Fits, w
<1>4. CASE ~o.open
  <2>1. PICK k \in 1..n : /\ Reaches(W[k], S, T) /\ \A i \in 1..(k - 1) : ~Reaches(W[i], S, T)
                          /\ Stops(W[k], S, T, o.price)
    BY <1>4 DEF EndsIn
  <2>2. f = k
    <3>1. f \in 1..n /\ Reaches(W[f], S, T) /\ \A i \in 1..(f - 1) : ~Reaches(W[i], S, T)
      BY <1>1, <2>1 DEF First
    <3>2. ~(f < k) /\ ~(k < f)
      BY <1>1, <2>1, <3>1
    <3>3. QED
      BY <1>1, <3>1, <3>2
  <2>3. W[k] \in MinuteBars
    BY DEF Minutely
  <2>4. w = Resolve(W[k], S, T)
    BY <1>1, <1>2, <2>2, <2>3, ResolveSame
  <2>5. Ends(W[k], S, T, o)
    BY <1>4, <2>1 DEF Ends
  <2>6. Fits(w, S, T, o)
    BY <2>3, <2>4, <2>5, FillFits
  <2>7. QED
    BY <2>6 DEF w
<1>5. QED
  BY <1>3, <1>4

\* The minutes after minute k.
RestIs(V, W, n, k) == Minutely(V, n - k) /\ \A i \in 1..(n - k) : V[i] = W[k + i]

LEMMA RestOfMinutes ==
  ASSUME NEW W, NEW n, Minutely(W, n), NEW k \in 1..n
  PROVE  RestIs(SubSeq(W, k + 1, Len(W)), W, n, k)
<1> DEFINE V == SubSeq(W, k + 1, Len(W))
<1>1. n \in Nat /\ Len(W) = n /\ k + 1 \in Int
  BY DEF Minutely
<1>2. \A i \in (k + 1)..n : W[i] \in MinuteBars
  BY <1>1 DEF Minutely
<1>3. /\ V \in Seq(MinuteBars)
      /\ Len(V) = IF k + 1 <= n THEN n - (k + 1) + 1 ELSE 0
      /\ \A i \in 1..(n - (k + 1) + 1) : V[i] = W[(k + 1) + i - 1]
  BY <1>1, <1>2, SubSeqProperties
<1> HIDE DEF V
<1>4. Len(V) = n - k /\ n - k \in Nat
  BY <1>1, <1>3
<1>5. ASSUME NEW i \in 1..(n - k) PROVE V[i] = W[k + i]
  <2>1. i \in 1..(n - (k + 1) + 1) /\ (k + 1) + i - 1 = k + i
    BY <1>1
  <2>2. QED
    BY <1>3, <2>1
<1>6. DOMAIN V = 1..(n - k) /\ \A i \in 1..(n - k) : V[i] \in MinuteBars
  BY <1>3, <1>4
<1>7. Minutely(V, n - k)
  BY <1>4, <1>6 DEF Minutely
<1>8. QED
  BY <1>5, <1>7 DEF V, RestIs

\* What the minutes say of an unarmed trade that ended in their bar.
Walked(w, S, T, o) ==
  /\ Fits(w.fill, S, T, o)
  /\ w.fill.amb = FALSE => (o.touched => w.armed = TRUE) /\ (~o.touched => w.armed = FALSE)

LEMMA WalkUnarmedFits ==
  ASSUME NEW W, NEW n, Minutely(W, n), NEW S \in Int, NEW A \in Int, NEW T \in Int, S < A, A < T,
         NEW o \in Lives, ~o.armed, ~o.open, Outcome(W, n, S, T, A, o)
  PROVE  Walked(WalkUnarmed(W, S, A, T), S, T, o)
<1> DEFINE k == FirstHit(W, S, A)
           b == W[k]
           touch == RefResolve(b, S, A)
           V == SubSeq(W, k + 1, Len(W))
           rest == WalkArmed(V, S, T)
           fill == CASE b.o >= A -> RefResolve(b, S, T)
                     [] b.o < A /\ b.h >= T -> [why |-> "target", price |-> T, amb |-> FALSE]
                     [] OTHER -> None
           w == WalkUnarmed(W, S, A, T)
<1>1. /\ k # 0 /\ touch.why = "stop" => w = [fill |-> touch, armed |-> FALSE]
      /\ k # 0 /\ touch.why # "stop" /\ fill.why = "none" => w = [fill |-> rest, armed |-> TRUE]
      /\ k # 0 /\ touch.why # "stop" /\ fill.why # "none" => w = [fill |-> fill, armed |-> TRUE]
  BY DEF WalkUnarmed
<1>2. First(W, n, S, A, k) /\ n \in Nat /\ \A i \in 1..n : W[i] \in MinuteBars
  BY FirstIs DEF Minutely
<1> HIDE DEF k, V, rest, w
<1>a. SUFFICES Walked(w, S, T, o)
  BY DEF w
<1>3. PICK m \in 1..n : HitAt(W, m, S, T, A, o)
  BY DEF Outcome
<1>4. \A i \in 1..n : Reaches(W[i], S, T) => Reaches(W[i], S, A)
  BY <1>2 DEF Reaches, MinuteBars
<1>5. Reaches(W[m], S, T) /\ Stops(W[m], S, T, o.price) /\ o.price \in Int
  BY <1>3 DEF HitAt, Reaches, Lives
<1>6. k \in 1..n /\ k <= m /\ Reaches(W[k], S, A) /\ \A i \in 1..(k - 1) : ~Reaches(W[i], S, A)
  BY <1>2, <1>4, <1>5 DEF First
<1>7. Reaches(W[k], S, T) => m = k
  <2>1. \A i \in 1..(m - 1) : ~Reaches(W[i], S, T)
    BY <1>2, <1>3 DEF HitAt, Reaches, MinuteBars
  <2>2. QED
    BY <1>2, <1>6, <2>1
<1>8. b \in MinuteBars /\ b.o \in Int /\ b.h \in Int /\ b.l \in Int /\ b.l <= b.o /\ b.o <= b.h
  BY <1>2, <1>6 DEF MinuteBars
<1>9. touch = Resolve(b, S, A)
  BY <1>8, ResolveSame
<1> HIDE DEF touch
<1>10. k # 0
  BY <1>6
<1>r. ResolvedAs(touch, b, S, A)
  <2>1. ResolvedAs(Resolve(b, S, A), b, S, A)
    BY <1>8, ResolveCases
  <2>2. QED
    BY <1>9, <2>1
\* The stop comes first.
<1>11. ASSUME touch.why = "stop", ~o.touched \/ touch.amb = TRUE, Fits(touch, S, T, o)
       PROVE  Walked(w, S, T, o)
  <2>1. w = [fill |-> touch, armed |-> FALSE]
    BY <1>1, <1>10, <1>11
  <2>2. w.fill = touch /\ w.armed = FALSE
    BY <2>1
  <2>3. QED
    BY <1>11, <2>2 DEF Walked
<1>12. ASSUME b.l <= S PROVE Reaches(W[k], S, T) /\ m = k
  BY <1>7, <1>12 DEF Reaches
<1>13. CASE b.o <= S
  <2>1. b.l <= S /\ m = k
    BY <1>8, <1>12, <1>13
  <2>2. touch = Fill("stop", b.o, FALSE)
    BY <1>r, <1>13 DEF ResolvedAs
  <2>3. o.price = b.o
    BY <1>5, <1>13, <2>1 DEF Stops
  <2>4. ~o.touched
    BY <1>3, <1>8, <1>13, <2>1 DEF HitAt
  <2>5. Fits(touch, S, T, o) /\ touch.why = "stop"
    BY <1>8, <2>2, <2>3 DEF Fits, Fill
  <2>6. QED
    BY <1>11, <2>4, <2>5
<1>14. CASE S < b.o /\ b.o < A /\ b.l <= S /\ b.h >= A
  <2>1. m = k
    BY <1>12, <1>14
  <2>2. touch = Fill("stop", S, TRUE)
    BY <1>r, <1>14 DEF ResolvedAs
  <2>3. o.price = S \/ o.price = T
    BY <1>5, <1>8, <1>14, <2>1 DEF Stops
  <2>4. Fits(touch, S, T, o) /\ touch.why = "stop" /\ touch.amb = TRUE
    BY <2>2, <2>3 DEF Fits, Fill
  <2>5. QED
    BY <1>11, <2>4
<1>15. CASE S < b.o /\ b.o < A /\ b.l <= S /\ b.h < A
  <2>1. m = k
    BY <1>12, <1>15
  <2>2. touch = Fill("stop", S, FALSE)
    BY <1>r, <1>15 DEF ResolvedAs
  <2>3. o.price = S
    BY <1>5, <1>8, <1>15, <2>1 DEF Stops
  <2>4. ~o.touched
    <3>1. ASSUME NEW i \in 1..k PROVE ~(W[i].h >= A)
      <4>1. i = k \/ i \in 1..(k - 1)
        BY <1>6
      <4>2. CASE i = k
        BY <1>8, <1>15, <4>2
      <4>3. CASE i \in 1..(k - 1)
        BY <1>6, <4>3 DEF Reaches
      <4>4. QED
        BY <4>1, <4>2, <4>3
    <3>2. o.touched => \E i \in 1..k : W[i].h >= A
      BY <1>3, <2>1 DEF HitAt
    <3>3. QED
      BY <3>1, <3>2
  <2>5. Fits(touch, S, T, o) /\ touch.why = "stop"
    BY <2>2, <2>3 DEF Fits, Fill
  <2>6. QED
    BY <1>11, <2>4, <2>5
\* The arm level comes first.
<1>16. ASSUME touch.why = "target", b.h >= A, b.o > S, b.o >= A \/ b.l > S PROVE Walked(w, S, T, o)
  <2>1. touch.why # "stop"
    BY <1>16
  <2>2. o.touched
    <3>1. CASE k < m
      <4>1. k \in 1..(m - 1)
        BY <1>6, <3>1
      <4>2. QED
        BY <1>3, <1>16, <4>1 DEF HitAt
    <3>2. CASE k = m /\ b.o >= A
      BY <1>3, <3>2 DEF HitAt
    <3>3. CASE k = m /\ b.o < A
      <4>1. o.price = T
        BY <1>5, <1>8, <1>16, <3>3 DEF Stops
      <4>2. o.price >= A
        BY <4>1
      <4>3. QED
        BY <1>3, <4>2 DEF HitAt
    <3>4. QED
      BY <1>6, <1>8, <3>1, <3>2, <3>3
  <2>3. ASSUME NEW r, w = [fill |-> r, armed |-> TRUE], Fits(r, S, T, o) PROVE Walked(w, S, T, o)
    <3>1. w.fill = r /\ w.armed = TRUE
      BY <2>3
    <3>2. QED
      BY <2>2, <2>3, <3>1 DEF Walked
  <2>4. ASSUME k = m, fill = Resolve(b, S, T) PROVE Walked(w, S, T, o)
    <3>1. Ends(b, S, T, o)
      BY <1>5, <2>4 DEF Ends
    <3>2. Fits(fill, S, T, o)
      BY <1>8, <2>4, <3>1, FillFits
    <3>3. fill.why # "none"
      BY <3>2 DEF Fits
    <3>4. w = [fill |-> fill, armed |-> TRUE]
      BY <1>1, <1>10, <2>1, <3>3
    <3> HIDE DEF fill
    <3>5. QED
      BY <2>3, <3>2, <3>4
  <2>5. ASSUME k < m, fill = None PROVE Walked(w, S, T, o)
    <3>1. w = [fill |-> rest, armed |-> TRUE]
      <4>1. fill.why = "none"
        BY <2>5 DEF None
      <4>2. QED
        BY <1>1, <1>10, <2>1, <4>1
    <3>2. Minutely(V, n - k) /\ \A i \in 1..(n - k) : V[i] = W[k + i]
      <4>1. RestIs(SubSeq(W, k + 1, Len(W)), W, n, k)
        BY <1>6, RestOfMinutes
      <4>2. QED
        BY <4>1 DEF RestIs, V
    <3>3. EndsIn(V, n - k, S, T, o)
      <4>1. m - k \in 1..(n - k) /\ V[m - k] = W[m]
        <5>1. m - k \in 1..(n - k) /\ k + (m - k) = m
          BY <1>2, <1>6, <2>5
        <5>2. QED
          BY <3>2, <5>1
      <4>2. ASSUME NEW i \in 1..((m - k) - 1) PROVE ~Reaches(V[i], S, T)
        <5>1. i \in 1..(n - k) /\ k + i \in 1..(m - 1) /\ k + i \in 1..n
          BY <1>2, <1>6, <2>5
        <5>2. V[i] = W[k + i]
          BY <3>2, <5>1
        <5>3. W[k + i].l > S /\ W[k + i].h < T
          BY <1>3, <5>1 DEF HitAt
        <5>4. W[k + i].l \in Int /\ W[k + i].h \in Int
          BY <1>2, <5>1 DEF MinuteBars
        <5>5. QED
          BY <5>2, <5>3, <5>4 DEF Reaches
      <4>3. QED
        BY <1>5, <4>1, <4>2 DEF EndsIn
    <3>4. Fits(rest, S, T, o)
      BY <3>2, <3>3, WalkFits DEF rest
    <3>5. QED
      BY <2>3, <3>1, <3>4
  <2>6. CASE b.o >= A
    <3>1. fill = RefResolve(b, S, T)
      BY <1>8, <2>6
    <3>2. RefResolve(b, S, T) = Resolve(b, S, T)
      BY <1>8, ResolveSame
    <3>3. ~Reaches(b, S, T) => fill = None
      <4>1. ~Reaches(b, S, T) => RefResolve(b, S, T) = None
        BY <1>8, Reaching
      <4>2. QED
        BY <3>1, <4>1
    <3> HIDE DEF fill
    <3>4. CASE k = m
      BY <2>4, <3>1, <3>2, <3>4
    <3>5. CASE k # m
      BY <1>6, <1>7, <2>5, <3>3, <3>5
    <3>6. QED
      BY <3>4, <3>5
  <2>7. CASE b.o < A /\ b.h >= T
    <3>1. fill = Fill("target", T, FALSE)
      BY <1>8, <2>7 DEF Fill
    <3>2. k = m
      BY <1>7, <2>7 DEF Reaches
    <3>3. Resolve(b, S, T) = Fill("target", T, FALSE)
      <4>1. S < b.o /\ b.o < T /\ b.l > S
        BY <1>8, <1>16, <2>7
      <4>2. ResolvedAs(Resolve(b, S, T), b, S, T)
        BY <1>8, ResolveCases
      <4>3. QED
        BY <2>7, <4>1, <4>2 DEF ResolvedAs
    <3> HIDE DEF fill
    <3>4. QED
      BY <2>4, <3>1, <3>2, <3>3
  <2>8. CASE b.o < A /\ b.h < T
    <3>1. fill = None
      BY <1>8, <2>8
    <3>2. ~Reaches(b, S, T)
      BY <1>8, <1>16, <2>8 DEF Reaches
    <3>3. k < m
      BY <1>5, <1>6, <3>2
    <3> HIDE DEF fill
    <3>4. QED
      BY <2>5, <3>1, <3>3
  <2>9. QED
    BY <1>8, <2>6, <2>7, <2>8
<1>17. CASE b.o >= A
  <2>1. touch = Fill("target", b.o, FALSE)
    <3>1. b.o > S
      BY <1>8, <1>17
    <3>2. QED
      BY <1>r, <1>17, <3>1 DEF ResolvedAs
  <2>2. touch.why = "target"
    BY <2>1 DEF Fill
  <2>3. b.h >= A /\ b.o > S
    BY <1>8, <1>17
  <2>4. QED
    BY <1>16, <1>17, <2>2, <2>3
<1>18. CASE S < b.o /\ b.o < A /\ b.l > S
  <2>1. b.h >= A
    BY <1>6, <1>8, <1>18 DEF Reaches
  <2>2. touch = Fill("target", A, FALSE)
    BY <1>r, <1>18, <2>1 DEF ResolvedAs
  <2>3. touch.why = "target"
    BY <2>2 DEF Fill
  <2>4. QED
    BY <1>16, <1>18, <2>1, <2>3
<1>19. QED
  BY <1>8, <1>13, <1>14, <1>15, <1>17, <1>18

\* What the minutes say of the orders o beside the two bounds p and q.
Decides(v, p, q, o) ==
  ~o.open => /\ p.price <= v.price /\ v.price <= q.price
             /\ v.residual = FALSE => /\ v.price = o.price
                                      /\ o.touched => v.armed = TRUE
                                      /\ ~o.touched => v.armed = FALSE
             /\ v.residual = TRUE \/ v.residual = FALSE

\* The trade on its way through the minutes of an ambiguous bar.
Walking(armed, residual, stop) ==
  [open |-> TRUE, armed |-> armed, amb |-> TRUE, residual |-> residual, leave |-> FALSE,
   stop |-> stop, why |-> "none", price |-> 0, at |-> -1]

EndsAs(v, armed, residual, price, at) ==
  v.open = FALSE /\ v.at = at /\ v.price = price /\ v.armed = armed /\ v.amb = TRUE /\ v.residual = residual

LEMMA WalkingFills ==
  ASSUME NEW armed, NEW residual, NEW s, NEW at, NEW r, r.why # "none"
  PROVE  EndsAs(Filled(Walking(armed, residual, s), r, at), armed, residual, r.price, at)
<1>1. Filled(Walking(armed, residual, s), r, at) = Closed(Walking(armed, residual, s), r.why, r.price, at)
  BY DEF Filled
<1>2. ASSUME NEW u, NEW v, u = Walking(armed, residual, s), v = Closed(u, r.why, r.price, at)
      PROVE  EndsAs(v, armed, residual, r.price, at)
  <2>1. u.open
    BY <1>2 DEF Walking
  <2>2. v = [u EXCEPT !.open = FALSE, !.why = r.why, !.price = r.price, !.at = at]
    BY <1>2, <2>1 DEF Closed
  <2>3. QED
    BY <1>2, <2>2 DEF Walking, EndsAs
<1>3. QED
  BY <1>1, <1>2

\* A walked trade, its bounds, and the orders: an ambiguous bar stops at S.
LEMMA WalkedDecides ==
  ASSUME NEW s, NEW at, NEW o \in Lives, ~o.open, NEW S \in Int, NEW T \in Int, NEW r, Fits(r, S, T, o),
         S <= o.price, NEW p, p.price = S, NEW q, q.price \in Int, Upper(q, o),
         NEW armed, NEW residual, residual = r.amb,
         r.amb = FALSE => (o.touched => armed = TRUE) /\ (~o.touched => armed = FALSE),
         NEW v, v = Filled(Walking(armed, residual, s), r, at)
  PROVE  Judges(v, o, s, at) /\ Decides(v, p, q, o)
<1>1. v.open = FALSE /\ v.at = at /\ v.price = r.price /\ v.armed = armed /\ v.amb = TRUE /\ v.residual = residual
  <2>1. r.why # "none"
    BY DEF Fits
  <2>2. EndsAs(Filled(Walking(armed, residual, s), r, at), armed, residual, r.price, at)
    BY <2>1, WalkingFills
  <2>3. QED
    BY <2>2 DEF EndsAs
<1>2. r.price \in Int /\ r.price <= o.price /\ o.price <= q.price /\ o.price \in Int
  BY DEF Fits, Upper, Lives
<1>3. (r.amb = TRUE => r.price = S) /\ (r.amb = FALSE => r.price = o.price) /\ (r.amb = TRUE \/ r.amb = FALSE)
  BY DEF Fits
<1>4. Judges(v, o, s, at)
  BY <1>1, <1>2 DEF Judges
<1>5. p.price <= v.price /\ v.price <= q.price
  BY <1>1, <1>2, <1>3
<1>6. v.residual = FALSE => /\ v.price = o.price
                            /\ o.touched => v.armed = TRUE
                            /\ ~o.touched => v.armed = FALSE
  BY <1>1, <1>3
<1>7. v.residual = TRUE \/ v.residual = FALSE
  BY <1>1, <1>3
<1>8. QED
  BY <1>4, <1>5, <1>6, <1>7 DEF Decides

\* A bar that is not ambiguous, judged without a look at its minutes.
LEMMA PlainDecides ==
  ASSUME NEW s, NEW at, NEW o \in Lives, NEW p, NEW q, Judges(p, o, s, at), Judges(q, o, s, at), Upper(q, o),
         p.amb = FALSE, p.residual = FALSE
  PROVE  Decides(p, p, q, o)
<1>1. CASE o.open
  BY <1>1 DEF Decides
<1>2. CASE ~o.open
  <2>1. /\ p.price = o.price /\ o.price \in Int
        /\ o.touched => p.armed = TRUE
        /\ ~o.touched => p.armed = FALSE
    BY <1>2 DEF Judges, Lives
  <2>2. o.price <= q.price
    BY <1>2 DEF Upper
  <2>3. QED
    BY <2>1, <2>2 DEF Decides
<1>3. QED
  BY <1>1, <1>2

LEMMA OutcomeEnds ==
  ASSUME NEW W, NEW n, Minutely(W, n), NEW S \in Int, NEW T \in Int, NEW A \in Int, NEW o, Outcome(W, n, S, T, A, o)
  PROVE  EndsIn(W, n, S, T, o)
<1>1. \A i \in 1..n : W[i].l > S /\ W[i].h < T => ~Reaches(W[i], S, T)
  <2>1. ASSUME NEW i \in 1..n PROVE W[i].l \in Int /\ W[i].h \in Int
    BY DEF Minutely, MinuteBars
  <2>2. QED
    BY <2>1 DEF Reaches
<1>2. CASE o.open
  BY <1>1, <1>2 DEF Outcome, EndsIn
<1>3. CASE ~o.open
  <2>1. PICK k \in 1..n : HitAt(W, k, S, T, A, o)
    BY <1>3 DEF Outcome
  <2>2. n \in Nat
    BY DEF Minutely
  <2>3. ASSUME NEW i \in 1..(k - 1) PROVE ~Reaches(W[i], S, T)
    <3>1. i \in 1..n
      BY <2>2
    <3>2. W[i].l > S /\ W[i].h < T
      BY <2>1 DEF HitAt
    <3>3. QED
      BY <1>1, <3>1, <3>2
  <2>4. Reaches(W[k], S, T) /\ Stops(W[k], S, T, o.price)
    BY <2>1 DEF HitAt, Reaches
  <2>5. QED
    BY <1>3, <2>3, <2>4 DEF EndsIn
<1>4. QED
  BY <1>2, <1>3

\* The fields of the trades in the tables.
Plain(v) == v.amb = FALSE /\ v.residual = FALSE

Between(b, S, T) == Inside(b, S, T) /\ Falls(b, S) /\ Climbs(b, T)

\* An ambiguous touch, in the order of the minutes.
WalksOn(v, r, s, at) == v = Filled(Walking(TRUE, r.amb, s), r, at)

LEMMA OrderedWalk ==
  ASSUME NEW s, NEW subs, NEW S, NEW T, NEW at, NEW touch, touch.amb = TRUE,
         WalkArmed(subs, S, T).amb = TRUE \/ WalkArmed(subs, S, T).amb = FALSE
  PROVE  WalksOn(Ordered(s, touch, subs, S, T, "m1", at), WalkArmed(subs, S, T), s, at)
<1> DEFINE r == WalkArmed(subs, S, T)
           t == Clean(TRUE, s)
           x == t.residual \/ r.amb
           m == RefOrdered(t, touch, subs, S, T, "m1")
<1>1. touch.amb
  OBVIOUS
<1>2. m = [t |-> [t EXCEPT !.amb = TRUE, !.residual = x], fill |-> r]
  BY <1>1 DEF RefOrdered
<1>3. x = r.amb
  <2>1. t.residual = FALSE
    BY DEF Clean
  <2>2. CASE r.amb = TRUE
    BY <2>1, <2>2
  <2>3. CASE r.amb = FALSE
    BY <2>1, <2>3
  <2>4. QED
    BY <2>2, <2>3
<1> HIDE DEF x, r
<1>4. ASSUME NEW u, u = [t EXCEPT !.amb = TRUE, !.residual = x] PROVE u = Walking(TRUE, x, s)
  BY <1>4 DEF Clean, Walking
<1>5. m.t = Walking(TRUE, x, s) /\ m.fill = r
  <2>a. ASSUME NEW y, NEW z, y = [t |-> z, fill |-> r] PROVE y.t = z /\ y.fill = r
    BY <2>a
  <2> HIDE DEF m, t
  <2>1. m.t = [t EXCEPT !.amb = TRUE, !.residual = x] /\ m.fill = r
    BY <1>2, <2>a
  <2>2. QED
    BY <1>4, <2>1
<1> HIDE DEF m
<1>6. Ordered(s, touch, subs, S, T, "m1", at) = Filled(m.t, m.fill, at)
  BY DEF Ordered, m
<1>7. QED
  BY <1>3, <1>5, <1>6 DEF WalksOn, r

LEMMA OrderedPlain ==
  ASSUME NEW s, NEW subs, NEW S, NEW T, NEW at, NEW touch, touch.amb = FALSE
  PROVE  Ordered(s, touch, subs, S, T, "m1", at) = Ordered(s, touch, subs, S, T, "pess", at)
  BY DEF Ordered, RefOrdered

LEMMA ArmedWalks ==
  ASSUME NEW b, NEW W, NEW n, Covers(b, W, n), Minutely(W, n), NEW e \in Int, NEW s, NEW at, NEW o \in Lives,
         o.armed, Outcome(W, n, e, e + Runner, e + Arm, o),
         NEW p, p = ArmedBar(Clean(TRUE, s), b, e, at, FALSE), NEW q, q = ArmedBar(Clean(TRUE, s), b, e, at, TRUE),
         NEW v, v = Ordered(s, RefResolve(b, e, e + Runner), W, e, e + Runner, "m1", at)
  PROVE  Judges(v, o, s, at) /\ Decides(v, p, q, o)
<1> DEFINE A == e + Arm
           T == e + Runner
           touch == RefResolve(b, e, T)
<1>1. A \in Int /\ T \in Int /\ e < T /\ b \in MinuteBars
      /\ b.o \in Int /\ b.l \in Int /\ b.h \in Int /\ b.l <= b.o /\ b.o <= b.h /\ o.price \in Int
  BY PolicyAssumption DEF Covers, MinuteBars, Lives
<1>2. Outcome(W, n, e, T, A, o) /\ v = Ordered(s, touch, W, e, T, "m1", at)
  OBVIOUS
<1>3. BarOutcome(b, e, T, A, o)
  BY <1>1, BarOf
<1>4. Judges(p, o, s, at) /\ Judges(q, o, s, at) /\ Upper(q, o)
  BY <1>1, <1>3, ArmedJudges
<1>5. ArmedTable(p, b, e, s, at, FALSE)
  BY <1>1, ArmedRows
<1>6. p = Ordered(s, touch, W, e, T, "pess", at)
  <2>1. Ordered(s, touch, W, e, T, "pess", at) = ArmedBar(Clean(TRUE, s), b, e, at, FALSE)
    <3>1. ArmedAlike(b, e, touch, W, s, at)
      BY <1>1, ArmedAgree
    <3>2. QED
      BY <3>1 DEF ArmedAlike
  <2> HIDE DEF touch, T
  <2>2. QED
    BY <2>1
<1>7. touch = Resolve(b, e, T)
  BY <1>1, ResolveSame
<1> HIDE DEF touch
<1>8. CASE Between(b, e, T)
  <2>1. touch = Fill("stop", e, TRUE)
    BY <1>1, <1>7, <1>8, ResolveRows DEF Between
  <2>2. ~o.open /\ e <= o.price
    BY <1>1, <1>3, <1>8 DEF Between, BarOutcome, Inside, Falls, Stops
  <2>3. p = Done(TRUE, TRUE, s, "stop", e, at)
    BY <1>5, <1>8 DEF ArmedTable, Between
  <2>4. p.price = e
    <3>1. ASSUME NEW y, y = Done(TRUE, TRUE, s, "stop", e, at) PROVE y.price = e
      BY <3>1 DEF Done
    <3>2. QED
      BY <2>3, <3>1
  <2> DEFINE r == WalkArmed(W, e, T)
  <2>5. Fits(r, e, T, o)
    BY <1>1, <1>2, OutcomeEnds, WalkFits
  <2> HIDE DEF r
  <2>6. r.amb = TRUE \/ r.amb = FALSE
    BY <2>2, <2>5 DEF Fits
  <2>7. v = Filled(Walking(TRUE, r.amb, s), r, at)
    <3>1. r = WalkArmed(W, e, T)
      BY DEF r
    <3>2. touch.amb = TRUE
      BY <2>1 DEF Fill
    <3>3. WalksOn(Ordered(s, touch, W, e, T, "m1", at), r, s, at)
      <4> HIDE DEF T
      <4>1. QED
        BY <2>6, <3>1, <3>2, OrderedWalk
    <3>4. QED
      BY <1>2, <3>3 DEF WalksOn
  <2>8. o.touched
    BY <1>3, <2>2 DEF BarOutcome
  <2>9. q.price \in Int
    BY <1>4, <2>2 DEF Judges
  <2>10. QED
    BY <1>1, <1>4, <2>2, <2>4, <2>5, <2>7, <2>8, <2>9, WalkedDecides
<1>9. CASE ~Between(b, e, T)
  <2>1. touch.amb = FALSE
    <3>1. \A why, price : Fill(why, price, FALSE).amb = FALSE
      BY DEF Fill
    <3>2. None.amb = FALSE
      BY DEF None
    <3>3. b.o <= e \/ (b.o > e /\ b.o >= T) \/ Inside(b, e, T)
      BY <1>1 DEF Inside
    <3>4. \/ touch = None
          \/ \E why, price : touch = Fill(why, price, FALSE)
      <4>0. ResolveTable(touch, b, e, T)
        <5>1. ResolveTable(Resolve(b, e, T), b, e, T)
          <6> HIDE DEF T
          <6>1. QED
            BY <1>1, ResolveTabled
        <5>2. QED
          BY <1>7, <5>1
      <4> HIDE DEF T
      <4>1. CASE b.o <= e
        BY <4>0, <4>1 DEF ResolveTable
      <4>2. CASE b.o > e /\ b.o >= T
        BY <4>0, <4>2 DEF ResolveTable
      <4>3. CASE Inside(b, e, T) /\ ~Falls(b, e)
        BY <4>0, <4>3 DEF ResolveTable
      <4>4. CASE Inside(b, e, T) /\ ~Climbs(b, T)
        BY <4>0, <4>4 DEF ResolveTable
      <4>5. QED
        BY <1>9, <3>3, <4>1, <4>2, <4>3, <4>4 DEF Between
    <3>5. QED
      BY <3>1, <3>2, <3>4
  <2>2. v = p
    BY <1>2, <1>6, <2>1, OrderedPlain
  <2>3. Plain(p)
    <3>1. b.o <= e \/ (b.o > e /\ b.o >= T) \/ Inside(b, e, T)
      BY <1>1 DEF Inside
    <3>2. \/ p = Clean(TRUE, s)
          \/ \E why, price : p = Done(TRUE, FALSE, s, why, price, at)
      BY <1>5, <1>9, <3>1 DEF ArmedTable, Between
    <3>3. ASSUME NEW y, y = Clean(TRUE, s) PROVE Plain(y)
      BY <3>3 DEF Plain, Clean
    <3>4. ASSUME NEW y, NEW why, NEW price, y = Done(TRUE, FALSE, s, why, price, at) PROVE Plain(y)
      BY <3>4 DEF Plain, Done
    <3>5. QED
      BY <3>2, <3>3, <3>4
  <2>4. QED
    BY <1>4, <2>2, <2>3, PlainDecides DEF Plain
<1>10. QED
  BY <1>8, <1>9

WalksOut(v, w, s, at) == v = Filled(Walking(w.armed, w.fill.amb, s), w.fill, at)

LEMMA UnarmedWalk ==
  ASSUME NEW b, NEW subs, NEW e, NEW s, NEW at, RefResolve(b, e - Risk, e + Arm).amb = TRUE,
         \/ WalkUnarmed(subs, e - Risk, e + Arm, e + Runner).fill.amb = TRUE
         \/ WalkUnarmed(subs, e - Risk, e + Arm, e + Runner).fill.amb = FALSE
  PROVE  WalksOut(RefUnarmed(Clean(FALSE, s), b, subs, e, at, "m1"), WalkUnarmed(subs, e - Risk, e + Arm, e + Runner), s, at)
<1> DEFINE w == WalkUnarmed(subs, e - Risk, e + Arm, e + Runner)
           t == [Clean(FALSE, s) EXCEPT !.amb = TRUE]
           touch == RefResolve(b, e - Risk, e + Arm)
           x == t.residual \/ w.fill.amb
           u == [t EXCEPT !.armed = w.armed, !.residual = x]
           v == RefUnarmed(Clean(FALSE, s), b, subs, e, at, "m1")
<1>1. touch.amb
  OBVIOUS
<1>2. v = Filled(u, w.fill, at)
  BY <1>1 DEF RefUnarmed
<1>3. t.residual = FALSE /\ t = Marked(FALSE, s)
  <2>1. ASSUME NEW y, y = t PROVE y = Marked(FALSE, s) /\ y.residual = FALSE
    BY <2>1 DEF Clean, Marked
  <2>2. QED
    BY <2>1
<1>4. x = w.fill.amb
  <2> HIDE DEF t
  <2>2. CASE w.fill.amb = TRUE
    BY <1>3, <2>2
  <2>3. CASE w.fill.amb = FALSE
    BY <1>3, <2>3
  <2>4. QED
    BY <2>2, <2>3
<1> HIDE DEF t, x, v, w
<1>5. ASSUME NEW y, y = u PROVE y = Walking(w.armed, x, s)
  BY <1>3, <1>5 DEF Marked, Walking
<1>6. QED
  BY <1>2, <1>4, <1>5 DEF v, w, WalksOut

UnarmedOrdered(v, b, subs, e, s, at) ==
  v = IF RefResolve(b, e - Risk, e + Arm).why = "target" /\ b.o >= e + Arm
      THEN Ordered(s, RefResolve(b, e - Risk, e + Runner), subs, e - Risk, e + Runner, "m1", at)
      ELSE RefUnarmed(Clean(FALSE, s), b, subs, e, at, "pess")

LEMMA UnarmedPlain ==
  ASSUME NEW b \in MinuteBars, NEW subs, NEW e \in Int, NEW s, NEW at, RefResolve(b, e - Risk, e + Arm).amb = FALSE
  PROVE  UnarmedOrdered(RefUnarmed(Clean(FALSE, s), b, subs, e, at, "m1"), b, subs, e, s, at)
<1> DEFINE touch == RefResolve(b, e - Risk, e + Arm)
<1>1. b.o \in Int /\ e + Arm \in Int
  BY PolicyAssumption DEF MinuteBars
<1>2. [Clean(FALSE, s) EXCEPT !.armed = TRUE] = Clean(TRUE, s)
  <2>1. ASSUME NEW y, y = [Clean(FALSE, s) EXCEPT !.armed = TRUE] PROVE y = Clean(TRUE, s)
    BY <2>1 DEF Clean
  <2>2. QED
    BY <2>1
<1>3. CASE touch.why = "target" /\ b.o >= e + Arm
  <2> DEFINE second == RefOrdered([Clean(FALSE, s) EXCEPT !.armed = TRUE], RefResolve(b, e - Risk, e + Runner),
                                  subs, e - Risk, e + Runner, "m1")
  <2>1. RefUnarmed(Clean(FALSE, s), b, subs, e, at, "m1") = Filled(second.t, second.fill, at)
    <3> DEFINE S == e - Risk
               T == e + Runner
               t == Clean(FALSE, s)
               walked == WalkUnarmed(subs, S, e + Arm, T)
               flagged == [t EXCEPT !.amb = TRUE]
               u == [t EXCEPT !.armed = TRUE]
               v == RefUnarmed(t, b, subs, e, at, "m1")
               w == Filled(second.t, second.fill, at)
               y1 == IF b.h >= T THEN Closed(flagged, "target", T, at) ELSE Closed(flagged, "stop", S, at)
               y2 == Filled([flagged EXCEPT !.armed = walked.armed, !.residual = @ \/ walked.fill.amb], walked.fill, at)
               y3 == Filled(flagged, touch, at)
               y4 == IF b.h >= T THEN Closed(u, "target", T, at) ELSE u
               y5 == Filled(t, touch, at)
    <3>1. v = CASE touch.amb /\ "m1" = "adm" -> y1
                [] touch.amb /\ "m1" = "m1" -> y2
                [] touch.amb /\ "m1" = "pess" -> y3
                [] ~touch.amb /\ touch.why = "target" /\ b.o >= e + Arm -> w
                [] ~touch.amb /\ touch.why = "target" /\ b.o < e + Arm -> y4
                [] OTHER -> y5
      BY Zenon DEF RefUnarmed
    <3> HIDE DEF v, w, y1, y2, y3, y4, y5
    <3>2. ~touch.amb /\ touch.why = "target" /\ b.o >= e + Arm
      BY <1>3
    <3> HIDE DEF touch
    <3>3. v = w
      BY <1>1, <3>1, <3>2
    <3>4. QED
      BY <3>3 DEF v, w, t
  <2>2. second = RefOrdered(Clean(TRUE, s), RefResolve(b, e - Risk, e + Runner), subs, e - Risk, e + Runner, "m1")
    BY <1>2
  <2> HIDE DEF second
  <2>3. Ordered(s, RefResolve(b, e - Risk, e + Runner), subs, e - Risk, e + Runner, "m1", at) = Filled(second.t, second.fill, at)
    BY <2>2 DEF Ordered
  <2>4. QED
    BY <1>3, <2>1, <2>3 DEF UnarmedOrdered
<1>4. CASE ~(touch.why = "target" /\ b.o >= e + Arm)
  <2>1. RefUnarmed(Clean(FALSE, s), b, subs, e, at, "m1") = RefUnarmed(Clean(FALSE, s), b, subs, e, at, "pess")
    BY <1>1, <1>4 DEF RefUnarmed
  <2>2. QED
    BY <1>4, <2>1 DEF UnarmedOrdered
<1>5. QED
  BY <1>3, <1>4

LEMMA FillFields ==
  ASSUME NEW why, NEW price
  PROVE  /\ Fill(why, price, TRUE).why = why /\ Fill(why, price, TRUE).amb = TRUE
         /\ Fill(why, price, FALSE).why = why /\ Fill(why, price, FALSE).amb = FALSE
  BY DEF Fill

\* A bar whose touches are in an order without its minutes.
UnarmedSure(b, S, A, T) == ~Between(b, S, A) /\ ~(b.o >= A /\ b.o < T /\ Falls(b, S) /\ Climbs(b, T))

Settles(v, p) == v = p /\ Plain(p)

LEMMA UnarmedSurely ==
  ASSUME NEW b \in MinuteBars, NEW subs, NEW e \in Int, NEW s, NEW at,
         UnarmedSure(b, e - Risk, e + Arm, e + Runner)
  PROVE  Settles(RefUnarmed(Clean(FALSE, s), b, subs, e, at, "m1"), UnarmedBar(Clean(FALSE, s), b, e, at, FALSE))
<1> DEFINE S == e - Risk
           A == e + Arm
           T == e + Runner
           touch == RefResolve(b, S, A)
           second == RefResolve(b, S, T)
           p == UnarmedBar(Clean(FALSE, s), b, e, at, FALSE)
           v == RefUnarmed(Clean(FALSE, s), b, subs, e, at, "m1")
           r == RefUnarmed(Clean(FALSE, s), b, subs, e, at, "pess")
           o1 == Ordered(s, second, subs, S, T, "m1", at)
           o2 == Ordered(s, second, subs, S, T, "pess", at)
<1>1. S \in Int /\ A \in Int /\ T \in Int /\ S < A /\ A < T /\ b.o \in Int
  BY PolicyAssumption DEF MinuteBars
<1>2. UnarmedTable(p, b, e, s, at, FALSE)
  BY UnarmedRows
<1>3. r = p
  <2>1. UnarmedAlike(b, e, subs, s, at)
    BY UnarmedAgree
  <2>2. QED
    BY <2>1 DEF UnarmedAlike
<1>4. touch = Resolve(b, S, A) /\ second = Resolve(b, S, T)
  BY <1>1, ResolveSame
<1>5. touch.amb = FALSE => v = (IF touch.why = "target" /\ b.o >= A THEN o1 ELSE r)
  BY UnarmedPlain DEF UnarmedOrdered
<1>6. second.amb = FALSE => o1 = o2
  <2> HIDE DEF second, S, T
  <2>1. QED
    BY OrderedPlain
<1>7. OrderedTable(o2, s, second, S, T, "pess", at)
  <2> HIDE DEF second, S, T
  <2>1. QED
    BY OrderedRows
<1>8. UnarmedSure(b, S, A, T)
  OBVIOUS
<1>9. (b.o <= S \/ Inside(b, S, A) \/ b.o >= A) /\ (b.o >= T \/ b.o < T)
  BY <1>1 DEF Inside
<1>10. /\ b.o <= S => p = Done(FALSE, FALSE, s, "stop", b.o, at)
       /\ Inside(b, S, A) /\ Falls(b, S) /\ ~Climbs(b, A) => p = Done(FALSE, FALSE, s, "stop", S, at)
       /\ Inside(b, S, A) /\ ~Falls(b, S) /\ ~Climbs(b, A) => p = Clean(FALSE, s)
       /\ Inside(b, S, A) /\ ~Falls(b, S) /\ Climbs(b, A) /\ ~Climbs(b, T) => p = Clean(TRUE, s)
       /\ Inside(b, S, A) /\ ~Falls(b, S) /\ Climbs(b, A) /\ Climbs(b, T) => p = Done(TRUE, FALSE, s, "target", T, at)
       /\ b.o >= A /\ b.o >= T => p = Done(TRUE, FALSE, s, "target", b.o, at)
       /\ b.o >= A /\ b.o < T /\ Falls(b, S) /\ ~Climbs(b, T) => p = Done(TRUE, FALSE, s, "stop", S, at)
       /\ b.o >= A /\ b.o < T /\ ~Falls(b, S) /\ Climbs(b, T) => p = Done(TRUE, FALSE, s, "target", T, at)
       /\ b.o >= A /\ b.o < T /\ ~Falls(b, S) /\ ~Climbs(b, T) => p = Clean(TRUE, s)
  BY <1>2 DEF UnarmedTable
<1>11. /\ b.o <= S => touch = Fill("stop", b.o, FALSE)
       /\ b.o >= A => touch = Fill("target", b.o, FALSE)
       /\ Inside(b, S, A) /\ Falls(b, S) /\ ~Climbs(b, A) => touch = Fill("stop", S, FALSE)
       /\ Inside(b, S, A) /\ ~Falls(b, S) /\ Climbs(b, A) => touch = Fill("target", A, FALSE)
       /\ Inside(b, S, A) /\ ~Falls(b, S) /\ ~Climbs(b, A) => touch = None
  <2>1. b.o >= A => b.o > S /\ b.o >= A
    BY <1>1
  <2> HIDE DEF S, A, T
  <2>2. ResolveTable(Resolve(b, S, A), b, S, A)
    BY <1>1, ResolveTabled
  <2> HIDE DEF touch
  <2>3. ResolveTable(touch, b, S, A)
    BY <1>4, <2>2
  <2>4. QED
    BY <1>1, <2>1, <2>3 DEF ResolveTable
<1>12. /\ b.o >= A /\ b.o >= T => second = Fill("target", b.o, FALSE)
       /\ b.o >= A /\ b.o < T /\ Falls(b, S) /\ ~Climbs(b, T) => second = Fill("stop", S, FALSE)
       /\ b.o >= A /\ b.o < T /\ ~Falls(b, S) /\ Climbs(b, T) => second = Fill("target", T, FALSE)
       /\ b.o >= A /\ b.o < T /\ ~Falls(b, S) /\ ~Climbs(b, T) => second = None
  <2>1. /\ b.o >= A /\ b.o >= T => b.o > S /\ b.o >= T
        /\ b.o >= A /\ b.o < T => Inside(b, S, T)
    BY <1>1 DEF Inside
  <2> HIDE DEF S, A, T
  <2>2. ResolveTable(Resolve(b, S, T), b, S, T)
    BY <1>1, ResolveTabled
  <2> HIDE DEF second
  <2>3. ResolveTable(second, b, S, T)
    BY <1>4, <2>2
  <2>4. QED
    BY <1>1, <2>1, <2>3 DEF ResolveTable
<1>13. Inside(b, S, A) => b.o < A
  BY DEF Inside
<1> HIDE DEF S, A, T, touch, second, p, v, r, o1, o2
<1>14. None.amb = FALSE
  BY DEF None
<1>15. Plain(p)
  <2>1. \/ p = Clean(TRUE, s) \/ p = Clean(FALSE, s)
        \/ \E why, price : p = Done(TRUE, FALSE, s, why, price, at) \/ p = Done(FALSE, FALSE, s, why, price, at)
    BY <1>8, <1>9, <1>10 DEF UnarmedSure, Between
  <2>2. ASSUME NEW y, y = Clean(TRUE, s) \/ y = Clean(FALSE, s) PROVE Plain(y)
    BY <2>2 DEF Plain, Clean
  <2>3. ASSUME NEW y, NEW why, NEW price, y = Done(TRUE, FALSE, s, why, price, at) \/ y = Done(FALSE, FALSE, s, why, price, at)
        PROVE  Plain(y)
    BY <2>3 DEF Plain, Done
  <2>4. QED
    BY <2>1, <2>2, <2>3
<1>16. v = p
  <2>1. CASE b.o >= A
    <3>1. touch = Fill("target", b.o, FALSE)
      BY <1>11, <2>1
    <3>2. touch.amb = FALSE /\ touch.why = "target"
      BY <3>1, FillFields
    <3>3. v = o1
      BY <1>5, <2>1, <3>2
    <3>4. \/ b.o >= T
          \/ b.o < T /\ Falls(b, S) /\ ~Climbs(b, T)
          \/ b.o < T /\ ~Falls(b, S) /\ Climbs(b, T)
          \/ b.o < T /\ ~Falls(b, S) /\ ~Climbs(b, T)
      BY <1>8, <1>9, <2>1 DEF UnarmedSure
    <3>5. second.amb = FALSE /\ o2 = p
      <4>1. /\ second = None => o2 = Clean(TRUE, s)
            /\ \A price : second = Fill("stop", price, FALSE) => o2 = Done(TRUE, FALSE, s, "stop", price, at)
            /\ \A price : second = Fill("target", price, FALSE) => o2 = Done(TRUE, FALSE, s, "target", price, at)
        BY <1>7 DEF OrderedTable
      <4>2. CASE b.o >= T
        <5>1. second = Fill("target", b.o, FALSE) /\ p = Done(TRUE, FALSE, s, "target", b.o, at)
          BY <1>10, <1>12, <2>1, <4>2
        <5>2. QED
          BY <4>1, <5>1, FillFields
      <4>3. CASE b.o < T /\ Falls(b, S) /\ ~Climbs(b, T)
        <5>1. second = Fill("stop", S, FALSE) /\ p = Done(TRUE, FALSE, s, "stop", S, at)
          BY <1>10, <1>12, <2>1, <4>3
        <5>2. QED
          BY <4>1, <5>1, FillFields
      <4>4. CASE b.o < T /\ ~Falls(b, S) /\ Climbs(b, T)
        <5>1. second = Fill("target", T, FALSE) /\ p = Done(TRUE, FALSE, s, "target", T, at)
          BY <1>10, <1>12, <2>1, <4>4
        <5>2. QED
          BY <4>1, <5>1, FillFields
      <4>5. CASE b.o < T /\ ~Falls(b, S) /\ ~Climbs(b, T)
        <5>1. second = None /\ p = Clean(TRUE, s)
          BY <1>10, <1>12, <2>1, <4>5
        <5>2. QED
          BY <1>14, <4>1, <5>1
      <4>6. QED
        BY <3>4, <4>2, <4>3, <4>4, <4>5
    <3>7. QED
      BY <1>6, <3>3, <3>5
  <2>2. CASE ~(b.o >= A)
    <3>1. touch.amb = FALSE
      <4>1. \/ touch = None
            \/ \E why, price : touch = Fill(why, price, FALSE)
        <5>1. b.o <= S \/ (Inside(b, S, A) /\ ~Between(b, S, A))
          BY <1>8, <1>9, <2>2 DEF UnarmedSure
        <5>2. QED
          BY <1>11, <5>1 DEF Between
      <4>2. CASE touch = None
        BY <1>14, <4>2
      <4>3. CASE \E why, price : touch = Fill(why, price, FALSE)
        <5>1. PICK why, price : touch = Fill(why, price, FALSE)
          BY <4>3
        <5>2. Fill(why, price, FALSE).amb = FALSE
          BY DEF Fill
        <5>3. QED
          BY <5>1, <5>2
      <4>4. QED
        BY <4>1, <4>2, <4>3
    <3>2. QED
      BY <1>3, <1>5, <2>2, <3>1
  <2>3. QED
    BY <2>1, <2>2
<1>17. QED
  BY <1>15, <1>16 DEF v, p, Settles

LEMMA UnarmedWalks ==
  ASSUME NEW b, NEW W, NEW n, Covers(b, W, n), Minutely(W, n), NEW e \in Int, NEW s, NEW at, NEW o \in Lives,
         ~o.armed, Outcome(W, n, e - Risk, e + Runner, e + Arm, o),
         NEW p, p = UnarmedBar(Clean(FALSE, s), b, e, at, FALSE), NEW q, q = UnarmedBar(Clean(FALSE, s), b, e, at, TRUE),
         NEW v, v = RefUnarmed(Clean(FALSE, s), b, W, e, at, "m1")
  PROVE  Judges(v, o, s, at) /\ Decides(v, p, q, o)
<1> DEFINE S == e - Risk
           A == e + Arm
           T == e + Runner
           touch == RefResolve(b, S, A)
           second == RefResolve(b, S, T)
<1>1. S \in Int /\ A \in Int /\ T \in Int /\ S < A /\ A < T /\ b \in MinuteBars
      /\ b.o \in Int /\ b.l \in Int /\ b.h \in Int /\ b.l <= b.o /\ b.o <= b.h /\ o.price \in Int
  BY PolicyAssumption DEF Covers, MinuteBars, Lives
<1>2. Outcome(W, n, S, T, A, o)
  OBVIOUS
<1>3. BarOutcome(b, S, T, A, o)
  BY <1>1, BarOf
<1>4. Judges(p, o, s, at) /\ Judges(q, o, s, at) /\ Upper(q, o)
  BY <1>1, <1>3, UnarmedJudges
<1>5. UnarmedTable(p, b, e, s, at, FALSE)
  BY <1>1, UnarmedRows
<1>6. touch = Resolve(b, S, A) /\ second = Resolve(b, S, T)
  BY <1>1, ResolveSame
<1>7. UnarmedSure(b, S, A, T) => v = p /\ Plain(p)
  <2>1. UnarmedSure(b, S, A, T) => Settles(RefUnarmed(Clean(FALSE, s), b, W, e, at, "m1"), UnarmedBar(Clean(FALSE, s), b, e, at, FALSE))
    BY <1>1, UnarmedSurely
  <2>2. QED
    BY <2>1 DEF Settles
<1>8. CASE Between(b, S, A)
  <2>1. touch = Fill("stop", S, TRUE)
    BY <1>1, <1>6, <1>8, ResolveRows DEF Between
  <2>2. ~o.open /\ S <= o.price
    BY <1>1, <1>3, <1>8 DEF Between, BarOutcome, Inside, Falls, Stops
  <2>3. p = Done(FALSE, TRUE, s, "stop", S, at)
    BY <1>5, <1>8 DEF UnarmedTable, Between
  <2>4. p.price = S
    <3>1. ASSUME NEW y, y = Done(FALSE, TRUE, s, "stop", S, at) PROVE y.price = S
      BY <3>1 DEF Done
    <3>2. QED
      BY <2>3, <3>1
  <2> DEFINE w == WalkUnarmed(W, S, A, T)
  <2>5. Walked(w, S, T, o)
    BY <1>1, <1>2, <2>2, WalkUnarmedFits
  <2>6. w.fill.amb = TRUE \/ w.fill.amb = FALSE
    BY <2>2, <2>5 DEF Walked, Fits
  <2>7. v = Filled(Walking(w.armed, w.fill.amb, s), w.fill, at)
    <3>1. touch.amb = TRUE
      <4> HIDE DEF touch
      <4>1. QED
        BY <2>1, FillFields
    <3>2. WalksOut(RefUnarmed(Clean(FALSE, s), b, W, e, at, "m1"), w, s, at)
      BY <2>6, <3>1, UnarmedWalk
    <3>3. QED
      BY <3>2 DEF WalksOut
  <2> HIDE DEF w
  <2>8. q.price \in Int
    BY <1>4, <2>2 DEF Judges
  <2>9. Fits(w.fill, S, T, o) /\ (w.fill.amb = FALSE => (o.touched => w.armed = TRUE) /\ (~o.touched => w.armed = FALSE))
    BY <2>5 DEF Walked
  <2>10. QED
    BY <1>1, <1>4, <2>2, <2>4, <2>7, <2>8, <2>9, WalkedDecides
<1>9. CASE b.o >= A /\ b.o < T /\ Falls(b, S) /\ Climbs(b, T)
  <2>1. touch = Fill("target", b.o, FALSE) /\ second = Fill("stop", S, TRUE)
    <3>1. b.o > S /\ b.o >= A /\ Inside(b, S, T)
      BY <1>1, <1>9 DEF Inside
    <3>2. ResolveTable(touch, b, S, A) /\ ResolveTable(second, b, S, T)
      <4>1. ResolveTable(Resolve(b, S, A), b, S, A) /\ ResolveTable(Resolve(b, S, T), b, S, T)
        <5> HIDE DEF S, A, T
        <5>1. QED
          BY <1>1, ResolveTabled
      <4> HIDE DEF S, A, T, touch, second
      <4>2. QED
        BY <1>6, <4>1
    <3> HIDE DEF S, A, T, touch, second
    <3>3. QED
      BY <1>1, <1>9, <3>1, <3>2 DEF ResolveTable
  <2>2. ~o.open /\ S <= o.price /\ o.touched
    BY <1>1, <1>3, <1>9 DEF BarOutcome, Falls, Stops
  <2>3. p = Done(TRUE, TRUE, s, "stop", S, at)
    BY <1>5, <1>9 DEF UnarmedTable
  <2>4. p.price = S
    <3>1. ASSUME NEW y, y = Done(TRUE, TRUE, s, "stop", S, at) PROVE y.price = S
      BY <3>1 DEF Done
    <3>2. QED
      BY <2>3, <3>1
  <2> DEFINE r == WalkArmed(W, S, T)
  <2>5. Fits(r, S, T, o)
    <3>1. EndsIn(W, n, S, T, o)
      BY <1>1, <1>2, OutcomeEnds
    <3>2. QED
      BY <1>1, <3>1, WalkFits
  <2>6. r.amb = TRUE \/ r.amb = FALSE
    BY <2>2, <2>5 DEF Fits
  <2>7. v = Filled(Walking(TRUE, r.amb, s), r, at)
    <3>1. touch.amb = FALSE /\ touch.why = "target" /\ second.amb = TRUE
      <4> HIDE DEF touch, second
      <4>1. QED
        BY <2>1, FillFields
    <3>2. v = Ordered(s, second, W, S, T, "m1", at)
      <4>1. UnarmedOrdered(RefUnarmed(Clean(FALSE, s), b, W, e, at, "m1"), b, W, e, s, at)
        BY <1>1, <3>1, UnarmedPlain
      <4>2. QED
        BY <1>9, <3>1, <4>1 DEF UnarmedOrdered
    <3>3. WalksOn(Ordered(s, second, W, S, T, "m1", at), r, s, at)
      <4>1. r = WalkArmed(W, S, T)
        OBVIOUS
      <4> HIDE DEF S, T, second, r
      <4>2. QED
        BY <2>6, <3>1, <4>1, OrderedWalk
    <3>4. QED
      BY <3>2, <3>3 DEF WalksOn
  <2> HIDE DEF r
  <2>8. q.price \in Int
    BY <1>4, <2>2 DEF Judges
  <2>9. QED
    BY <1>1, <1>4, <2>2, <2>4, <2>5, <2>7, <2>8, WalkedDecides
<1>10. CASE UnarmedSure(b, S, A, T)
  BY <1>4, <1>7, <1>10, PlainDecides DEF Plain
<1>11. QED
  BY <1>8, <1>9, <1>10 DEF UnarmedSure
=============================================================================
