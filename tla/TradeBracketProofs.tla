-------------------------- MODULE TradeBracketProofs --------------------------
(***************************************************************************)
(* Theorems about TradePath: the simulators hold what the orders earned    *)
(* between their bounds, and say exactly what the orders did where no bar  *)
(* was ambiguous.                                                          *)
(*                                                                         *)
(* The proof follows the orders through the minutes of the bar that is     *)
(* open (LiveInv: what the minutes so far say of the orders), compares     *)
(* what each simulator makes of the bar when it is over, and carries the   *)
(* comparison to the end of the trade (SimsInv).                           *)
(***************************************************************************)
EXTENDS TradePathProofs

-----------------------------------------------------------------------------
(* The exit side of the minutes                                            *)

Sub(k) == SideBar(side, minutes[k], spread)

LEMMA SideOf ==
  ASSUME side \in {1, -1}, spread \in Int, NEW b \in MinuteBars
  PROVE  /\ SideBar(side, b, spread) \in MinuteBars
         /\ SideBar(side, b, spread).o = Price(b.o) /\ SideBar(side, b, spread).c = Price(b.c)
         /\ SideBar(side, b, spread).h = IF side > 0 THEN Price(b.h) ELSE Price(b.l)
         /\ SideBar(side, b, spread).l = IF side > 0 THEN Price(b.l) ELSE Price(b.h)
<1>1. SideBar(side, b, spread) \in MinuteBars
  BY SideBars
<1>2. CASE side = 1
  BY <1>1, <1>2 DEF SideBar, Price
<1>3. CASE side = -1
  <2>1. SideBar(side, b, spread) = [o |-> -(b.o + spread), h |-> -(b.l + spread), l |-> -(b.h + spread), c |-> -(b.c + spread)]
    BY <1>3 DEF SideBar
  <2>2. QED
    BY <1>1, <1>3, <2>1 DEF Price
<1>4. QED
  BY <1>2, <1>3

LEMMA SidePoint ==
  ASSUME side \in {1, -1}, spread \in Int, NEW x \in Int
  PROVE  SideBar(side, Point(x), spread) = Point(Price(x))
<1>1. CASE side = 1
  BY <1>1 DEF SideBar, Price, Point
<1>2. CASE side = -1
  BY <1>2 DEF SideBar, Price, Point
<1>3. QED
  BY <1>1, <1>2

\* Two prices and their exit sides.
LEMMA PriceMoves ==
  ASSUME side \in {1, -1}, spread \in Int, NEW x \in Int, NEW y \in Int
  PROVE  /\ Price(x) \in Int /\ Price(y) \in Int
         /\ x = y <=> Price(x) = Price(y)
         /\ side > 0 => (x <= y <=> Price(x) <= Price(y))
         /\ ~(side > 0) => (x <= y <=> Price(y) <= Price(x))
         /\ y = x + 1 \/ y = x - 1 => Price(y) = Price(x) + 1 \/ Price(y) = Price(x) - 1
<1>1. CASE side = 1
  BY <1>1 DEF Price
<1>2. CASE side = -1
  BY <1>2 DEF Price
<1>3. QED
  BY <1>1, <1>2

LEMMA SideGrows ==
  ASSUME side \in {1, -1}, spread \in Int, NEW b \in MinuteBars, NEW x \in Int, NEW g, Grows(g, b, x)
  PROVE  Grows(SideBar(side, g, spread), SideBar(side, b, spread), Price(x))
<1>1. g \in MinuteBars /\ g.o = b.o /\ g.c = x /\ g.h \in {b.h, x} /\ g.h >= b.h /\ g.h >= x
      /\ g.l \in {b.l, x} /\ g.l <= b.l /\ g.l <= x
  BY DEF Grows
<1>2. /\ b.o \in Int /\ b.h \in Int /\ b.l \in Int /\ b.c \in Int
      /\ g.o \in Int /\ g.h \in Int /\ g.l \in Int /\ g.c \in Int
  BY <1>1 DEF MinuteBars
<1> DEFINE G == SideBar(side, g, spread)
           B == SideBar(side, b, spread)
<1>3. /\ G \in MinuteBars /\ G.o = Price(g.o) /\ G.c = Price(g.c)
      /\ G.h = (IF side > 0 THEN Price(g.h) ELSE Price(g.l))
      /\ G.l = (IF side > 0 THEN Price(g.l) ELSE Price(g.h))
  BY <1>1, SideOf
<1>4. /\ B.o = Price(b.o)
      /\ B.h = (IF side > 0 THEN Price(b.h) ELSE Price(b.l))
      /\ B.l = (IF side > 0 THEN Price(b.l) ELSE Price(b.h))
  BY SideOf
<1> SUFFICES Grows(G, B, Price(x))
  OBVIOUS
<1> HIDE DEF G, B
<1>5. G.o = B.o /\ G.c = Price(x)
  BY <1>1, <1>3, <1>4
<1>6. CASE side = 1
  <2>1. side > 0
    BY <1>6
  <2>2. /\ G.h = Price(g.h) /\ G.l = Price(g.l) /\ B.h = Price(b.h) /\ B.l = Price(b.l)
    BY <1>3, <1>4, <2>1
  <2>3. /\ Price(b.h) <= Price(g.h) /\ Price(x) <= Price(g.h) /\ Price(g.l) <= Price(b.l) /\ Price(g.l) <= Price(x)
        /\ Price(g.h) \in Int /\ Price(b.h) \in Int /\ Price(x) \in Int /\ Price(g.l) \in Int /\ Price(b.l) \in Int
    BY <1>1, <1>2, <1>6 DEF Price
  <2>4. G.h \in {B.h, Price(x)} /\ G.l \in {B.l, Price(x)}
    BY <1>1, <2>2
  <2>5. G.h >= B.h /\ G.h >= Price(x) /\ G.l <= B.l /\ G.l <= Price(x)
    BY <2>2, <2>3
  <2>6. QED
    BY <1>3, <1>5, <2>4, <2>5 DEF Grows
<1>7. CASE side = -1
  <2>1. ~(side > 0)
    BY <1>7
  <2>2. /\ G.h = Price(g.l) /\ G.l = Price(g.h) /\ B.h = Price(b.l) /\ B.l = Price(b.h)
    BY <1>3, <1>4, <2>1
  <2>3. /\ Price(g.h) <= Price(b.h) /\ Price(g.h) <= Price(x) /\ Price(b.l) <= Price(g.l) /\ Price(x) <= Price(g.l)
        /\ Price(g.h) \in Int /\ Price(b.h) \in Int /\ Price(x) \in Int /\ Price(g.l) \in Int /\ Price(b.l) \in Int
    BY <1>1, <1>2, <1>7 DEF Price
  <2>4. G.h \in {B.h, Price(x)} /\ G.l \in {B.l, Price(x)}
    BY <1>1, <2>2
  <2>5. G.h >= B.h /\ G.h >= Price(x) /\ G.l <= B.l /\ G.l <= Price(x)
    BY <2>2, <2>3
  <2>6. QED
    BY <1>3, <1>5, <2>4, <2>5 DEF Grows
<1>8. QED
  BY <1>6, <1>7

-----------------------------------------------------------------------------
(* The orders in the bar that is open                                      *)

\* The minutes in which the live orders are watched from their first to their
\* last price: the fill minute of a limit order is not one of them.
Skipped == IF plan = "limit" /\ j = 0 THEN order.minute ELSE 0
Count == Len(minutes) - Skipped
Watch == [k \in 1..Count |-> Sub(Skipped + k)]

\* The trade is in, and the simulators have not seen the bar that is open.
Fresh == ~over /\ ~Resting /\ (live.open \/ live.at = j)

\* Where the orders are, what the last price was, what the minutes tell.
Placed ==
  /\ Managing => live.stop = (IF live.armed THEN Entry ELSE Entry - Risk) /\ (flipped <=> live.leave)
  /\ plan = "range" => live.stop = Entry - Risk /\ (live.leave <=> j = Horizon - 1)
  /\ plan = "limit" /\ j = 0 => ~live.armed /\ ~live.leave /\ ~flipped
Alive(o, x) ==
  o.open => ~o.leave /\ o.stop < x /\ x < Target /\ (x >= Entry + Arm => o.touched)
Told ==
  /\ ~live.leave /\ Followed => Outcome(Watch, Count, live.stop, Target, Entry + Arm, live)
  /\ live.leave => ~live.open /\ j > 0 /\ live.price = Sub(1).o /\ (live.touched <=> live.armed)

LiveInv ==
  /\ live.armed => live.touched
  /\ live.open => live.at = -1
  /\ ~live.open => live.at \in 0..j
  /\ Fresh => Placed /\ Alive(live, Price(bid)) /\ Told

LEMMA WatchIs ==
  ASSUME Types, ~over, ~Resting
  PROVE  /\ Count \in Nat /\ Count <= Len(minutes) /\ Skipped \in Nat /\ Skipped + Count = Len(minutes)
         /\ \A k \in 1..Count : Watch[k] = Sub(Skipped + k) /\ Watch[k] \in MinuteBars
         /\ \A k \in 1..Len(minutes) : Sub(k) \in MinuteBars
         /\ Len(minutes) \in Nat \ {0} /\ Sub(Len(minutes)).c = Price(bid)
<1>1. /\ Len(minutes) \in Nat \ {0} /\ \A k \in 1..Len(minutes) : minutes[k] \in MinuteBars
      /\ side \in {1, -1} /\ spread \in Int /\ j \in Nat /\ order.minute \in Nat
  BY TypesFacts DEF Types, MinuteList
<1>2. Skipped \in Nat /\ Skipped <= Len(minutes)
  BY <1>1 DEF Skipped, Types
<1>3. Count \in Nat /\ Count <= Len(minutes) /\ Skipped + Count = Len(minutes)
  BY <1>1, <1>2 DEF Count
<1>4. \A k \in 1..Len(minutes) : Sub(k) \in MinuteBars
  BY <1>1, SideOf DEF Sub
<1>5. \A k \in 1..Count : Skipped + k \in 1..Len(minutes)
  BY <1>1, <1>2, <1>3
<1>6. \A k \in 1..Count : Watch[k] = Sub(Skipped + k)
  BY DEF Watch
<1>7. Sub(Len(minutes)).c = Price(bid)
  <2>1. minutes[Len(minutes)] \in MinuteBars /\ minutes[Len(minutes)].c = bid
    BY <1>1 DEF Types
  <2>2. QED
    BY <1>1, <2>1, SideOf DEF Sub
<1>8. QED
  BY <1>1, <1>2, <1>3, <1>4, <1>5, <1>6, <1>7

\* The minutes of the exit side after a move, and after a new minute.
LEMMA SubMove ==
  ASSUME Types, NEW d \in {-1, 1}, Move(d)
  PROVE  /\ \A k \in 1..(Len(minutes) - 1) : Sub(k)' = Sub(k)
         /\ Grows(Sub(Len(minutes))', Sub(Len(minutes)), Price(bid'))
         /\ Price(bid)' = Price(bid') /\ Price(bid') \in Int
         /\ Price(bid') = Price(bid) + 1 \/ Price(bid') = Price(bid) - 1
         /\ Len(minutes') = Len(minutes)
<1>1. Lengthened(bid') /\ bid' \in Int /\ Price(bid') \in Int
  BY MoveFacts
<1>2. side' = side /\ spread' = spread /\ bid' = bid + d /\ bid \in Int /\ side \in {1, -1} /\ spread \in Int
  BY TypesFacts DEF Move, Types
<1>3. \A k \in 1..(Len(minutes) - 1) : Sub(k)' = Sub(k)
  BY <1>1, <1>2 DEF Sub, Lengthened
<1>4. Grows(Sub(Len(minutes))', Sub(Len(minutes)), Price(bid'))
  <2> DEFINE N == Len(minutes)
  <2>1. minutes[N] \in MinuteBars /\ N' = N
    <3>1. MinuteList(minutes)
      BY TypesFacts
    <3>2. QED
      BY <1>1, <3>1 DEF MinuteList, Lengthened
  <2>2. Grows(minutes'[N], minutes[N], bid')
    BY <1>1 DEF Lengthened
  <2>3. Grows(SideBar(side, minutes'[N], spread), SideBar(side, minutes[N], spread), Price(bid'))
    <3> HIDE DEF N
    <3>1. QED
      BY <1>1, <1>2, <2>1, <2>2, SideGrows
  <2>4. QED
    BY <1>2, <2>1, <2>3 DEF Sub
<1>5. Price(bid)' = Price(bid')
  BY <1>2 DEF Price
<1>6. Price(bid') = Price(bid) + 1 \/ Price(bid') = Price(bid) - 1
  BY <1>1, <1>2, PriceMoves
<1>7. QED
  BY <1>1, <1>3, <1>4, <1>5, <1>6 DEF Lengthened

\* The watched minutes grow with the last minute.
LEMMA WatchMove ==
  ASSUME Types, ~over, ~Resting, NEW d \in {-1, 1}, Move(d), Count > 0
  PROVE  /\ Count' = Count /\ \A k \in 1..(Count - 1) : Watch'[k] = Watch[k]
         /\ Grows(Watch'[Count], Watch[Count], Price(bid'))
         /\ Watch[Count].c = Price(bid)
<1>1. UNCHANGED <<plan, side, spread, j, over>> /\ order'.minute = order.minute
  BY DEF Move, Types, Orders, Resting
<1>2. /\ \A k \in 1..(Len(minutes) - 1) : Sub(k)' = Sub(k)
      /\ Grows(Sub(Len(minutes))', Sub(Len(minutes)), Price(bid'))
      /\ Len(minutes') = Len(minutes)
  BY SubMove
<1>3. /\ Count \in Nat /\ Count <= Len(minutes) /\ Skipped \in Nat /\ Skipped + Count = Len(minutes)
      /\ \A k \in 1..Count : Watch[k] = Sub(Skipped + k)
      /\ Len(minutes) \in Nat \ {0} /\ Sub(Len(minutes)).c = Price(bid)
  BY WatchIs
<1>4. Skipped' = Skipped /\ Count' = Count
  BY <1>1, <1>2 DEF Skipped, Count
<1>5. \A k \in 1..Count : Watch'[k] = SideBar(side', minutes'[Skipped + k], spread')
  BY <1>4 DEF Watch, Sub
<1>6. \A k \in 1..Len(minutes) : Sub(k)' = SideBar(side', minutes'[k], spread')
  BY DEF Sub
<1>7. ASSUME NEW k \in 1..(Count - 1) PROVE Watch'[k] = Watch[k]
  <2>1. k \in 1..Count /\ Skipped + k \in 1..(Len(minutes) - 1)
    BY <1>3
  <2>2. SideBar(side', minutes'[Skipped + k], spread') = Sub(Skipped + k)
    BY <1>2, <2>1 DEF Sub
  <2>3. QED
    BY <1>3, <1>5, <2>1, <2>2
<1>8. Grows(Watch'[Count], Watch[Count], Price(bid'))
  <2>1. Count \in 1..Count
    BY <1>3
  <2>2. Watch'[Count] = SideBar(side', minutes'[Len(minutes)], spread') /\ Watch[Count] = Sub(Len(minutes))
    BY <1>3, <1>5, <2>1
  <2>3. Grows(SideBar(side', minutes'[Len(minutes)], spread'), Sub(Len(minutes)), Price(bid'))
    BY <1>2 DEF Sub
  <2>4. QED
    BY <2>2, <2>3
<1>9. Watch[Count].c = Price(bid)
  BY <1>3
<1>10. QED
  BY <1>4, <1>7, <1>8, <1>9

LEMMA LiveMove ==
  ASSUME Types, LiveInv, ~Resting, NEW d \in {-1, 1}, Move(d)
  PROVE  LiveInv'
<1> DEFINE p == Price(bid')
           A == Entry + Arm
           T == Target
<1>1. /\ UNCHANGED <<plan, side, spread, j, flipped, over>> /\ ~over
      /\ order'.minute = order.minute /\ order'.price = order.price /\ order.minute # 0
  BY DEF Move, Types, Orders, Resting, Running
<1>2. Entry' = Entry /\ Target' = Target /\ ~Resting' /\ (Managing' <=> Managing)
  BY <1>1 DEF Entry, Target, Resting, Managing
<1>3. p \in Int /\ Price(bid)' = p /\ (p = Price(bid) + 1 \/ p = Price(bid) - 1) /\ Price(bid) \in Int
      /\ Entry \in Int /\ T \in Int /\ A \in Int /\ j \in Nat /\ live \in Lives
  <2>1. Price(bid) \in Int /\ Entry \in Int /\ T \in Int /\ j \in Nat /\ live \in Lives
    BY TypesFacts DEF Types
  <2>2. QED
    BY <2>1, SubMove, PolicyAssumption
<1>4. Watches(live', live, p, T, A, j)
  <2>1. live' = Watched(live, p, j)
    BY <1>1 DEF Move, Resting
  <2>2. QED
    BY <1>3, <2>1, WatchedIs
<1> HIDE DEF p, A, T
<1>5. /\ live'.stop = live.stop /\ live'.armed = live.armed /\ live'.leave = live.leave
      /\ ~live.open => live' = live
      /\ live.open /\ (p <= live.stop \/ p >= T) => ~live'.open /\ live'.price = p /\ live'.at = j
      /\ live.open /\ ~(p <= live.stop \/ p >= T) => live'.open /\ live'.price = 0 /\ live'.at = -1
      /\ live.open => (live'.touched <=> (live.touched \/ p >= A))
  BY <1>4 DEF Watches
<1>6. live'.armed => live'.touched
  BY <1>5 DEF LiveInv
<1>7. (live'.open => live'.at = -1) /\ (~live'.open => live'.at \in 0..j)
  BY <1>3, <1>5 DEF LiveInv
<1>8. ASSUME Fresh' PROVE Placed' /\ Alive(live', p) /\ Told'
  <2>1. Fresh
    BY <1>1, <1>5, <1>8 DEF Fresh, Resting
  <2>2. Placed /\ Alive(live, Price(bid)) /\ Told
    BY <2>1 DEF LiveInv
  <2>3. Placed'
    BY <1>1, <1>2, <1>5, <2>2 DEF Placed
  <2>4. Alive(live', p)
    BY <1>3, <1>5, <2>2 DEF Alive, A, T, Lives
  <2>5. live'.leave => ~live'.open /\ j' > 0 /\ live'.price = Sub(1)'.o /\ (live'.touched <=> live'.armed)
    <3> SUFFICES ASSUME live'.leave
                 PROVE  ~live'.open /\ j' > 0 /\ live'.price = Sub(1)'.o /\ (live'.touched <=> live'.armed)
      OBVIOUS
    <3>1. ~live.open /\ live' = live /\ j > 0 /\ live.price = Sub(1).o /\ (live.touched <=> live.armed)
      BY <1>5, <2>2 DEF Told
    <3>2. Sub(1)'.o = Sub(1).o
      <4>1. /\ \A k \in 1..(Len(minutes) - 1) : Sub(k)' = Sub(k)
            /\ Grows(Sub(Len(minutes))', Sub(Len(minutes)), Price(bid'))
            /\ Len(minutes') = Len(minutes)
        BY SubMove
      <4>2. Len(minutes) \in Nat \ {0}
        BY <1>1, WatchIs
      <4>3. CASE Len(minutes) = 1
        BY <4>1, <4>3 DEF Grows, Sub
      <4>4. CASE Len(minutes) > 1
        <5>1. 1 \in 1..(Len(minutes) - 1)
          BY <4>2, <4>4
        <5>2. QED
          BY <4>1, <5>1 DEF Sub
      <4>5. Len(minutes) = 1 \/ Len(minutes) > 1
        <5>1. \A n \in Nat \ {0} : n = 1 \/ n > 1
          OBVIOUS
        <5>2. QED
          BY Zenon, <4>2, <5>1
      <4>6. QED
        BY Zenon, <4>3, <4>4, <4>5
    <3>3. QED
      BY <1>1, <3>1, <3>2
  <2>6. ASSUME ~live'.leave, Followed' PROVE Outcome(Watch', Count', live'.stop, Target', Entry' + Arm, live')
    <3>1. /\ Count \in Nat /\ Skipped \in Nat /\ Skipped + Count = Len(minutes)
          /\ \A k \in 1..Count : Watch[k] \in MinuteBars
      BY <1>1, WatchIs
    <3>2. CASE Count = 0
      <4>1. plan = "limit" /\ j = 0 /\ order.minute = Len(minutes)
        <5>1. Skipped = Len(minutes) /\ Len(minutes) # 0
          BY <1>1, <3>1, <3>2, WatchIs
        <5>2. QED
          BY <5>1 DEF Skipped
      <4>2. live'.open /\ ~live'.touched /\ ~live'.armed
        <5>1. order'.quiet = (live'.open /\ ~live'.touched)
          BY <1>1, <4>1 DEF Move, Resting, Types, Orders
        <5>2. ~live'.armed
          BY <1>5, <2>2, <4>1 DEF Placed
        <5>3. QED
          BY <2>6, <1>1, <4>1, <5>1, <5>2 DEF Followed
      <4>3. Count' = 0
        BY <1>1, <3>2, SubMove DEF Count, Skipped
      <4>4. 1..Count' = {}
        BY <4>3
      <4>5. QED
        BY <4>2, <4>4 DEF Outcome
    <3>3. CASE Count # 0
      <4>0. Count \in Nat \ {0} /\ Count > 0
        BY <3>1, <3>3
      <4>1. Followed
        <5>1. plan = "limit" /\ j = 0 => order.minute # Len(minutes)
          BY <3>1, <4>0, WatchIs DEF Skipped
        <5>2. order'.quiet = order.quiet
          BY <1>1, <5>1 DEF Move, Resting, Types, Orders
        <5>3. QED
          BY <1>1, <2>6, <5>2 DEF Followed
      <4>2. Outcome(Watch, Count, live.stop, T, A, live)
        BY <1>5, <2>2, <2>6, <4>1 DEF Told, T, A
      <4>3. /\ Count' = Count /\ \A k \in 1..(Count - 1) : Watch'[k] = Watch[k]
            /\ Grows(Watch'[Count], Watch[Count], p)
            /\ Watch[Count].c = Price(bid)
        BY <1>1, <4>0, WatchMove DEF p
      <4>4. p = Watch[Count].c + 1 \/ p = Watch[Count].c - 1
        BY <1>3, <4>3
      <4>5. Outcome(Watch', Count, live'.stop, T, A, live')
        BY <1>3, <1>4, <3>1, <4>0, <4>2, <4>3, <4>4, OutcomeGrows
      <4>6. QED
        BY <1>2, <4>3, <4>5 DEF T, A
    <3>4. QED
      BY <3>2, <3>3
  <2>7. QED
    BY <2>3, <2>4, <2>5, <2>6 DEF Told
<1>9. Fresh' => Alive(live, Price(bid))'
  BY <1>2, <1>3, <1>8 DEF Alive
<1>10. QED
  BY <1>1, <1>6, <1>7, <1>8, <1>9 DEF LiveInv

LEMMA LiveMinute ==
  ASSUME Types, LiveInv, NextMinute
  PROVE  LiveInv'
<1> DEFINE x == Price(bid)
           A == Entry + Arm
           T == Target
           n == Len(minutes)
<1>1. UNCHANGED <<plan, side, spread, bid, j, flipped, order, live, over>> /\ ~over /\ minutes' = Append(minutes, Point(bid))
  BY DEF NextMinute, Running
<1>2. /\ Entry' = Entry /\ Target' = Target /\ (Resting' <=> Resting) /\ (Managing' <=> Managing) /\ Price(bid)' = x
      /\ Skipped' = Skipped /\ (Fresh' <=> Fresh) /\ (Followed' <=> Followed)
  BY <1>1 DEF Entry, Target, Resting, Managing, Price, Skipped, Fresh, Followed
<1>3. (live'.armed => live'.touched) /\ (live'.open => live'.at = -1) /\ (~live'.open => live'.at \in 0..j')
  BY <1>1 DEF LiveInv
<1>4. ASSUME Fresh' PROVE Placed' /\ Alive(live, Price(bid))' /\ Told'
  <2>1. Placed /\ Alive(live, x) /\ Told /\ ~Resting
    BY <1>2, <1>4 DEF LiveInv, Fresh
  <2>2. Placed'
    BY <1>1, <1>2, <2>1 DEF Placed
  <2>3. Alive(live, Price(bid))'
    BY <1>1, <1>2, <2>1 DEF Alive
  <2>4. /\ n \in Nat \ {0} /\ minutes \in Seq(MinuteBars) /\ bid \in Int /\ x \in Int /\ side \in {1, -1} /\ spread \in Int
        /\ Entry \in Int /\ T \in Int /\ A \in Int /\ live \in Lives /\ live.stop \in Int
    <3>1. n \in Nat \ {0} /\ minutes \in Seq(MinuteBars) /\ bid \in Int /\ side \in {1, -1} /\ live \in Lives
      BY DEF Types
    <3>2. spread \in Int /\ Entry \in Int /\ T \in Int /\ x \in Int
      BY <3>1, TypesFacts
    <3>3. A \in Int
      BY <3>2, PolicyAssumption
    <3>4. live.stop \in Int
      BY <3>1 DEF Lives
    <3>5. QED
      BY <3>1, <3>2, <3>3, <3>4
  <2>5. Point(bid) \in MinuteBars
    BY <2>4 DEF Point, MinuteBars
  <2>6. /\ Len(minutes') = n + 1 /\ minutes'[n + 1] = Point(bid)
        /\ \A k \in 1..n : minutes'[k] = minutes[k]
    BY <1>1, <2>4, <2>5
  <2>7. \A k \in 1..n : SideBar(side', minutes'[k], spread') = Sub(k)
    BY <1>1, <2>6 DEF Sub
  <2>8. SideBar(side', minutes'[n + 1], spread') = Point(x)
    BY <1>1, <2>4, <2>6, SidePoint
  <2>9. live'.leave => ~live'.open /\ j' > 0 /\ live'.price = Sub(1)'.o /\ (live'.touched <=> live'.armed)
    <3>1. 1 \in 1..n
      BY <2>4
    <3>2. Sub(1)' = Sub(1)
      BY <2>7, <3>1 DEF Sub
    <3>3. QED
      BY <1>1, <2>1, <3>2 DEF Told
  <2>10. ASSUME ~live'.leave, Followed' PROVE Outcome(Watch', Count', live'.stop, Target', Entry' + Arm, live')
    <3>1. /\ Count \in Nat /\ Skipped \in Nat /\ Skipped + Count = n
          /\ \A k \in 1..Count : Watch[k] = Sub(Skipped + k)
      BY <1>1, <2>1, WatchIs
    <3>2. Count' = Count + 1
      BY <1>2, <2>4, <2>6, <3>1 DEF Count
    <3>3. \A k \in 1..(Count + 1) : Watch'[k] = SideBar(side', minutes'[Skipped + k], spread')
      BY <1>2, <3>2 DEF Watch, Sub
    <3>4. \A k \in 1..Count : Watch'[k] = Watch[k]
      <4> SUFFICES ASSUME NEW k \in 1..Count PROVE Watch'[k] = Watch[k]
        OBVIOUS
      <4>1. k \in 1..(Count + 1) /\ Skipped + k \in 1..n
        BY <2>4, <3>1
      <4>2. QED
        BY <2>7, <3>1, <3>3, <4>1
    <3>5. Watch'[Count + 1] = Point(x)
      <4>1. Count + 1 \in 1..(Count + 1) /\ Skipped + (Count + 1) = n + 1
        BY <2>4, <3>1
      <4>2. QED
        BY <2>8, <3>3, <4>1
    <3>6. Outcome(Watch, Count, live.stop, T, A, live)
      BY <1>1, <1>2, <2>1, <2>10 DEF Told
    <3>7. live.open => live.stop < x /\ x < T /\ (x >= A => live.touched)
      BY <2>1 DEF Alive
    <3> HIDE DEF x, T, A
    <3>8. Outcome(Watch', Count + 1, live.stop, T, A, live)
      BY <2>4, <3>1, <3>4, <3>5, <3>6, <3>7, OutcomeLengthens
    <3>9. QED
      BY <1>1, <1>2, <3>2, <3>8 DEF T, A
  <2>11. QED
    BY <2>2, <2>3, <2>9, <2>10 DEF Told
<1>5. QED
  BY <1>3, <1>4 DEF LiveInv

\* The orders after the close of a bar.
Decided(q, flip, cand) ==
  IF j = Horizon - 1 /\ (Managing \/ plan = "ratchet")
  THEN /\ ~q.open /\ q.price = Price(bid) /\ q.at = j
       /\ q.touched = live.touched /\ q.armed = live.armed
  ELSE /\ q.open = live.open /\ q.price = live.price /\ q.at = live.at
       /\ q.touched = live.touched /\ q.armed = live.touched
       /\ q.stop = (IF Managing THEN (IF live.touched THEN Entry ELSE live.stop) ELSE Higher(live.stop, cand))
       /\ q.leave <=> flip \/ (plan \in {"range", "path"} /\ j = Horizon - 2)

LEMMA ManagedIs ==
  ASSUME live \in Lives, NEW flip, NEW cand
  PROVE  Decided(Managed(flip, cand), flip, cand)
<1> DEFINE last == j = Horizon - 1 /\ (Managing \/ plan = "ratchet")
           leave == flip \/ (plan \in {"range", "path"} /\ j = Horizon - 2)
           stop == IF Managing THEN (IF live.touched THEN Entry ELSE live.stop) ELSE Higher(live.stop, cand)
<1>1. ASSUME NEW q, q = Managed(flip, cand) PROVE Decided(q, flip, cand)
  <2>1. CASE last
    <3>1. q = [live EXCEPT !.open = FALSE, !.price = Price(bid), !.at = j]
      BY <1>1, <2>1 DEF Managed
    <3>2. q.open = FALSE /\ q.price = Price(bid) /\ q.at = j /\ q.touched = live.touched /\ q.armed = live.armed
      BY <3>1 DEF Lives
    <3>3. QED
      BY <2>1, <3>2 DEF Decided
  <2>2. CASE ~last
    <3>1. q = [live EXCEPT !.stop = stop, !.armed = live.touched, !.leave = leave]
      BY <1>1, <2>2 DEF Managed
    <3>2. /\ q.open = live.open /\ q.price = live.price /\ q.at = live.at /\ q.touched = live.touched
          /\ q.armed = live.touched /\ q.stop = stop /\ q.leave = leave
      <4> HIDE DEF stop, leave
      <4>1. QED
        BY <3>1 DEF Lives
    <3>3. QED
      BY <2>2, <3>2 DEF Decided
  <2>3. QED
    BY <2>1, <2>2
<1>2. QED
  BY <1>1

\* The orders at the first price x of the next bar.
OpenedAs(q, o, x) ==
  /\ q.stop = o.stop /\ q.armed = o.armed /\ q.leave = o.leave
  /\ ~o.open => q = o
  /\ o.open /\ o.leave => ~q.open /\ q.price = x /\ q.at = j + 1 /\ q.touched = o.touched
  /\ o.open /\ ~o.leave => Watches(q, o, x, Target, Entry + Arm, j + 1)

LEMMA OpenedIs ==
  ASSUME Types, NEW o \in Lives, NEW x \in Int
  PROVE  OpenedAs(Opened(o, x), o, Price(x))
<1>1. Price(x) \in Int /\ j + 1 \in Int /\ Entry \in Int /\ Target \in Int
  <2>1. j \in Nat
    BY DEF Types
  <2>2. QED
    BY <2>1, TypesFacts
<1>2. Watches(Watched(o, Price(x), j + 1), o, Price(x), Target, Entry + Arm, j + 1)
  BY <1>1, WatchedIs
<1>3. ASSUME NEW q, q = Opened(o, x) PROVE OpenedAs(q, o, Price(x))
  <2>1. CASE o.open /\ o.leave
    <3>1. q = [o EXCEPT !.open = FALSE, !.price = Price(x), !.at = j + 1]
      BY <1>3, <2>1 DEF Opened
    <3>2. q.stop = o.stop /\ q.armed = o.armed /\ q.leave = o.leave /\ q.open = FALSE /\ q.price = Price(x) /\ q.at = j + 1
          /\ q.touched = o.touched
      BY <3>1 DEF Lives
    <3>3. QED
      BY <2>1, <3>2 DEF OpenedAs
  <2>2. CASE ~(o.open /\ o.leave)
    <3>1. q = Watched(o, Price(x), j + 1)
      BY <1>3, <2>2 DEF Opened
    <3>2. Watches(q, o, Price(x), Target, Entry + Arm, j + 1)
      BY <1>2, <3>1
    <3>3. q.stop = o.stop /\ q.armed = o.armed /\ q.leave = o.leave /\ (~o.open => q = o)
      BY <3>2 DEF Watches
    <3>4. QED
      BY <2>2, <3>2, <3>3 DEF OpenedAs
  <2>3. QED
    BY <2>1, <2>2
<1>4. QED
  BY <1>3

Kept(flip, trail) == IF live.open THEN Managed(flip, Entry + trail) ELSE live

LEMMA KeptFacts ==
  ASSUME Types, LiveInv, NEW flip, NEW trail, NEW end, NEW gap, Closing(flip, trail, end, gap)
  PROVE  LET k == Kept(flip, trail)
         IN  /\ k \in Lives
             /\ k.armed => k.touched
             /\ k.open => live.open /\ k.at = -1 /\ k.armed = k.touched
             /\ ~k.open => k.at \in 0..j
<1> DEFINE k == Kept(flip, trail)
<1>1. live \in Lives /\ j \in Nat
  BY DEF Types
<1>2. k \in Lives
  <2>1. Entry + trail \in Int
    BY TypesFacts DEF Closing
  <2>2. Managed(flip, Entry + trail) \in Lives
    BY <2>1, ManagedType DEF Closing
  <2>3. QED
    BY <1>1, <2>2 DEF Kept
<1>3. live.open => Decided(k, flip, Entry + trail)
  BY <1>1, ManagedIs DEF Kept
<1>4. ~live.open => k = live
  BY DEF Kept
<1> HIDE DEF k
<1>5. CASE ~live.open
  BY <1>2, <1>4, <1>5 DEF LiveInv, k
<1>6. CASE live.open
  <2>1. live.at = -1 /\ (live.armed => live.touched)
    BY <1>6 DEF LiveInv
  <2>2. k.armed => k.touched
    BY <1>3, <1>6, <2>1 DEF Decided
  <2>3. k.open => live.open /\ k.at = -1 /\ k.armed = k.touched
    BY <1>3, <1>6, <2>1 DEF Decided
  <2>4. ~k.open => k.at \in 0..j
    <3>1. ~k.open => k.at = j
      BY <1>3, <1>6 DEF Decided
    <3>2. j \in 0..j
      BY <1>1
    <3>3. QED
      BY <3>1, <3>2
  <2>5. QED
    BY <1>2, <2>2, <2>3, <2>4 DEF k
<1>7. QED
  BY <1>5, <1>6

LEMMA LiveClose ==
  ASSUME Types, LiveInv, Sensible, CloseBar
  PROVE  LiveInv'
<1>1. PICK flip, trail, end, gap : Closing(flip, trail, end, gap)
  BY CloseFacts
<1> DEFINE k == Kept(flip, trail)
           x == Price(bid + gap)
<1>2. /\ k \in Lives /\ (k.armed => k.touched) /\ (k.open => live.open /\ k.at = -1 /\ k.armed = k.touched)
      /\ (~k.open => k.at \in 0..j)
  BY <1>1, KeptFacts
<1>3. /\ UNCHANGED <<plan, side, spread, order>> /\ flipped' = flip /\ over' = end /\ flip \in BOOLEAN /\ end \in BOOLEAN
      /\ trail \in Int /\ gap \in Int /\ (j = Horizon - 1 => end) /\ (plan = "range" => ~flip)
      /\ (plan \notin {"ratchet", "path"} => trail = -Far)
  BY <1>1 DEF Closing
<1>4. Entry' = Entry /\ Target' = Target /\ (Managing' <=> Managing) /\ ~over /\ ~Resting /\ ~Resting'
  BY <1>3 DEF Entry, Target, Managing, CloseBar, Resting, Running
<1>5. j \in Nat /\ bid \in Int /\ live \in Lives /\ side \in {1, -1} /\ spread \in Int /\ Entry \in Int /\ Target \in Int
      /\ Entry + Arm \in Int
  <2>1. j \in Nat /\ bid \in Int /\ live \in Lives /\ side \in {1, -1}
    BY DEF Types
  <2>2. QED
    BY <2>1, TypesFacts, PolicyAssumption
<1>6. CASE end
  <2>1. live' = k /\ j' = j
    BY <1>1, <1>6 DEF Closing, Kept
  <2>2. ~Fresh'
    BY <1>3, <1>6 DEF Fresh
  <2>3. QED
    BY <1>2, <2>1, <2>2 DEF LiveInv
<1>7. CASE ~end
  <2>1. live' = Opened(k, bid + gap) /\ bid' = bid + gap /\ minutes' = <<Point(bid + gap)>> /\ j' = j + 1
    BY <1>1, <1>7 DEF Closing, Kept
  <2>2. x \in Int /\ bid + gap \in Int
    BY <1>3, <1>5, TypesFacts
  <2>3. OpenedAs(live', k, x)
    BY <1>2, <2>1, <2>2, OpenedIs
  <2>4. Price(bid)' = x
    BY <1>3, <2>1 DEF Price
  <2> HIDE DEF k, x
  <2>5. live'.stop = k.stop /\ live'.armed = k.armed /\ live'.leave = k.leave
    BY <2>3 DEF OpenedAs
  <2>6. CASE ~k.open
    <3>1. live' = k
      BY <2>3, <2>6 DEF OpenedAs
    <3>2. ~Fresh'
      BY <1>2, <1>5, <2>1, <2>6, <3>1 DEF Fresh
    <3>3. ~live'.open /\ live'.at \in 0..j' /\ (live'.armed => live'.touched)
      BY <1>2, <1>5, <2>1, <2>6, <3>1
    <3>4. QED
      BY <3>2, <3>3 DEF LiveInv
  <2>7. CASE k.open
    <3>1. Fresh /\ Placed
      BY <1>2, <1>4, <2>7 DEF Fresh, LiveInv
    <3>2. Decided(k, flip, Entry + trail)
      BY <1>2, <1>5, <2>7, ManagedIs DEF Kept, k
    <3>3. j # Horizon - 1
      BY <1>3, <1>7
    <3>4. /\ k.armed = live.touched
          /\ k.stop = (IF Managing THEN (IF live.touched THEN Entry ELSE live.stop) ELSE Higher(live.stop, Entry + trail))
          /\ k.leave <=> flip \/ (plan \in {"range", "path"} /\ j = Horizon - 2)
      BY <3>2, <3>3 DEF Decided
    <3>5. Placed'
      <4>1. Managing => live'.stop = (IF live'.armed THEN Entry ELSE Entry - Risk) /\ (flipped' <=> live'.leave)
        <5>1. Managing => plan \notin {"range", "path"}
          BY DEF Managing
        <5>2. Managing => live.stop = (IF live.armed THEN Entry ELSE Entry - Risk)
          BY <3>1 DEF Placed
        <5>3. live.armed => live.touched
          BY DEF LiveInv
        <5>4. QED
          BY <1>3, <2>5, <3>4, <5>1, <5>2, <5>3
      <4>2. plan = "range" => live'.stop = Entry - Risk /\ (live'.leave <=> j' = Horizon - 1)
        <5> SUFFICES ASSUME plan = "range" PROVE live'.stop = Entry - Risk /\ (live'.leave <=> j' = Horizon - 1)
          OBVIOUS
        <5>1. live.stop = Entry - Risk /\ ~Managing /\ trail = -Far
          BY <1>3, <3>1 DEF Placed, Managing
        <5>2. Higher(Entry - Risk, Entry + -Far) = Entry - Risk
          BY <1>5, PolicyAssumption DEF Higher, Sensible, Far
        <5>3. live'.stop = Entry - Risk
          BY <2>5, <3>4, <5>1, <5>2
        <5>4. live'.leave <=> j' = Horizon - 1
          BY <1>3, <1>5, <2>1, <2>5, <3>4, PolicyAssumption
        <5>5. QED
          BY <5>3, <5>4
      <4>3. j' # 0
        BY <1>5, <2>1
      <4>4. QED
        BY <1>3, <1>4, <4>1, <4>2, <4>3 DEF Placed
    <3>6. CASE k.leave
      <4>1. ~live'.open /\ live'.price = x /\ live'.at = j + 1 /\ live'.touched = k.touched
        BY <2>3, <2>7, <3>6 DEF OpenedAs
      <4>2. Sub(1)'.o = x
        <5>1. SideBar(side', minutes'[1], spread') = Point(x)
          BY <1>3, <1>5, <2>1, <2>2, SidePoint DEF x
        <5>2. QED
          BY <5>1 DEF Sub, Point
      <4>3. Told'
        <5>1. live'.leave /\ ~live'.open /\ live'.price = Sub(1)'.o
          BY <2>5, <3>6, <4>1, <4>2
        <5>2. j' > 0
          BY <1>5, <2>1
        <5>3. live'.touched <=> live'.armed
          BY <1>2, <2>5, <2>7, <4>1
        <5>4. QED
          BY <5>1, <5>2, <5>3 DEF Told
      <4>4. Alive(live, Price(bid))'
        BY <4>1 DEF Alive
      <4>5. (live'.armed => live'.touched) /\ (live'.open => live'.at = -1) /\ (~live'.open => live'.at \in 0..j')
        BY <1>2, <1>5, <2>1, <2>5, <4>1
      <4>6. QED
        BY <3>5, <4>3, <4>4, <4>5 DEF LiveInv
    <3>7. CASE ~k.leave
      <4>1. Watches(live', k, x, Target, Entry + Arm, j + 1)
        BY <2>3, <2>7, <3>7 DEF OpenedAs
      <4>2. /\ k.open /\ (x <= k.stop \/ x >= Target) => ~live'.open /\ live'.price = x /\ live'.at = j + 1
            /\ k.open /\ ~(x <= k.stop \/ x >= Target) => live'.open /\ live'.price = 0 /\ live'.at = -1
            /\ k.open => (live'.touched <=> (k.touched \/ x >= Entry + Arm))
        BY <4>1 DEF Watches
      <4>3. Alive(live', x)
        BY <1>2, <1>5, <2>2, <2>5, <2>7, <3>7, <4>2 DEF Alive, Lives
      <4>4. Alive(live, Price(bid))'
        BY <1>4, <2>4, <4>3 DEF Alive
      <4>5. (live'.armed => live'.touched) /\ (live'.open => live'.at = -1) /\ (~live'.open => live'.at \in 0..j')
        BY <1>2, <1>5, <2>1, <2>5, <2>7, <4>2
      <4>6. Outcome(Watch', Count', live'.stop, Target', Entry' + Arm, live')
        <5>1. Skipped' = 0 /\ Count' = 1
          BY <1>5, <2>1 DEF Skipped, Count
        <5>2. Watch'[1] = Point(x)
          <6>1. Watch'[1] = SideBar(side', minutes'[1], spread')
            BY <5>1 DEF Watch, Sub
          <6>2. QED
            BY <1>3, <1>5, <2>1, <2>2, <6>1, SidePoint DEF x
        <5>3. k.open /\ k.touched = k.armed
          BY <1>2, <2>7
        <5>4. Outcome(Watch', 1, live'.stop, Target, Entry + Arm, live')
          BY <1>2, <1>5, <2>2, <4>1, <5>2, <5>3, OutcomeStarts DEF k
        <5>5. QED
          BY <1>4, <5>1, <5>4
      <4>7. Told'
        BY <2>5, <3>7, <4>6 DEF Told
      <4>8. QED
        BY <3>5, <4>4, <4>5, <4>7 DEF LiveInv
    <3>8. QED
      BY <3>6, <3>7
  <2>8. QED
    BY <2>6, <2>7
<1>8. QED
  BY <1>6, <1>7

-----------------------------------------------------------------------------
(* A limit order, until its bar is over                                    *)

New == [open |-> TRUE, stop |-> Entry - Risk, touched |-> FALSE, armed |-> FALSE,
        leave |-> FALSE, price |-> 0, at |-> -1]

\* The minute the order is filled in is the first that trades through it, and
\* what the orders did in that minute is that they were stopped, or nothing,
\* or more than the harness looks for.
Unfilled(k) == Sub(k).l + spread >= Entry
LimitInv ==
  plan = "limit" =>
    /\ Resting => /\ j = 0 /\ live = New /\ ~flipped /\ order.quiet
                  /\ sims["pess"] = Trade(Entry - Risk)
                  /\ \A k \in 1..Len(minutes) : Unfilled(k)
    /\ ~Resting /\ j = 0 /\ ~over =>
         /\ sims["pess"] = Trade(Entry - Risk)
         /\ ~Unfilled(order.minute) /\ \A k \in 1..(order.minute - 1) : Unfilled(k)
         /\ order.quiet => Sub(order.minute).l > Entry - Risk
         /\ order.minute = Len(minutes) => (order.quiet <=> live.open /\ ~live.touched)
         /\ live.open \/ live.at = 0
    /\ ~Resting /\ ~order.quiet /\ ~live.touched =>
         /\ ~live.open /\ live.at = 0 /\ live.price = Entry - Risk
         /\ j = 0 /\ ~over => Sub(order.minute).l <= Entry - Risk
         /\ j > 0 \/ over => sims["pess"].open = FALSE /\ sims["pess"].at = 0 /\ sims["pess"].price = Entry - Risk

LEMMA NewIs ==
  ASSUME Entry \in Int
  PROVE  /\ New \in Lives /\ New.open = TRUE /\ New.stop = Entry - Risk /\ New.touched = FALSE /\ New.armed = FALSE
         /\ New.leave = FALSE /\ New.price = 0 /\ New.at = -1
  BY PolicyAssumption DEF New, Lives

LEMMA LiveInit == Init /\ Sensible => LiveInv
<1> SUFFICES ASSUME Init, Sensible PROVE LiveInv
  OBVIOUS
<1>1. Types
  BY TypesInit
<1>2. /\ bid = 0 /\ minutes = <<Point(0)>> /\ j = 0 /\ flipped = FALSE /\ over = FALSE
      /\ live = IF Resting THEN New ELSE Watched(New, Price(0), 0)
  BY DEF Init, New
<1>3. /\ Entry \in Int /\ Target \in Int /\ Price(0) \in Int /\ side \in {1, -1} /\ spread \in Int
      /\ Entry + Arm \in Int
  BY <1>1, TypesFacts, PolicyAssumption DEF Types
<1>4. /\ New \in Lives /\ New.open = TRUE /\ New.stop = Entry - Risk /\ New.touched = FALSE /\ New.armed = FALSE
      /\ New.leave = FALSE /\ New.price = 0 /\ New.at = -1
  BY <1>3, NewIs
<1>5. CASE Resting
  <2>1. live = New /\ ~Fresh
    BY <1>2, <1>5 DEF Fresh
  <2>2. QED
    BY <1>4, <2>1 DEF LiveInv
<1>6. CASE ~Resting
  <2> DEFINE x == Price(0)
  <2>1. Watches(live, New, x, Target, Entry + Arm, 0)
    BY <1>2, <1>3, <1>4, <1>6, WatchedIs
  <2>2. Price(bid) = x
    BY <1>2
  <2>3. plan # "limit"
    <3>1. plan = "limit" => order.minute = 0
      BY DEF Init, Limit
    <3>2. QED
      BY <1>6, <3>1 DEF Resting
  <2> HIDE DEF x
  <2>4. /\ live.stop = Entry - Risk /\ live.armed = FALSE /\ live.leave = FALSE
        /\ x <= live.stop \/ x >= Target => ~live.open /\ live.price = x /\ live.at = 0
        /\ ~(x <= live.stop \/ x >= Target) => live.open /\ live.price = 0 /\ live.at = -1
        /\ live.touched <=> x >= Entry + Arm
    BY <1>4, <2>1 DEF Watches
  <2>5. Placed
    BY <1>2, <2>3, <2>4 DEF Placed, Sensible
  <2>6. Alive(live, x)
    BY <1>3, <2>4, PolicyAssumption DEF Alive, x
  <2>7. Told
    <3>1. Skipped = 0 /\ Count = 1
      BY <1>2, <2>3 DEF Skipped, Count
    <3>2. Watch[1] = Point(x)
      <4>1. Watch[1] = SideBar(side, minutes[1], spread)
        BY <3>1 DEF Watch, Sub
      <4>2. QED
        BY <1>2, <1>3, <4>1, SidePoint DEF x
    <3>3. x \in Int
      BY <1>3 DEF x
    <3>4. Outcome(Watch, 1, live.stop, Target, Entry + Arm, live)
      BY <1>3, <1>4, <2>1, <3>2, <3>3, OutcomeStarts
    <3>5. QED
      BY <2>4, <3>1, <3>4 DEF Told
  <2>8. (live.armed => live.touched) /\ (live.open => live.at = -1) /\ (~live.open => live.at \in 0..j)
    BY <1>2, <2>4
  <2>9. QED
    BY <2>2, <2>5, <2>6, <2>7, <2>8 DEF LiveInv
<1>7. QED
  BY <1>5, <1>6

LEMMA LimitInit == Init => LimitInv
<1> SUFFICES ASSUME Init, plan = "limit" PROVE LimitInv
  BY DEF LimitInv
<1>1. Types
  BY TypesInit
<1>2. PICK d \in Offsets, w \in Waits : order = Limit(d, w)
  BY DEF Init
<1>3. order.minute = 0 /\ order.quiet = TRUE /\ Entry = Price(0) - d /\ d \in Nat
  BY <1>2, PathAssumption DEF Limit, LimitPrice, Entry
<1>4. /\ minutes = <<Point(0)>> /\ j = 0 /\ flipped = FALSE /\ live = New
      /\ sims = [n \in Simulators(plan) |-> Trade(Entry - Risk)]
  BY <1>3 DEF Init, New, Resting
<1>5. /\ Price(0) \in Int /\ side \in {1, -1} /\ spread \in Nat /\ Entry \in Int
  BY <1>1, TypesFacts DEF Types
<1>6. Sub(1) = Point(Price(0))
  BY <1>4, <1>5, SidePoint DEF Sub
<1>7. \A k \in 1..Len(minutes) : Unfilled(k)
  <2>1. Len(minutes) = 1 /\ \A k \in 1..1 : k = 1
    BY <1>4
  <2>2. Sub(1).l = Price(0)
    BY <1>6 DEF Point
  <2>3. Unfilled(1)
    BY <1>3, <1>5, <2>2 DEF Unfilled
  <2>4. QED
    BY <2>1, <2>3
<1>8. sims["pess"] = Trade(Entry - Risk)
  BY <1>4 DEF Simulators
<1>9. QED
  BY <1>3, <1>4, <1>7, <1>8 DEF LimitInv, Resting

\* The order is in: later prices change what the orders did, not the fill.
LEMMA LimitMove ==
  ASSUME Types, LiveInv, LimitInv, ~Resting, NEW d \in {-1, 1}, Move(d)
  PROVE  LimitInv'
<1> SUFFICES ASSUME plan' = "limit" PROVE LimitInv'
  BY DEF LimitInv
<1> DEFINE p == Price(bid')
           m == order.minute
           S == Entry - Risk
           N == Len(minutes)
<1>1. /\ UNCHANGED <<plan, side, spread, j, flipped, sims, over>> /\ ~over /\ plan = "limit"
      /\ order'.minute = m /\ order'.price = order.price /\ m # 0 /\ m \in Nat
      /\ live' = Watched(live, p, j)
      /\ order'.quiet = (IF j = 0 /\ m = N THEN live'.open /\ ~live'.touched ELSE order.quiet)
  BY DEF Move, Types, Orders, Resting, Running
<1>2. Entry' = Entry /\ ~Resting'
  BY <1>1 DEF Entry, Resting
<1>3. p \in Int /\ (p = Price(bid) + 1 \/ p = Price(bid) - 1) /\ Price(bid) \in Int
      /\ Entry \in Int /\ Target \in Int /\ Entry + Arm \in Int /\ Entry + Arm < Target /\ S \in Int /\ j \in Nat /\ live \in Lives /\ spread \in Int
  <2>1. Price(bid) \in Int /\ Entry \in Int /\ j \in Nat /\ live \in Lives /\ spread \in Int
    BY TypesFacts DEF Types
  <2>2. Target = Entry + Runner
    BY <1>1 DEF Target, Managing
  <2>3. QED
    BY <2>1, <2>2, SubMove, PolicyAssumption
<1>4. Watches(live', live, p, Target, Entry + Arm, j)
  BY <1>1, <1>3, WatchedIs
<1>5. /\ \A k \in 1..(N - 1) : Sub(k)' = Sub(k)
      /\ Grows(Sub(N)', Sub(N), p) /\ Len(minutes') = N /\ N' = N
  BY SubMove
<1>6. N \in Nat \ {0} /\ \A k \in 1..N : Sub(k) \in MinuteBars
  BY <1>1, WatchIs
<1> HIDE DEF p, S, m, N
<1>7. /\ live'.stop = live.stop /\ live'.armed = live.armed
      /\ ~live.open => live' = live
      /\ live.open /\ (p <= live.stop \/ p >= Target) => ~live'.open /\ live'.price = p /\ live'.at = j
      /\ live.open /\ ~(p <= live.stop \/ p >= Target) => live'.open
      /\ live.open => (live'.touched <=> (live.touched \/ p >= Entry + Arm))
  BY <1>4 DEF Watches
<1>8. j = 0 => live.open \/ live.at = 0
  BY <1>1 DEF LimitInv
<1>9. j = 0 /\ live.open => live.stop = S /\ S < Price(bid) /\ Price(bid) < Target
  <2>1. j = 0 /\ live.open => Fresh
    BY <1>1 DEF Fresh
  <2>2. j = 0 /\ live.open => Placed /\ Alive(live, Price(bid))
    BY <2>1 DEF LiveInv
  <2>3. j = 0 => Managing
    BY <1>1 DEF Managing
  <2>4. QED
    BY <1>1, <2>2, <2>3 DEF Placed, Alive, S
<1>10. j = 0 => m \in 1..N
  BY <1>1, <1>6 DEF Types, m, N
<1>11. ASSUME j = 0
       PROVE  /\ sims'["pess"] = Trade(Entry - Risk)'
              /\ ~Unfilled(m)' /\ \A k \in 1..(m - 1) : Unfilled(k)'
              /\ order'.quiet => Sub(m)'.l > S
              /\ m = N => (order'.quiet <=> live'.open /\ ~live'.touched)
              /\ live'.open \/ live'.at = 0
  <2>1. /\ sims["pess"] = Trade(Entry - Risk)
        /\ ~Unfilled(m) /\ \A k \in 1..(m - 1) : Unfilled(k)
        /\ order.quiet => Sub(m).l > S
        /\ m = N => (order.quiet <=> live.open /\ ~live.touched)
    BY <1>1, <1>11 DEF LimitInv, m, N, S
  <2>2. \A k \in 1..(m - 1) : k \in 1..(N - 1)
    BY <1>6, <1>10, <1>11
  <2>3. \A k \in 1..(m - 1) : Unfilled(k)'
    <3> SUFFICES ASSUME NEW k \in 1..(m - 1) PROVE Unfilled(k)'
      OBVIOUS
    <3>1. Sub(k)' = Sub(k) /\ Unfilled(k)
      BY <1>5, <2>1, <2>2
    <3>2. QED
      BY <1>1, <1>2, <3>1 DEF Unfilled
  <2>4. CASE m = N
    <3>1. Grows(Sub(m)', Sub(m), p) /\ Sub(m) \in MinuteBars
      <4>1. Grows(SideBar(side', minutes'[N], spread'), SideBar(side, minutes[N], spread), p)
        BY <1>5, <1>6 DEF Sub
      <4>2. m' = N
        BY <1>1, <2>4 DEF m
      <4>3. Grows(SideBar(side', minutes'[m'], spread'), SideBar(side, minutes[m], spread), p)
        BY <2>4, <4>1, <4>2
      <4>4. QED
        BY <1>6, <1>10, <1>11, <4>3 DEF Sub
    <3>2. /\ Sub(m)'.l \in {Sub(m).l, p} /\ Sub(m)'.l <= Sub(m).l /\ Sub(m).l \in Int /\ Sub(m)'.l \in Int
      BY <3>1 DEF Grows, MinuteBars
    <3>3. ~Unfilled(m)'
      <4>1. ~(Sub(m).l + spread >= Entry)
        BY <2>1 DEF Unfilled
      <4>2. ~(Sub(m)'.l + spread >= Entry)
        BY <1>3, <3>2, <4>1
      <4>3. QED
        BY <1>1, <1>2, <4>2 DEF Unfilled
    <3>4. order'.quiet <=> live'.open /\ ~live'.touched
      BY <1>1, <1>11, <2>4
    <3>5. order'.quiet => Sub(m)'.l > S
      <4>1. order'.quiet => live.open /\ ~live.touched /\ p > S
        BY <1>3, <1>7, <1>9, <1>11, <3>4
      <4>2. order'.quiet => Sub(m).l > S
        BY <2>1, <2>4, <4>1
      <4>3. QED
        BY <3>2, <4>1, <4>2
    <3>6. live'.open \/ live'.at = 0
      BY <1>3, <1>7, <1>8, <1>11
    <3>7. QED
      BY <1>1, <1>2, <2>1, <2>3, <3>3, <3>4, <3>5, <3>6
  <2>5. CASE m # N
    <3>1. m \in 1..(N - 1)
      BY <1>6, <1>10, <1>11, <2>5
    <3>2. Sub(m)' = Sub(m)
      <4>1. SideBar(side', minutes'[m], spread') = SideBar(side, minutes[m], spread)
        BY <1>5, <3>1 DEF Sub
      <4>2. m' = m
        BY <1>1 DEF m
      <4>3. QED
        BY <4>1, <4>2 DEF Sub
    <3>3. order'.quiet = order.quiet
      BY <1>1, <2>5
    <3>4. ~Unfilled(m)'
      BY <1>1, <1>2, <2>1, <3>2 DEF Unfilled
    <3>5. live'.open \/ live'.at = 0
      BY <1>3, <1>7, <1>8, <1>11
    <3>6. QED
      BY <1>1, <1>2, <2>1, <2>3, <2>5, <3>2, <3>3, <3>4, <3>5
  <2>6. QED
    BY <2>4, <2>5
<1>12. ASSUME ~order'.quiet, ~live'.touched
       PROVE  /\ ~live'.open /\ live'.at = 0 /\ live'.price = S
              /\ j = 0 => Sub(m)'.l <= S
              /\ j > 0 => sims["pess"].open = FALSE /\ sims["pess"].at = 0 /\ sims["pess"].price = S
  <2>1. ~live.touched
    BY <1>7, <1>12
  <2>2. CASE ~order.quiet
    <3>1. /\ ~live.open /\ live.at = 0 /\ live.price = S
          /\ j = 0 => Sub(m).l <= S
          /\ j > 0 => sims["pess"].open = FALSE /\ sims["pess"].at = 0 /\ sims["pess"].price = S
      BY <1>1, <2>1, <2>2 DEF LimitInv, S, m
    <3>2. live' = live
      BY <1>7, <3>1
    <3>3. j = 0 => Sub(m)'.l <= S
      <4> SUFFICES ASSUME j = 0 PROVE Sub(m)'.l <= S
        OBVIOUS
      <4>1. Sub(m).l <= S /\ m' = m
        BY <1>1, <3>1 DEF m
      <4>2. CASE m = N
        <5>1. Grows(SideBar(side', minutes'[N], spread'), SideBar(side, minutes[N], spread), p)
          BY <1>5, <1>6 DEF Sub
        <5>2. Sub(m)'.l <= Sub(m).l /\ Sub(m).l \in Int /\ Sub(m)'.l \in Int
          <6>1. SideBar(side, minutes[m], spread) \in MinuteBars
            BY <1>6, <1>10 DEF Sub
          <6>2. QED
            BY <4>1, <4>2, <5>1, <6>1 DEF Sub, Grows, MinuteBars
        <5>3. QED
          BY <1>3, <4>1, <5>2
      <4>3. CASE m # N
        <5>1. m \in 1..(N - 1)
          BY <1>6, <1>10, <4>3
        <5>2. SideBar(side', minutes'[m], spread') = SideBar(side, minutes[m], spread)
          BY <1>5, <5>1 DEF Sub
        <5>3. QED
          BY <4>1, <5>2 DEF Sub
      <4>4. QED
        BY <4>2, <4>3
    <3>4. QED
      BY <3>1, <3>2, <3>3
  <2>3. CASE order.quiet
    <3>1. j = 0 /\ m = N /\ ~live'.open
      BY <1>1, <1>12, <2>3
    <3>2. live.open
      BY <1>1, <2>1, <2>3, <3>1 DEF LimitInv, m, N
    <3>3. live.stop = S /\ S < Price(bid) /\ Price(bid) < Target
      BY <1>9, <3>1, <3>2
    <3>4. ~(p >= Entry + Arm)
      BY <1>7, <1>12, <3>2
    <3>5. p = S /\ live'.price = p /\ live'.at = 0
      BY <1>3, <1>7, <3>1, <3>2, <3>3, <3>4
    <3>6. Sub(m)'.l <= p
      <4>1. Grows(SideBar(side', minutes'[N], spread'), SideBar(side, minutes[N], spread), p)
        BY <1>5, <1>6 DEF Sub
      <4>2. m' = N
        BY <1>1, <3>1 DEF m
      <4>3. QED
        BY <4>1, <4>2 DEF Sub, Grows
    <3>7. QED
      BY <1>3, <3>1, <3>5, <3>6
  <2>4. QED
    BY <2>2, <2>3
<1>13. S' = S /\ m' = m /\ Len(minutes') = N
  BY <1>1, <1>2, <1>5 DEF S, m
<1>14. j' = j /\ ~over' /\ ~Resting' /\ sims' = sims
  BY <1>1, <1>2
<1>15. QED
  BY <1>11, <1>12, <1>13, <1>14 DEF LimitInv, S, m

\* A resting order: a price through the limit fills it, at a price one unit
\* through, which is never below the stop.
LEMMA RestingMove ==
  ASSUME Types, Sensible, LiveInv, LimitInv, Resting, NEW d \in {-1, 1}, Move(d)
  PROVE  LiveInv' /\ LimitInv'
<1> DEFINE p == Price(bid')
           S == Entry - Risk
           N == Len(minutes)
<1>1. /\ UNCHANGED <<plan, side, spread, j, flipped, sims, over>> /\ ~over /\ plan = "limit" /\ order.minute = 0
      /\ j = 0 /\ live = New /\ ~flipped /\ order.quiet /\ sims["pess"] = Trade(Entry - Risk)
      /\ \A k \in 1..N : Unfilled(k)
      /\ order'.price = order.price
  <2>1. plan = "limit" /\ order.minute = 0
    BY DEF Types, Resting
  <2>2. UNCHANGED <<plan, side, spread, j, flipped, sims, over>> /\ ~over /\ order'.price = order.price
    BY DEF Move, Running, Types, Orders
  <2>3. QED
    BY <2>1, <2>2 DEF LimitInv
<1>2. Entry' = Entry /\ Target' = Target /\ (Managing' <=> Managing) /\ Managing
  BY <1>1 DEF Entry, Target, Managing
<1>3. p \in Int /\ (p = Price(bid) + 1 \/ p = Price(bid) - 1) /\ Price(bid) \in Int /\ Price(bid)' = p
      /\ Entry \in Int /\ Target \in Int /\ Entry + Arm \in Int /\ Entry + Arm < Target /\ Entry < Entry + Arm
      /\ S \in Int /\ live \in Lives /\ spread \in Nat /\ spread < Risk /\ Risk \in Nat /\ S = Entry - Risk
  <2>1. Price(bid) \in Int /\ Entry \in Int /\ live \in Lives /\ spread \in Nat /\ spread \in Spreads
    BY TypesFacts DEF Types
  <2>2. Target = Entry + Runner
    BY <1>1 DEF Target, Managing
  <2>3. spread < Risk
    BY <2>1 DEF Sensible
  <2>4. QED
    BY <2>1, <2>2, <2>3, SubMove, PolicyAssumption
<1>4. /\ \A k \in 1..(N - 1) : Sub(k)' = Sub(k)
      /\ Grows(Sub(N)', Sub(N), p) /\ Len(minutes') = N /\ N' = N
  BY SubMove
<1>5. /\ N \in Nat \ {0} /\ \A k \in 1..N : Sub(k) \in MinuteBars
      /\ Sub(N).c = Price(bid)
  <2>1. N \in Nat \ {0} /\ \A k \in 1..N : minutes[k] \in MinuteBars
    BY DEF Types
  <2>2. side \in {1, -1} /\ spread \in Int /\ minutes[N].c = bid
    BY TypesFacts DEF Types
  <2>3. \A k \in 1..N : Sub(k) \in MinuteBars
    BY <2>1, <2>2, SideOf DEF Sub
  <2>4. Sub(N).c = Price(bid)
    <3>1. minutes[N] \in MinuteBars
      BY <2>1
    <3>2. QED
      BY <2>2, <3>1, SideOf DEF Sub
  <2>5. QED
    BY <2>1, <2>3, <2>4
<1>6. Sub(N).l + spread >= Entry /\ Sub(N).l \in Int /\ Sub(N).l <= Price(bid)
  <2>1. N \in 1..N
    BY <1>5
  <2>2. QED
    BY <1>1, <1>5, <2>1 DEF Unfilled, MinuteBars
<1>7. order' = [order EXCEPT !.minute = IF p + spread < Entry THEN N ELSE 0,
                             !.quiet = IF p + spread < Entry THEN live'.open /\ ~live'.touched ELSE TRUE]
      /\ live' = (IF p + spread < Entry THEN Watched(New, p, 0) ELSE live)
  <2>1. N # 0
    BY <1>5
  <2>2. order.quiet = TRUE
    BY <1>1 DEF Types, Orders
  <2>3. /\ live' = (IF (IF p + spread < Entry THEN N ELSE 0) = 0 THEN live ELSE Watched(live, p, j))
        /\ order' = [order EXCEPT !.minute = IF p + spread < Entry THEN N ELSE 0,
                                  !.quiet = IF plan = "limit" /\ j = 0 /\ (IF p + spread < Entry THEN N ELSE 0) = N
                                            THEN live'.open /\ ~live'.touched ELSE order.quiet]
    BY <1>1 DEF Move, Resting
  <2> HIDE DEF p, N
  <2>4. CASE p + spread < Entry
    BY <1>1, <2>1, <2>2, <2>3, <2>4
  <2>5. CASE ~(p + spread < Entry)
    BY <1>1, <2>1, <2>2, <2>3, <2>5
  <2>6. QED
    BY <2>4, <2>5
<1>8. /\ New \in Lives /\ New.open = TRUE /\ New.stop = S /\ New.touched = FALSE /\ New.armed = FALSE
      /\ New.leave = FALSE /\ New.price = 0 /\ New.at = -1
  BY <1>3, NewIs
<1> HIDE DEF p, S, N
<1>9. \A k \in 1..(N - 1) : Unfilled(k)'
  <2> SUFFICES ASSUME NEW k \in 1..(N - 1) PROVE Unfilled(k)'
    OBVIOUS
  <2>1. Sub(k)' = Sub(k) /\ Unfilled(k)
    BY <1>1, <1>4, <1>5
  <2>2. QED
    BY <1>1, <1>2, <2>1 DEF Unfilled
<1>10. Sub(N)'.l \in {Sub(N).l, p} /\ Sub(N)'.l <= p /\ Sub(N)'.l \in Int
  BY <1>4 DEF Grows, MinuteBars
<1>11. CASE ~(p + spread < Entry)
  <2>1. order'.minute = 0 /\ order'.quiet /\ live' = New
    BY <1>1, <1>7, <1>11 DEF Types, Orders
  <2>2. \A k \in 1..N : Unfilled(k)'
    <3>1. Unfilled(N)'
      BY <1>1, <1>2, <1>3, <1>6, <1>10, <1>11 DEF Unfilled
    <3>2. \A k \in 1..N : k = N \/ k \in 1..(N - 1)
      BY <1>5
    <3>3. N' = N
      BY <1>4
    <3>4. ASSUME NEW k \in 1..N PROVE Unfilled(k)'
      <4>1. CASE k \in 1..(N - 1)
        BY <1>9, <4>1
      <4>2. CASE k = N
        BY <3>1, <3>3, <4>2 DEF Unfilled, Sub
      <4>3. QED
        BY <3>2, <4>1, <4>2
    <3>5. QED
      BY <3>4
  <2>3. New' = New /\ Trade(Entry - Risk)' = Trade(Entry - Risk)
    BY <1>2 DEF New, Trade
  <2>4. LimitInv'
    <3>1. Resting'
      BY <2>1 DEF Resting
    <3>2. QED
      BY <1>1, <1>4, <2>1, <2>2, <2>3, <3>1 DEF LimitInv, N
  <2>5. LiveInv'
    BY <1>8, <2>1 DEF LiveInv, Fresh, Resting
  <2>6. QED
    BY <2>4, <2>5
<1>12. CASE p + spread < Entry
  <2>1. /\ order'.minute = N /\ order'.quiet = (live'.open /\ ~live'.touched) /\ live' = Watched(New, p, 0)
    BY <1>7, <1>12 DEF Types, Orders
  <2>2. p + spread = Entry - 1 /\ p >= S /\ p < Entry
    BY <1>3, <1>6, <1>12
  <2>3. Watches(live', New, p, Target, Entry + Arm, 0)
    BY <1>3, <1>8, <2>1, WatchedIs
  <2>4. /\ live' \in Lives /\ live'.stop = S /\ live'.armed = FALSE /\ live'.leave = FALSE /\ ~live'.touched
        /\ p = S => ~live'.open /\ live'.price = S /\ live'.at = 0
        /\ p # S => live'.open /\ live'.at = -1 /\ p > S
    <3>1. /\ live' \in Lives /\ live'.stop = S /\ live'.armed = FALSE /\ live'.leave = FALSE
          /\ (p <= S \/ p >= Target) => ~live'.open /\ live'.price = p /\ live'.at = 0
          /\ ~(p <= S \/ p >= Target) => live'.open /\ live'.price = 0 /\ live'.at = -1
          /\ live'.touched <=> p >= Entry + Arm
      BY <1>8, <2>3 DEF Watches
    <3>2. ~(p >= Target) /\ ~(p >= Entry + Arm)
      BY <1>3, <2>2
    <3>3. (p <= S <=> p = S) /\ (p # S => p > S)
      BY <1>3, <2>2
    <3>4. QED
      BY <3>1, <3>2, <3>3
  <2>5. order'.quiet <=> live'.open
    BY <2>1, <2>4
  <2>6. ~Resting' /\ N' = N /\ j' = 0
    BY <1>1, <1>4, <1>5, <2>1 DEF Resting
  <2>8. LimitInv'
    <3>1. sims'["pess"] = Trade(Entry' - Risk)
      BY <1>1, <1>2
    <3>2. ~Unfilled(order.minute)'
      <4>1. ~(Sub(N)'.l + spread >= Entry)
        BY <1>3, <1>10, <1>12
      <4>2. ~(Sub(order.minute)'.l + spread' >= Entry')
        BY <1>1, <1>2, <2>1, <2>6, <4>1 DEF Sub
      <4>3. QED
        BY <4>2 DEF Unfilled
    <3>3. \A k \in 1..(order'.minute - 1) : Unfilled(k)'
      BY <1>9, <2>1
    <3>4. order'.quiet => Sub(order.minute)'.l > S
      <4>1. order'.quiet => p > S
        BY <2>4, <2>5
      <4>2. Sub(N).l > S
        BY <1>3, <1>6
      <4>3. order'.quiet => Sub(N)'.l > S
        BY <1>10, <4>1, <4>2
      <4>4. QED
        BY <2>1, <2>6, <4>3 DEF Sub
    <3>5. ~order'.quiet => ~live'.open /\ live'.at = 0 /\ live'.price = S /\ Sub(order.minute)'.l <= S
      <4>1. ~order'.quiet => ~live'.open /\ live'.at = 0 /\ live'.price = S /\ Sub(N)'.l <= S
        BY <1>10, <2>4, <2>5
      <4>2. QED
        BY <2>1, <2>6, <4>1 DEF Sub
    <3>6. S' = S
      BY <1>2 DEF S
    <3>7. (order'.quiet <=> live'.open /\ ~live'.touched) /\ (live'.open \/ live'.at = 0)
      BY <2>4, <2>5
    <3>8. ~over' /\ j' = 0 /\ ~(j' > 0 \/ over')
      BY <1>1
    <3>9. QED
      BY <2>6, <3>1, <3>2, <3>3, <3>4, <3>5, <3>6, <3>7, <3>8 DEF LimitInv, S
  <2>9. LiveInv'
    <3>1. (live'.armed => live'.touched) /\ (live'.open => live'.at = -1) /\ (~live'.open => live'.at \in 0..j')
      BY <2>4, <2>6
    <3>2. Placed'
      BY <1>1, <1>2, <2>4, <2>6 DEF Placed, S
    <3>3. Alive(live, Price(bid))'
      <4>1. Alive(live', p)
        BY <1>3, <2>2, <2>4 DEF Alive
      <4>2. QED
        BY <1>2, <1>3, <4>1 DEF Alive
    <3>4. Told'
      <4>1. Count' = 0
        BY <1>1, <1>4, <1>5, <2>1, <2>6 DEF Count, Skipped, N
      <4>2. 1..Count' = {}
        BY <4>1
      <4>3. Followed' => live'.open
        BY <1>1, <2>5 DEF Followed
      <4>4. Followed' => Outcome(Watch', Count', live'.stop, Target', Entry' + Arm, live')
        BY <2>4, <4>2, <4>3 DEF Outcome
      <4>5. QED
        BY <2>4, <4>4 DEF Told
    <3>5. QED
      BY <3>1, <3>2, <3>3, <3>4 DEF LiveInv
  <2>10. QED
    BY <2>8, <2>9
<1>13. QED
  BY <1>11, <1>12

LEMMA LimitMinute ==
  ASSUME Types, LimitInv, NextMinute
  PROVE  LimitInv'
<1> SUFFICES ASSUME plan' = "limit" PROVE LimitInv'
  BY DEF LimitInv
<1> DEFINE N == Len(minutes)
<1>1. /\ UNCHANGED <<plan, side, spread, bid, j, flipped, order, live, sims, over>> /\ ~over /\ plan = "limit"
      /\ minutes' = Append(minutes, Point(bid))
  BY DEF NextMinute, Running
<1>2. Entry' = Entry /\ (Resting' <=> Resting) /\ New' = New
  BY <1>1 DEF Entry, Resting, New
<1>3. /\ N \in Nat \ {0} /\ minutes \in Seq(MinuteBars) /\ minutes[N].c = bid /\ bid \in Int /\ side \in {1, -1}
      /\ order.minute \in Nat /\ (order.minute <= N \/ j > 0) /\ Entry \in Int /\ spread \in Int
  <2>1. spread \in Int /\ Entry \in Int /\ order.minute \in Nat
    BY TypesFacts
  <2>2. QED
    BY <1>1, <2>1 DEF Types
<1>4. Point(bid) \in MinuteBars
  BY <1>3 DEF Point, MinuteBars
<1>5. /\ Len(minutes') = N + 1 /\ minutes'[N + 1] = Point(bid)
      /\ \A k \in 1..N : minutes'[k] = minutes[k]
  BY <1>1, <1>3, <1>4
<1>6. \A k \in 1..N : Sub(k)' = Sub(k) /\ Unfilled(k)' = Unfilled(k)
  BY <1>1, <1>2, <1>5 DEF Sub, Unfilled
<1>7. ASSUME Resting PROVE \A k \in 1..(N + 1) : Unfilled(k)'
  <2>1. \A k \in 1..N : Unfilled(k)
    BY <1>1, <1>7 DEF LimitInv
  <2>2. SideBar(side', minutes'[N + 1], spread') = Point(Price(bid))
    BY <1>1, <1>3, <1>5, SidePoint
  <2>3. Sub(N) \in MinuteBars /\ Sub(N).c = Price(bid)
    <3>1. minutes[N] \in MinuteBars
      BY <1>3
    <3>2. QED
      BY <1>3, <3>1, SideOf DEF Sub
  <2>4. Sub(N).l <= Price(bid) /\ Sub(N).l \in Int /\ Price(bid) \in Int
    BY <2>3 DEF MinuteBars
  <2>5. Sub(N).l + spread >= Entry
    BY <1>3, <2>1 DEF Unfilled
  <2>6. Price(bid) + spread >= Entry
    BY <1>3, <2>4, <2>5
  <2>7. SideBar(side', minutes'[N + 1], spread').l + spread' >= Entry'
    BY <1>1, <1>2, <2>2, <2>6 DEF Point
  <2>8. \A k \in 1..(N + 1) : k = N + 1 \/ k \in 1..N
    BY <1>3
  <2>9. ASSUME NEW k \in 1..(N + 1) PROVE SideBar(side', minutes'[k], spread').l + spread' >= Entry'
    <3>1. CASE k = N + 1
      BY <2>7, <3>1
    <3>2. CASE k \in 1..N
      BY <1>1, <1>2, <1>5, <2>1, <3>2 DEF Unfilled, Sub
    <3>3. QED
      BY <2>8, <3>1, <3>2
  <2>10. QED
    BY <2>9 DEF Unfilled, Sub
<1>8. CASE Resting
  <2>1. \A k \in 1..(N + 1) : Unfilled(k)'
    BY <1>7, <1>8
  <2>2. j = 0 /\ live = New /\ ~flipped /\ order.quiet /\ sims["pess"] = Trade(Entry - Risk)
    BY <1>1, <1>8 DEF LimitInv
  <2>3. QED
    BY <1>1, <1>2, <1>5, <1>8, <2>1, <2>2 DEF LimitInv
<1>9. CASE ~Resting
  <2>1. j = 0 => order.minute \in 1..N
    BY <1>1, <1>3, <1>9 DEF Resting
  <2>2. j = 0 => Sub(order.minute)' = Sub(order.minute) /\ Unfilled(order.minute)' = Unfilled(order.minute)
    BY <1>1, <1>2, <1>5, <2>1 DEF Sub, Unfilled
  <2>3. j = 0 => \A k \in 1..(order.minute - 1) : k \in 1..N
    BY <1>3, <2>1
  <2>4. j = 0 => /\ sims'["pess"] = Trade(Entry' - Risk)
                 /\ ~Unfilled(order.minute)' /\ \A k \in 1..(order'.minute - 1) : Unfilled(k)'
                 /\ order'.quiet => Sub(order.minute)'.l > Entry' - Risk
                 /\ live'.open \/ live'.at = 0
    <3> SUFFICES ASSUME j = 0
                 PROVE  /\ sims'["pess"] = Trade(Entry' - Risk)
                        /\ ~Unfilled(order.minute)' /\ \A k \in 1..(order'.minute - 1) : Unfilled(k)'
                        /\ order'.quiet => Sub(order.minute)'.l > Entry' - Risk
                        /\ live'.open \/ live'.at = 0
      OBVIOUS
    <3>1. /\ sims["pess"] = Trade(Entry - Risk)
          /\ ~Unfilled(order.minute) /\ \A k \in 1..(order.minute - 1) : Unfilled(k)
          /\ order.quiet => Sub(order.minute).l > Entry - Risk
          /\ live.open \/ live.at = 0
      BY <1>1, <1>9 DEF LimitInv
    <3>2. \A k \in 1..(order'.minute - 1) : Unfilled(k)'
      BY <1>1, <1>6, <2>3, <3>1
    <3>3. QED
      BY <1>1, <1>2, <2>2, <3>1, <3>2
  <2>5. j = 0 => order'.minute # Len(minutes')
    BY <1>1, <1>3, <1>5, <2>1
  <2>6. ~order.quiet /\ ~live.touched =>
         /\ ~live.open /\ live.at = 0 /\ live.price = Entry - Risk
         /\ j = 0 => Sub(order.minute).l <= Entry - Risk
         /\ j > 0 => sims["pess"].open = FALSE /\ sims["pess"].at = 0 /\ sims["pess"].price = Entry - Risk
    BY <1>1, <1>9 DEF LimitInv
  <2>7. ~order'.quiet /\ ~live'.touched =>
         /\ ~live'.open /\ live'.at = 0 /\ live'.price = Entry' - Risk
         /\ j' = 0 => Sub(order.minute)'.l <= Entry' - Risk
         /\ j' > 0 => sims'["pess"].open = FALSE /\ sims'["pess"].at = 0 /\ sims'["pess"].price = Entry' - Risk
    BY <1>1, <1>2, <2>2, <2>6
  <2>8. ~Resting' /\ ~over' /\ j' = j
    BY <1>1, <1>2, <1>9
  <2>9. QED
    BY <1>1, <2>4, <2>5, <2>7, <2>8 DEF LimitInv
<1>10. QED
  BY <1>8, <1>9

-----------------------------------------------------------------------------
(* The minutes as the simulators are given them                            *)

Subs == [k \in 1..Len(minutes) |-> Sub(k)]

LEMMA SubsAre ==
  ASSUME Types
  PROVE  /\ SubBars = Subs
         /\ Len(Subs) = Len(minutes) /\ DOMAIN Subs = 1..Len(minutes) /\ Subs \in Seq(MinuteBars)
         /\ \A k \in 1..Len(minutes) : Subs[k] = Sub(k) /\ Sub(k) \in MinuteBars
         /\ Len(minutes) \in Nat \ {0} /\ Sub(Len(minutes)).c = Price(bid)
<1> DEFINE N == Len(minutes)
<1>1. N \in Nat \ {0} /\ DOMAIN minutes = 1..N /\ side \in {1, -1} /\ spread \in Int /\ \A k \in 1..N : minutes[k] \in MinuteBars
      /\ minutes[N].c = bid
  BY TypesFacts DEF Types, MinuteList
<1>2. \A k \in 1..N : Sub(k) \in MinuteBars /\ RefSideBar(side, minutes[k], spread) = Sub(k)
  BY <1>1, SideBars DEF Sub
<1>3. Sub(N).c = Price(bid)
  <2>1. minutes[N] \in MinuteBars
    BY <1>1
  <2>2. QED
    BY <1>1, <2>1, SideOf DEF Sub
<1> HIDE DEF N
<1>4. SubBars = [k \in 1..N |-> Sub(k)]
  BY <1>1, <1>2 DEF SubBars
<1>5. Subs = [k \in 1..N |-> Sub(k)]
  BY DEF Subs, N
<1> HIDE DEF Subs
<1>6. Subs \in [1..N -> MinuteBars]
  BY <1>2, <1>5
<1>7. Subs \in Seq(MinuteBars) /\ Len(Subs) = N
  BY <1>1, <1>6
<1>8. DOMAIN Subs = 1..N /\ \A k \in 1..N : Subs[k] = Sub(k)
  BY <1>5
<1>9. QED
  BY <1>1, <1>2, <1>3, <1>4, <1>5, <1>7, <1>8 DEF N

\* The first minute through the limit is the one the harness finds.
LEMMA ScanIs ==
  ASSUME NEW subs, NEW n \in Nat, DOMAIN subs = 1..n, NEW limit, NEW sp
  PROVE  /\ (\A k \in 1..n : ~(subs[k].l + sp < limit)) => ScanFill(subs, limit, sp, FALSE) = 0
         /\ \A m \in 1..n : subs[m].l + sp < limit /\ (\A k \in 1..(m - 1) : ~(subs[k].l + sp < limit)) =>
                            ScanFill(subs, limit, sp, FALSE) = m
<1> DEFINE through(k) == subs[k].l + sp < limit
           f == ScanFill(subs, limit, sp, FALSE)
<1>1. f = IF \E k \in 1..n : through(k)
          THEN CHOOSE k \in 1..n : through(k) /\ \A i \in 1..(k - 1) : ~through(i)
          ELSE 0
  BY DEF ScanFill
<1> HIDE DEF through, f
<1>2. (\A k \in 1..n : ~through(k)) => f = 0
  BY <1>1
<1>3. ASSUME NEW m \in 1..n, through(m), \A k \in 1..(m - 1) : ~through(k) PROVE f = m
  <2>1. f = CHOOSE k \in 1..n : through(k) /\ \A i \in 1..(k - 1) : ~through(i)
    BY <1>1, <1>3
  <2>2. f \in 1..n /\ through(f) /\ \A i \in 1..(f - 1) : ~through(i)
    BY <1>3, <2>1
  <2>3. ~(f < m) /\ ~(m < f)
    BY <1>3, <2>2
  <2>4. QED
    BY <2>2, <2>3
<1>4. QED
  BY <1>2, <1>3 DEF through, f

\* The trade of the bar a limit order is filled in, or not.
FirstBar == LimitBar(sims["pess"], JudgedBar, 0, FALSE)

LEMMA JudgedLimit ==
  ASSUME plan = "limit", NEW flip, NEW cand
  PROVE  /\ DOMAIN Judged(flip, cand) = Simulators(plan)
         /\ Judged(flip, cand)["pess"] = LimitBar(sims["pess"], JudgedBar, j, FALSE)
<1>1. "pess" \in Simulators(plan)
  BY DEF Simulators
<1>2. DOMAIN Judged(flip, cand) = Simulators(plan)
  BY DEF Judged
<1>3. Judged(flip, cand)["pess"] = LimitBar(sims["pess"], JudgedBar, j, FALSE)
  BY <1>1 DEF Judged, JudgedBar
<1>4. QED
  BY <1>2, <1>3

LEMMA JudgedFirst ==
  ASSUME plan = "limit", j = 0, NEW flip, NEW cand
  PROVE  Judged(flip, cand)["pess"] = FirstBar
BY JudgedLimit DEF FirstBar

\* What is left of the bar of the fill: nothing, or one bar.
Rest(f) == IF f < Len(Subs) THEN {Merged(SubSeq(Subs, f + 1, Len(Subs)))} ELSE {}

\* The first bar of a trade whose fill minute is the one the harness finds.
LEMMA FirstBarOf ==
  ASSUME Types, NEW f, f = ScanFill(Subs, Entry, spread, FALSE)
  PROVE  /\ f = 0 => FirstBar = sims["pess"]
         /\ f # 0 => FirstBar = ManageFirst(sims["pess"], Rest(f), Subs[f].l, Entry, FALSE)
<1>1. SubBars = Subs
  BY SubsAre
<1>2. FillOf(FALSE) = f
  BY <1>1 DEF FillOf
<1>3. FirstBar = CASE 0 = 0 /\ f = 0 -> sims["pess"]
                   [] 0 = 0 /\ f # 0 -> ManageFirst(sims["pess"], Rest(f), Subs[f].l, Entry, FALSE)
                   [] OTHER -> SimulateBar(sims["pess"], JudgedBar, Entry, 0, flipped, FALSE)
  BY <1>1, <1>2, Zenon DEF FirstBar, LimitBar, Rest
<1>4. QED
  BY <1>3

\* A later bar of a limit order.
LEMMA JudgedLater ==
  ASSUME plan = "limit", j > 0, j \in Nat, NEW flip, NEW cand
  PROVE  Judged(flip, cand)["pess"] = SimulateBar(sims["pess"], JudgedBar, Entry, j, flipped, FALSE)
<1>1. j # 0
  OBVIOUS
<1>2. LimitBar(sims["pess"], JudgedBar, j, FALSE) = SimulateBar(sims["pess"], JudgedBar, Entry, j, flipped, FALSE)
  BY <1>1 DEF LimitBar
<1>3. QED
  BY <1>2, JudgedLimit

\* The minute the harness finds the fill in.
LEMMA FillIs ==
  ASSUME Types, LimitInv, plan = "limit", j = 0, ~over
  PROVE  ScanFill(Subs, Entry, spread, FALSE) = order.minute
<1>1. /\ Len(minutes) \in Nat \ {0} /\ DOMAIN Subs = 1..Len(minutes) /\ \A k \in 1..Len(minutes) : Subs[k] = Sub(k) /\ Sub(k) \in MinuteBars
      /\ Entry \in Int /\ spread \in Int /\ order.minute \in Nat /\ order.minute <= Len(minutes)
  <2>1. order.minute <= Len(minutes)
    BY DEF Types
  <2>2. Entry \in Int /\ spread \in Int /\ order.minute \in Nat
    BY TypesFacts
  <2>3. Len(minutes) \in Nat \ {0} /\ DOMAIN Subs = 1..Len(minutes) /\ \A k \in 1..Len(minutes) : Subs[k] = Sub(k) /\ Sub(k) \in MinuteBars
    BY SubsAre
  <2>4. QED
    BY <2>1, <2>2, <2>3
<1>2. \A k \in 1..Len(minutes) : Unfilled(k) <=> ~(Subs[k].l + spread < Entry)
  BY <1>1 DEF Unfilled, MinuteBars
<1> DEFINE n == Len(minutes)
<1>3. n \in Nat /\ DOMAIN Subs = 1..n
  BY <1>1
<1>4. CASE Resting
  <2>1. \A k \in 1..n : ~(Subs[k].l + spread < Entry)
    BY <1>2, <1>4 DEF LimitInv
  <2> HIDE DEF n
  <2>2. QED
    BY <1>3, <1>4, <2>1, ScanIs DEF Resting
<1>5. CASE ~Resting
  <2>1. order.minute \in 1..n
    BY <1>1, <1>5 DEF Resting
  <2>2. ~Unfilled(order.minute) /\ \A k \in 1..(order.minute - 1) : Unfilled(k)
    BY <1>5 DEF LimitInv
  <2>3. Subs[order.minute].l + spread < Entry
    BY <1>2, <2>1, <2>2
  <2>4. \A k \in 1..(order.minute - 1) : ~(Subs[k].l + spread < Entry)
    BY <1>1, <1>2, <2>1, <2>2
  <2> HIDE DEF n
  <2>5. QED
    BY <1>3, <2>1, <2>3, <2>4, ScanIs
<1>6. QED
  BY <1>4, <1>5

\* The bar is over and the limit order still rests.
LEMMA RestingOn ==
  ASSUME Types, LiveInv, LimitInv, RestOn
  PROVE  LiveInv' /\ LimitInv'
<1>1. /\ Resting /\ ~over /\ sims' = Judged(FALSE, -Far) /\ minutes' = <<Point(bid)>>
      /\ UNCHANGED <<plan, side, spread, bid, j, flipped, live>> /\ plan = "limit"
  BY DEF RestOn, Running, Resting, Types
<1>2. order'.price = order.price /\ order'.minute = order.minute /\ order'.quiet = order.quiet
  BY DEF RestOn, Types, Orders
<1>3. j = 0 /\ live = New /\ ~flipped /\ order.quiet /\ (sims["pess"] = Trade(Entry - Risk))
      /\ \A k \in 1..Len(minutes) : Unfilled(k)
  BY <1>1 DEF LimitInv
<1>4. Entry' = Entry /\ Resting' /\ New' = New
  BY <1>1, <1>2 DEF Entry, Resting, New
<1>5. LiveInv'
  BY <1>1, <1>4 DEF LiveInv, Fresh
<1>6. sims'["pess"] = Trade(Entry - Risk)
  <2>1. ScanFill(Subs, Entry, spread, FALSE) = 0
    BY <1>1, <1>3, FillIs DEF Resting
  <2>2. FirstBar = sims["pess"]
    BY Zenon, <2>1, FirstBarOf
  <2>3. sims'["pess"] = FirstBar
    BY <1>1, <1>3, JudgedFirst
  <2>4. QED
    BY <1>3, <2>2, <2>3
<1>7. \A k \in 1..Len(minutes') : Unfilled(k)'
  <2>1. /\ Len(minutes) \in Nat \ {0} /\ Sub(Len(minutes)) \in MinuteBars /\ Sub(Len(minutes)).c = Price(bid)
    BY SubsAre
  <2>2. /\ spread \in Int /\ bid \in Int /\ side \in {1, -1} /\ Entry \in Int
    BY TypesFacts DEF Types
  <2>3. Unfilled(Len(minutes))
    BY <1>3, <2>1
  <2>4. Price(bid) + spread >= Entry
    BY <2>1, <2>2, <2>3 DEF Unfilled, MinuteBars
  <2>5. Len(minutes') = 1 /\ minutes'[1] = Point(bid)
    BY <1>1
  <2>6. SideBar(side', minutes'[1], spread').l = Price(bid)
    <3>1. SideBar(side', minutes'[1], spread') = Point(Price(bid))
      BY <1>1, <2>2, <2>5, SidePoint
    <3>2. Point(Price(bid)).l = Price(bid)
      BY DEF Point
    <3>3. QED
      BY <3>1, <3>2
  <2>7. Unfilled(1)'
    BY <1>1, <1>4, <2>4, <2>6 DEF Unfilled, Sub
  <2>8. \A k \in 1..Len(minutes') : k = 1
    BY <2>5
  <2>9. ASSUME NEW k \in 1..Len(minutes') PROVE Unfilled(k)'
    BY <2>7, <2>8 DEF Unfilled, Sub
  <2>10. QED
    BY <2>9
<1>8. LimitInv'
  BY <1>1, <1>2, <1>3, <1>4, <1>6, <1>7 DEF LimitInv
<1>9. QED
  BY <1>5, <1>8

\* The orders after the close of a bar: what was touched stays touched, what
\* is closed stays as it is.
LEMMA ClosingLive ==
  ASSUME Types, NEW flip, NEW trail, NEW end, NEW gap, Closing(flip, trail, end, gap)
  PROVE  (live.touched => live'.touched) /\ (~live.open => live' = live)
<1> DEFINE k == Kept(flip, trail)
<1>1. live \in Lives
  BY DEF Types
<1>2. k \in Lives
  <2>1. Entry + trail \in Int
    BY TypesFacts DEF Closing
  <2>2. Managed(flip, Entry + trail) \in Lives
    BY <2>1, ManagedType DEF Closing
  <2>3. QED
    BY <1>1, <2>2 DEF Kept
<1>3. k.touched = live.touched /\ (~live.open => k = live)
  <2>1. live.open => Decided(k, flip, Entry + trail)
    BY <1>1, ManagedIs DEF Kept
  <2>2. ~live.open => k = live
    BY DEF Kept
  <2> HIDE DEF k
  <2>3. QED
    BY <2>1, <2>2 DEF Decided
<1>4. CASE end
  <2>1. live' = k
    BY <1>4 DEF Closing, Kept
  <2>2. QED
    BY <1>3, <2>1
<1>5. CASE ~end
  <2>1. live' = Opened(k, bid + gap)
    BY <1>5 DEF Closing, Kept
  <2>2. bid + gap \in Int
    BY DEF Types, Closing
  <2>3. OpenedAs(live', k, Price(bid + gap))
    BY <1>2, <2>1, <2>2, OpenedIs
  <2> HIDE DEF k
  <2>4. (k.touched => live'.touched) /\ (~k.open => live' = k)
    BY <2>3 DEF OpenedAs, Watches
  <2>5. QED
    BY <1>3, <2>4
<1>6. QED
  BY <1>4, <1>5 DEF Closing

LEMMA LimitClose ==
  ASSUME Types, LimitInv, CloseBar
  PROVE  LimitInv'
<1> SUFFICES ASSUME plan' = "limit" PROVE LimitInv'
  BY DEF LimitInv
<1>1. PICK flip, trail, end, gap : Closing(flip, trail, end, gap)
  BY CloseFacts
<1>2. /\ plan = "limit" /\ order' = order /\ Entry' = Entry /\ ~Resting /\ ~Resting' /\ ~over
      /\ sims' = Judged(flip, Entry + trail)
  BY <1>1 DEF Closing, CloseBar, Entry, Resting, Running
<1>3. j \in Nat
  BY DEF Types
<1>4. j' > 0 \/ over'
  BY <1>1, <1>3 DEF Closing
<1>5. ~((j' = 0 /\ ~over'))
  BY <1>1, <1>3 DEF Closing
<1>6. ASSUME ~order'.quiet, ~live'.touched
      PROVE  /\ ~live'.open /\ live'.at = 0 /\ live'.price = Entry' - Risk
             /\ sims'["pess"].open = FALSE /\ sims'["pess"].at = 0 /\ sims'["pess"].price = Entry' - Risk
  <2>1. (live.touched => live'.touched) /\ (~live.open => live' = live)
    BY <1>1, ClosingLive
  <2>2. /\ ~live.open /\ live.at = 0 /\ live.price = Entry - Risk
        /\ j = 0 => Sub(order.minute).l <= Entry - Risk
        /\ j > 0 => sims["pess"].open = FALSE /\ sims["pess"].at = 0 /\ sims["pess"].price = Entry - Risk
    BY <1>2, <1>6, <2>1 DEF LimitInv
  <2>3. CASE j = 0
    <3>1. ScanFill(Subs, Entry, spread, FALSE) = order.minute /\ order.minute # 0 /\ order.minute \in Nat
      BY <1>2, <2>3, FillIs, TypesFacts DEF Resting
    <3> DEFINE rest == Rest(order.minute)
    <3>3. FirstBar = ManageFirst(sims["pess"], rest, Subs[order.minute].l, Entry, FALSE)
      BY Zenon, <3>1, FirstBarOf
    <3> HIDE DEF rest
    <3>4. sims["pess"] = Trade(Entry - Risk)
      BY <1>2, <2>3 DEF LimitInv
    <3>5. order.minute \in 1..Len(minutes)
      <4>1. order.minute <= Len(minutes)
        BY <1>2, <2>3 DEF Types
      <4>2. Len(minutes) \in Nat
        BY SubsAre
      <4>3. QED
        BY <3>1, <4>1, <4>2
    <3>6. Subs[order.minute].l <= Entry - Risk
      BY <2>2, <2>3, <3>5, SubsAre
    <3>7. ManageFirst(sims["pess"], rest, Subs[order.minute].l, Entry, FALSE) = Closed(Trade(Entry - Risk), "stop", Entry - Risk, 0)
      <4>a. Entry \in Int /\ Subs[order.minute] \in MinuteBars
        BY <3>5, SubsAre, TypesFacts
      <4>b. Subs[order.minute].l \in Int
        BY <4>a DEF MinuteBars
      <4>1. ASSUME NEW low \in Int, low <= Entry - Risk
            PROVE  ManageFirst(sims["pess"], rest, low, Entry, FALSE) = Closed(Trade(Entry - Risk), "stop", Entry - Risk, 0)
        <5>1. ~(low > Entry - Risk)
          BY <4>a, <4>1, PolicyAssumption
        <5>2. QED
          BY <3>4, <4>1, <5>1 DEF ManageFirst
      <4>2. QED
        BY <3>6, <4>b, <4>1
    <3>8. sims'["pess"] = FirstBar
      BY <1>2, <2>3, JudgedFirst
    <3>9. sims'["pess"] = Closed(Trade(Entry - Risk), "stop", Entry - Risk, 0)
      BY <3>3, <3>7, <3>8
    <3>10. sims'["pess"].open = FALSE /\ sims'["pess"].at = 0 /\ sims'["pess"].price = Entry - Risk
      BY <3>9 DEF Closed, Trade
    <3>11. QED
      BY <1>2, <2>1, <2>2, <3>10
  <2>4. CASE j > 0
    <3>1. sims'["pess"] = SimulateBar(sims["pess"], JudgedBar, Entry, j, flipped, FALSE)
      BY <1>2, <1>3, <2>4, JudgedLater
    <3>2. Stays(sims["pess"], JudgedBar, <<>>, Entry, j, flipped)
      BY <2>2, <2>4, ClosedStays
    <3>3. sims'["pess"] = sims["pess"]
      BY <3>1, <3>2 DEF Stays
    <3>4. QED
      BY <1>2, <2>1, <2>2, <2>4, <3>3
  <2>5. j = 0 \/ j > 0
    BY <1>3
  <2>6. QED
    BY Zenon, <2>3, <2>4, <2>5
<1>7. QED
  BY <1>2, <1>4, <1>5, <1>6 DEF LimitInv

-----------------------------------------------------------------------------
(* How far a trade and a bar reach                                         *)

\* The bars of a trade end at the horizon; under a trailing stop a bar is one
\* minute, no wider than the moves made in it, and too narrow to reach from the
\* stop to Far.
Bounds ==
  /\ j < Horizon /\ ticks \in Nat
  /\ plan # "limit" => Entry = Price(0) + spread
  /\ plan \in {"ratchet", "path"} =>
       Len(minutes) = 1 /\ minutes[1].h - minutes[1].l + ticks <= Ticks /\ live.stop + Ticks < Far
  /\ plan = "path" /\ Fresh /\ j = Horizon - 1 => live.leave

\* A market entry is never further from 0 than the spread.
LEMMA EntryNear ==
  ASSUME Types, Bounds, plan # "limit"
  PROVE  Entry \in Int /\ Entry <= spread /\ spread \in Nat
<1>1. spread \in Nat /\ side \in {1, -1}
  BY TypesFacts DEF Types
<1>2. Entry = Price(0) + spread
  BY DEF Bounds
<1>3. CASE side = 1
  BY <1>1, <1>2, <1>3 DEF Price
<1>4. CASE side = -1
  BY <1>1, <1>2, <1>4 DEF Price
<1>5. QED
  BY <1>1, <1>3, <1>4

LEMMA BoundsInit == Init /\ Sensible => Bounds
<1> SUFFICES ASSUME Init, Sensible PROVE Bounds
  OBVIOUS
<1>1. Types
  BY TypesInit
<1>2. /\ bid = 0 /\ minutes = <<Point(0)>> /\ j = 0 /\ ticks = Ticks
      /\ live = IF Resting THEN New ELSE Watched(New, Price(0), 0)
  BY DEF Init, New
<1>3. /\ Entry \in Int /\ Target \in Int /\ Price(0) \in Int /\ side \in {1, -1} /\ spread \in Nat /\ spread \in Spreads
  BY <1>1, TypesFacts DEF Types
<1>4. New \in Lives /\ New.stop = Entry - Risk
  BY <1>3, NewIs
<1>5. plan # "limit" => Entry = Price(0) + spread
  BY DEF Init, Market, Entry
<1>6. plan # "limit" => Entry <= spread
  BY <1>3, <1>5 DEF Price
<1>7. live.stop = Entry - Risk
  <2>1. Watches(Watched(New, Price(0), 0), New, Price(0), Target, Entry + Arm, 0)
    BY <1>3, <1>4, WatchedIs
  <2>2. Watched(New, Price(0), 0).stop = New.stop
    BY <2>1 DEF Watches
  <2>3. QED
    BY <1>2, <1>4, <2>2
<1>8. Ticks \in Nat /\ Ticks < Far /\ Risk \in Nat /\ Horizon > 1 /\ Horizon \in Nat
  BY PathAssumption, PolicyAssumption DEF Sensible
<1>9. plan # "limit" => live.stop + Ticks < Far
  <2>1. spread < Risk
    BY <1>3 DEF Sensible
  <2>2. QED
    BY <1>3, <1>6, <1>7, <1>8, <2>1 DEF Far
<1>10. Len(minutes) = 1 /\ minutes[1].h - minutes[1].l + ticks <= Ticks
  BY <1>2, <1>8 DEF Point
<1>11. j < Horizon /\ ticks \in Nat /\ j # Horizon - 1
  BY <1>2, <1>8
<1>12. QED
  BY <1>5, <1>9, <1>10, <1>11 DEF Bounds

LEMMA BoundsMove ==
  ASSUME Types, Bounds, NEW d \in {-1, 1}, Move(d)
  PROVE  Bounds'
<1>1. /\ UNCHANGED <<plan, side, spread, j, over>> /\ ticks' = ticks - 1 /\ ticks > 0 /\ ~over
      /\ order'.price = order.price
  BY DEF Move, Types, Orders, Running
<1>2. ticks' \in Nat /\ j' < Horizon
  BY <1>1 DEF Bounds
<1>3. plan # "limit" => Entry' = Price(0)' + spread'
  BY <1>1 DEF Bounds, Entry, Price
<1>4. live'.stop = live.stop /\ live'.leave = live.leave /\ (~live.open => live' = live)
  <2>1. live' = live \/ live' = Watched(live, Price(bid'), j)
    BY DEF Move
  <2>2. Watches(Watched(live, Price(bid'), j), live, Price(bid'), Target, Entry + Arm, j)
    <3>1. live \in Lives /\ j \in Int
      BY DEF Types
    <3>2. Entry \in Int /\ Target \in Int /\ Price(bid') \in Int
      BY TypesFacts, MoveFacts
    <3>3. QED
      BY <3>1, <3>2, WatchedIs
  <2>3. QED
    BY <2>1, <2>2 DEF Watches
<1>5. ASSUME plan \in {"ratchet", "path"}
      PROVE  Len(minutes') = 1 /\ minutes'[1].h - minutes'[1].l + ticks' <= Ticks
  <2>1. Len(minutes) = 1 /\ minutes[1].h - minutes[1].l + ticks <= Ticks /\ ticks \in Nat /\ Ticks \in Nat
    BY <1>5, PathAssumption DEF Bounds
  <2>2. Lengthened(bid')
    BY MoveFacts
  <2>3. Len(minutes') = 1 /\ Grows(minutes'[1], minutes[1], bid')
    BY <2>1, <2>2 DEF Lengthened
  <2>4. minutes[1] \in MinuteBars /\ minutes[1].c = bid /\ bid' = bid + d /\ bid \in Int
    BY <2>1 DEF Types, Move
  <2>5. /\ minutes[1].h \in Int /\ minutes[1].l \in Int /\ minutes[1].l <= bid /\ bid <= minutes[1].h
        /\ minutes'[1].h \in Int /\ minutes'[1].l \in Int
        /\ minutes'[1].h \in {minutes[1].h, bid'} /\ minutes'[1].l \in {minutes[1].l, bid'}
        /\ minutes'[1].h >= minutes[1].h /\ minutes'[1].h >= bid' /\ minutes'[1].l <= minutes[1].l /\ minutes'[1].l <= bid'
    BY <2>3, <2>4 DEF MinuteBars, Grows
  <2>6. minutes'[1].h - minutes'[1].l <= minutes[1].h - minutes[1].l + 1
    BY <2>4, <2>5
  <2>7. QED
    BY <1>1, <2>1, <2>3, <2>5, <2>6
<1>6. plan = "path" /\ Fresh' /\ j' = Horizon - 1 => live'.leave
  <2>1. plan = "path" => ~Resting /\ (Fresh' => Fresh)
    BY <1>1, <1>4 DEF Fresh, Types, Resting
  <2>2. QED
    BY <1>1, <1>4, <2>1 DEF Bounds
<1>7. QED
  BY <1>1, <1>2, <1>3, <1>4, <1>5, <1>6 DEF Bounds

LEMMA BoundsMinute ==
  ASSUME Types, Bounds, NextMinute
  PROVE  Bounds'
<1>1. plan' = plan /\ plan \notin {"ratchet", "path"} /\ UNCHANGED <<side, spread, bid, ticks, j, order>>
  BY DEF NextMinute
<1>2. Entry' = Entry /\ Price(0)' = Price(0)
  BY <1>1 DEF Entry, Price
<1>3. QED
  BY <1>1, <1>2 DEF Bounds

LEMMA BoundsRest ==
  ASSUME Types, Bounds, RestOn
  PROVE  Bounds'
<1>1. plan' = plan /\ plan = "limit" /\ j' = j /\ ticks' = Ticks
  BY DEF RestOn, Types, Resting
<1>2. QED
  BY <1>1, PathAssumption DEF Bounds

LEMMA BoundsClose ==
  ASSUME Types, Bounds, LiveInv, Sensible, CloseBar
  PROVE  Bounds'
<1>1. PICK flip, trail, end, gap : Closing(flip, trail, end, gap)
  BY CloseFacts
<1> DEFINE k == Kept(flip, trail)
<1>2. /\ UNCHANGED <<plan, side, spread, order>> /\ over' = end /\ (j = Horizon - 1 => end) /\ gap \in Int /\ trail \in Int
      /\ (plan \in {"ratchet", "path"} => trail \in Trails) /\ flip \in BOOLEAN /\ end \in BOOLEAN
  BY <1>1 DEF Closing
<1>3. /\ j \in Nat /\ live \in Lives /\ k \in Lives /\ Horizon \in Nat /\ Ticks \in Nat /\ bid + gap \in Int
      /\ j < Horizon /\ ticks \in Nat
  <2>1. j \in Nat /\ live \in Lives /\ bid \in Int
    BY DEF Types
  <2>2. Entry + trail \in Int
    BY <1>2, TypesFacts
  <2>3. Managed(flip, Entry + trail) \in Lives
    BY <1>2, <2>2, ManagedType
  <2>4. QED
    BY <1>2, <2>1, <2>3, PathAssumption, PolicyAssumption DEF Kept, Bounds
<1>4. Entry' = Entry /\ Price(0)' = Price(0)
  BY <1>2 DEF Entry, Price
<1>9. ~k.open => k.at \in 0..j
  BY <1>1, KeptFacts
<1>5. ASSUME plan \in {"ratchet", "path"} PROVE k.stop + Ticks < Far /\ k.stop \in Int
  <2>1. live.stop + Ticks < Far /\ live.stop \in Int
    BY <1>3, <1>5 DEF Bounds, Lives
  <2>2. Entry + trail + Ticks < Far /\ Entry + trail \in Int
    <3>1. Entry \in Int /\ Entry <= spread /\ spread \in Nat /\ spread \in Spreads
      BY <1>5, EntryNear DEF Types
    <3>2. spread + trail + Ticks < Far
      BY <1>2, <1>5, <3>1 DEF Sensible
    <3>3. QED
      BY <1>2, <1>3, <3>1, <3>2 DEF Far
  <2>3. k.stop \in {live.stop, Higher(live.stop, Entry + trail)}
    <3>1. CASE live.open
      <4>1. k = Managed(flip, Entry + trail)
        BY <3>1 DEF Kept
      <4>2. ~Managing
        BY <1>5 DEF Managing
      <4> HIDE DEF k
      <4>3. QED
        BY <1>3, <4>1, <4>2 DEF Managed, Lives
    <3>2. CASE ~live.open
      BY <3>2 DEF Kept
    <3>3. QED
      BY <3>1, <3>2
  <2> HIDE DEF k
  <2>4. QED
    BY <2>1, <2>2, <2>3 DEF Higher
<1>6. CASE end
  <2>1. live' = k /\ UNCHANGED <<ticks, minutes, j>>
    BY <1>1, <1>6 DEF Closing, Kept
  <2>2. ~Fresh'
    BY <1>2, <1>6 DEF Fresh
  <2> HIDE DEF k
  <2>3. QED
    BY <1>2, <1>3, <1>4, <1>5, <2>1, <2>2 DEF Bounds
<1>7. CASE ~end
  <2>1. live' = Opened(k, bid + gap) /\ ticks' = Ticks /\ minutes' = <<Point(bid + gap)>> /\ j' = j + 1
    BY <1>1, <1>7 DEF Closing, Kept
  <2>2. OpenedAs(live', k, Price(bid + gap))
    BY <1>3, <2>1, OpenedIs
  <2>3. Len(minutes') = 1 /\ minutes'[1].h - minutes'[1].l + ticks' <= Ticks
    BY <1>3, <2>1 DEF Point
  <2>4. j' < Horizon
    BY <1>2, <1>3, <1>7, <2>1
  <2>5. plan = "path" /\ Fresh' /\ j' = Horizon - 1 => live'.leave
    <3> SUFFICES ASSUME plan = "path", Fresh', j' = Horizon - 1 PROVE live'.leave
      OBVIOUS
    <3>1. CASE k.open
      <4>1. live.open
        BY <3>1 DEF Kept
      <4>2. Decided(k, flip, Entry + trail)
        BY <1>3, <4>1, ManagedIs DEF Kept
      <4>3. j # Horizon - 1 /\ j = Horizon - 2
        BY <1>3, <2>1
      <4> HIDE DEF k
      <4>4. k.leave
        BY <4>2, <4>3 DEF Decided
      <4>5. QED
        BY <2>2, <4>4 DEF OpenedAs
    <3>2. CASE ~k.open
      <4> HIDE DEF k
      <4>1. live' = k
        BY <2>2, <3>2 DEF OpenedAs
      <4>2. live'.at = j'
        BY <3>2, <4>1 DEF Fresh
      <4>3. live'.at \in 0..j
        BY <1>9, <3>2, <4>1
      <4>4. QED
        BY <1>3, <2>1, <4>2, <4>3
    <3>3. QED
      BY <3>1, <3>2
  <2> HIDE DEF k
  <2>6. QED
    BY <1>2, <1>3, <1>4, <1>5, <2>1, <2>2, <2>3, <2>4, <2>5 DEF Bounds, OpenedAs
<1>8. QED
  BY <1>2, <1>6, <1>7

-----------------------------------------------------------------------------
(* The simulators beside the orders                                        *)

Leaving(stop) ==
  [open |-> TRUE, armed |-> FALSE, amb |-> FALSE, residual |-> FALSE, leave |-> TRUE,
   stop |-> stop, why |-> "none", price |-> 0, at |-> -1]

\* A trade before its simulator is given the bar the orders o are in.
Carried(v, o) ==
  /\ Managing => (o.armed => v = Clean(TRUE, Entry - Risk)) /\ (~o.armed => v = Clean(FALSE, Entry - Risk))
  /\ plan = "range" => v = Clean(FALSE, Entry - Risk)
  /\ plan = "ratchet" => /\ v = Clean(FALSE, v.stop) /\ v.stop \in Int
                         /\ o.leave => v.stop >= Far
                         /\ ~o.leave => v.stop = o.stop
  /\ plan = "path" => (o.leave => v = Leaving(v.stop)) /\ (~o.leave => v = Clean(FALSE, o.stop))

\* What simulator n reports of a trade that the orders o have ended.
Reported(n, v, o) ==
  /\ v.open = FALSE /\ v.at = o.at /\ v.price \in Int /\ v.amb \in BOOLEAN
  /\ v.amb = FALSE => /\ v.price = o.price
                      /\ plan = "policy" => (o.touched => v.armed = TRUE) /\ (~o.touched => v.armed = FALSE)
  /\ n = "pess" => v.price <= o.price
  /\ n \in {"opt", "refAdm"} => v.price >= o.price

\* The orders and the simulators that were given all bars but the open one.
SimsInv ==
  ~Resting /\ Followed =>
    /\ Fresh => \A n \in Compared : Carried(sims[n], live)
    /\ ~Fresh => /\ live.open => \A n \in Compared : sims[n].open
                 /\ ~live.open => \A n \in Compared : Reported(n, sims[n], live)
                 /\ ~live.open /\ plan = "policy" => Decides(sims["refM1"], sims["pess"], sims["opt"], live)

LEMMA TradeIs == \A s : Trade(s) = Clean(FALSE, s)
BY DEF Trade, Clean

LEMMA ComparedIs == Compared \subseteq Simulators(plan)
BY DEF Compared, Simulators

LEMMA PlansDiffer ==
  /\ plan = "range" => ~Managing /\ plan # "ratchet" /\ plan # "path"
  /\ plan = "ratchet" => ~Managing /\ plan # "range" /\ plan # "path"
  /\ plan = "path" => ~Managing /\ plan # "range" /\ plan # "ratchet"
  /\ Managing => plan # "range" /\ plan # "ratchet" /\ plan # "path"
  /\ Managing <=> plan = "policy" \/ plan = "limit"
BY DEF Managing

LEMMA SimsInit == Init => SimsInv
<1> SUFFICES ASSUME Init, ~Resting PROVE SimsInv
  BY DEF SimsInv
<1>1. Types
  BY TypesInit
<1>2. /\ j = 0 /\ over = FALSE /\ live = Watched(New, Price(0), 0)
      /\ sims = [n \in Simulators(plan) |-> Trade(Entry - Risk)]
  BY DEF Init, New
<1>3. Entry \in Int /\ Target \in Int /\ Price(0) \in Int
  BY <1>1, TypesFacts
<1>4. /\ New \in Lives /\ New.open = TRUE /\ New.stop = Entry - Risk /\ New.touched = FALSE /\ New.armed = FALSE
      /\ New.leave = FALSE /\ New.price = 0 /\ New.at = -1
  BY <1>3, NewIs
<1>5. Watches(live, New, Price(0), Target, Entry + Arm, 0)
  BY <1>2, <1>3, <1>4, WatchedIs
<1>6. /\ live.stop = Entry - Risk /\ live.armed = FALSE /\ live.leave = FALSE /\ (live.open \/ live.at = 0)
      /\ Entry - Risk \in Int
  BY <1>3, <1>4, <1>5, PolicyAssumption DEF Watches
<1>7. Fresh
  BY <1>2, <1>6 DEF Fresh
<1>8. ASSUME NEW n \in Compared PROVE Carried(sims[n], live)
  <2>1. sims[n] = Clean(FALSE, Entry - Risk)
    BY <1>2, ComparedIs, TradeIs
  <2>2. Clean(FALSE, Entry - Risk).stop = Entry - Risk
    BY DEF Clean
  <2>3. QED
    BY <1>6, <2>1, <2>2 DEF Carried
<1>9. QED
  BY <1>7, <1>8 DEF SimsInv

\* A limit order in the bar it was filled in.
LEMMA SimsFill ==
  ASSUME Types', LiveInv', LimitInv', ~Resting', plan' = "limit", j' = 0, ~over'
  PROVE  SimsInv'
<1>1. Compared' = {"pess"}
  BY DEF Compared
<1>2. (sims'["pess"] = Trade(Entry' - Risk)) /\ (live'.open \/ live'.at = 0)
  BY DEF LimitInv
<1>3. Fresh'
  BY <1>2 DEF Fresh
<1>4. ~live'.armed
  BY <1>3 DEF LiveInv, Placed
<1>5. ASSUME NEW n \in Compared' PROVE Carried(sims[n], live)'
  <2>1. sims'[n] = Clean(FALSE, Entry' - Risk)
    BY <1>1, <1>2, TradeIs
  <2>2. QED
    BY <1>4, <2>1 DEF Carried
<1>6. QED
  BY <1>3, <1>5 DEF SimsInv

\* A step inside a bar leaves the simulators alone.
LEMMA SimsKept ==
  ASSUME SimsInv, UNCHANGED <<plan, j, over, sims>>, order'.price = order.price, ~Resting, ~Resting', ~over, Followed' => Followed,
         live'.stop = live.stop, live'.armed = live.armed, live'.leave = live.leave, ~live.open => live' = live,
         live.open /\ ~live'.open => live'.at = j
  PROVE  SimsInv'
<1> SUFFICES ASSUME Followed' PROVE SimsInv'
  BY DEF SimsInv
<1>1. Fresh' <=> Fresh
  BY DEF Fresh
<1>2. Entry' = Entry /\ (Managing' <=> Managing) /\ Compared' = Compared
  BY DEF Entry, Managing, Compared
<1>3. ASSUME Fresh PROVE \A n \in Compared : Carried(sims[n], live)'
  <2>1. \A n \in Compared : Carried(sims[n], live)
    BY <1>3 DEF SimsInv
  <2>2. QED
    BY <1>2, <2>1 DEF Carried
<1>4. ASSUME ~Fresh PROVE ~live.open /\ live' = live
  BY <1>4 DEF Fresh
<1>5. CASE Fresh
  BY <1>1, <1>2, <1>3, <1>5 DEF SimsInv
<1>6. CASE ~Fresh
  <2>1. /\ \A n \in Compared : Reported(n, sims[n], live)
        /\ plan = "policy" => Decides(sims["refM1"], sims["pess"], sims["opt"], live)
    BY <1>4, <1>6 DEF SimsInv
  <2>2. \A n \in Compared : Reported(n, sims[n], live)'
    BY <1>4, <1>6, <2>1 DEF Reported
  <2>3. plan' = "policy" => Decides(sims["refM1"], sims["pess"], sims["opt"], live)'
    BY <1>4, <1>6, <2>1 DEF Decides
  <2>4. ~Fresh' /\ ~live'.open
    BY <1>1, <1>4, <1>6
  <2>5. QED
    BY <1>2, <2>2, <2>3, <2>4 DEF SimsInv
<1>7. QED
  BY <1>5, <1>6

LEMMA SimsMove ==
  ASSUME Types, Types', LiveInv', LimitInv, LimitInv', SimsInv, NEW d \in {-1, 1}, Move(d)
  PROVE  SimsInv'
<1> SUFFICES ASSUME ~Resting' PROVE SimsInv'
  BY DEF SimsInv
<1>1. UNCHANGED <<plan, j, over, sims>> /\ ~over /\ order'.price = order.price
  BY DEF Move, Types, Orders, Running
<1>2. CASE plan = "limit" /\ j = 0
  BY <1>1, <1>2, SimsFill
<1>3. CASE ~(plan = "limit" /\ j = 0)
  <2>1. ~Resting
    BY <1>1, <1>3 DEF LimitInv, Types, Resting
  <2>2. order'.quiet = order.quiet
    BY <1>3, <2>1 DEF Move, Types, Orders
  <2>3. Watches(live', live, Price(bid'), Target, Entry + Arm, j)
    <3>1. live' = Watched(live, Price(bid'), j)
      BY <2>1 DEF Move, Resting
    <3>2. live \in Lives /\ j \in Int
      BY DEF Types
    <3>3. Entry \in Int /\ Target \in Int /\ Price(bid') \in Int
      BY TypesFacts, MoveFacts
    <3>4. QED
      BY <3>1, <3>2, <3>3, WatchedIs
  <2>4. /\ live'.stop = live.stop /\ live'.armed = live.armed /\ live'.leave = live.leave /\ (~live.open => live' = live)
        /\ live.open /\ ~live'.open => live'.at = j
    BY <2>3 DEF Watches
  <2>5. Followed' => Followed
    BY <1>1, <2>2 DEF Followed
  <2>6. QED
    BY <1>1, <2>1, <2>4, <2>5, SimsKept
<1>4. QED
  BY <1>2, <1>3

LEMMA SimsMinute ==
  ASSUME SimsInv, NextMinute
  PROVE  SimsInv'
<1> SUFFICES ASSUME ~Resting' PROVE SimsInv'
  BY DEF SimsInv
<1>1. UNCHANGED <<plan, j, over, sims, order, live>> /\ ~over
  BY DEF NextMinute, Running
<1>2. ~Resting /\ (Followed' => Followed)
  BY <1>1 DEF Resting, Followed
<1>3. QED
  BY <1>1, <1>2, SimsKept

-----------------------------------------------------------------------------
(* A bar is over                                                           *)

\* A bar of a managed trade, without a flip and with one.
HarnessRows(b, e, s, at, fl) ==
  /\ SimulateBar(Clean(TRUE, s), b, e, at, fl, TRUE) = AtTime(ArmedBar(Clean(TRUE, s), b, e, at, TRUE), b, at)
  /\ SimulateBar(Clean(TRUE, s), b, e, at, fl, FALSE) = AtTime(ArmedBar(Clean(TRUE, s), b, e, at, FALSE), b, at)
  /\ SimulateBar(Clean(FALSE, s), b, e, at, fl, TRUE) = AtTime(UnarmedBar(Clean(FALSE, s), b, e, at, TRUE), b, at)
  /\ SimulateBar(Clean(FALSE, s), b, e, at, fl, FALSE) = AtTime(UnarmedBar(Clean(FALSE, s), b, e, at, FALSE), b, at)
WalkRows(b, e, subs, s, at, fl) ==
  /\ RefOne(Clean(TRUE, s), b, subs, e, at, fl, "m1") =
       AtTime(Ordered(s, RefResolve(b, e, e + Runner), subs, e, e + Runner, "m1", at), b, at)
  /\ RefOne(Clean(FALSE, s), b, subs, e, at, fl, "m1") = AtTime(RefUnarmed(Clean(FALSE, s), b, subs, e, at, "m1"), b, at)

LEMMA HarnessRowsAre ==
  ASSUME NEW b, NEW e, NEW s, NEW at, NEW fl, ~(at >= 1 /\ fl)
  PROVE  HarnessRows(b, e, s, at, fl)
<1>1. Clean(TRUE, s).open /\ Clean(FALSE, s).open /\ Clean(TRUE, s).armed /\ ~Clean(FALSE, s).armed
  BY CleanOpen
<1>2. ASSUME NEW optimistic
      PROVE  SimulateBar(Clean(TRUE, s), b, e, at, fl, optimistic) = AtTime(ArmedBar(Clean(TRUE, s), b, e, at, optimistic), b, at)
  BY <1>1 DEF SimulateBar
<1>3. ASSUME NEW optimistic
      PROVE  SimulateBar(Clean(FALSE, s), b, e, at, fl, optimistic) = AtTime(UnarmedBar(Clean(FALSE, s), b, e, at, optimistic), b, at)
  BY <1>1 DEF SimulateBar
<1>4. QED
  BY <1>2, <1>3 DEF HarnessRows

LEMMA WalkRowsAre ==
  ASSUME NEW b, NEW e, NEW subs, NEW s, NEW at, NEW fl, ~(at >= 1 /\ fl)
  PROVE  WalkRows(b, e, subs, s, at, fl)
<1>1. Clean(TRUE, s).open /\ Clean(FALSE, s).open /\ Clean(TRUE, s).armed /\ ~Clean(FALSE, s).armed
  BY CleanOpen
<1>2. RefOne(Clean(TRUE, s), b, subs, e, at, fl, "m1") =
        AtTime(Ordered(s, RefResolve(b, e, e + Runner), subs, e, e + Runner, "m1", at), b, at)
  BY <1>1 DEF RefOne, Ordered
<1>3. RefOne(Clean(FALSE, s), b, subs, e, at, fl, "m1") = AtTime(RefUnarmed(Clean(FALSE, s), b, subs, e, at, "m1"), b, at)
  BY <1>1 DEF RefOne
<1>4. QED
  BY <1>2, <1>3 DEF WalkRows

Flips(v, armed, b, s, at) == v = Done(armed, FALSE, s, "flip", b.o, at)

FlipRows(b, e, subs, s, at, fl) ==
  /\ Flips(SimulateBar(Clean(TRUE, s), b, e, at, fl, TRUE), TRUE, b, s, at)
  /\ Flips(SimulateBar(Clean(TRUE, s), b, e, at, fl, FALSE), TRUE, b, s, at)
  /\ Flips(SimulateBar(Clean(FALSE, s), b, e, at, fl, TRUE), FALSE, b, s, at)
  /\ Flips(SimulateBar(Clean(FALSE, s), b, e, at, fl, FALSE), FALSE, b, s, at)
  /\ Flips(RefOne(Clean(TRUE, s), b, subs, e, at, fl, "m1"), TRUE, b, s, at)
  /\ Flips(RefOne(Clean(FALSE, s), b, subs, e, at, fl, "m1"), FALSE, b, s, at)

LEMMA FlipRowsAre ==
  ASSUME NEW b, NEW e, NEW subs, NEW s, NEW at, NEW flip, at >= 1, flip
  PROVE  FlipRows(b, e, subs, s, at, flip)
<1>1. Clean(TRUE, s).open /\ Clean(FALSE, s).open
  BY CleanOpen
<1>2. /\ Closed(Clean(TRUE, s), "flip", b.o, at) = Done(TRUE, FALSE, s, "flip", b.o, at)
      /\ Closed(Clean(FALSE, s), "flip", b.o, at) = Done(FALSE, FALSE, s, "flip", b.o, at)
  <2>1. Closed(Clean(TRUE, s), "flip", b.o, at) = Done(TRUE, FALSE, s, "flip", b.o, at)
    BY Zenon, ClosedClean
  <2>2. Closed(Clean(FALSE, s), "flip", b.o, at) = Done(FALSE, FALSE, s, "flip", b.o, at)
    BY Zenon, ClosedClean
  <2>3. QED
    BY <2>1, <2>2
<1>3. ~Done(TRUE, FALSE, s, "flip", b.o, at).open /\ ~Done(FALSE, FALSE, s, "flip", b.o, at).open
  BY DoneClosed
<1>4. /\ AtTime(Done(TRUE, FALSE, s, "flip", b.o, at), b, at) = Done(TRUE, FALSE, s, "flip", b.o, at)
      /\ AtTime(Done(FALSE, FALSE, s, "flip", b.o, at), b, at) = Done(FALSE, FALSE, s, "flip", b.o, at)
  BY <1>3 DEF AtTime, Closed
<1>5. \A optimistic : SimulateBar(Clean(TRUE, s), b, e, at, flip, optimistic) = Done(TRUE, FALSE, s, "flip", b.o, at)
  BY <1>2, <1>3, <1>4 DEF SimulateBar
<1>6. \A optimistic : SimulateBar(Clean(FALSE, s), b, e, at, flip, optimistic) = Done(FALSE, FALSE, s, "flip", b.o, at)
  BY <1>2, <1>3, <1>4 DEF SimulateBar
<1>7. RefOne(Clean(TRUE, s), b, subs, e, at, flip, "m1") = Done(TRUE, FALSE, s, "flip", b.o, at)
  BY <1>1, <1>2, <1>4 DEF RefOne
<1>8. RefOne(Clean(FALSE, s), b, subs, e, at, flip, "m1") = Done(FALSE, FALSE, s, "flip", b.o, at)
  BY <1>1, <1>2, <1>4 DEF RefOne
<1>9. QED
  BY Zenon, <1>5, <1>6, <1>7, <1>8 DEF Flips, FlipRows

\* What simulator n makes of a bar, w, when the orders after its close are k.
Right(n, w, k) == (k.open => Carried(w, k)) /\ (~k.open => Reported(n, w, k))

Sides(n, w, o) == (n = "pess" => Lower(w, o)) /\ (n \in {"opt", "refAdm"} => Upper(w, o))

\* The orders after a close that was no flip: what the simulator made of the
\* bar, w, holds after the horizon has been looked at, too.
LEMMA ManagedCloses ==
  ASSUME Managing, live \in Lives, Fresh, NEW flip, NEW trail, NEW k, k = Kept(flip, trail), Price(bid) \in Int,
         NEW w, Judges(w, live, Entry - Risk, j), NEW n, Sides(n, w, live), NEW b, b.c = Price(bid)
  PROVE  Right(n, AtTime(w, b, j), k)
<1> DEFINE s == Entry - Risk
           v == AtTime(w, b, j)
<1>1. live.open => Decided(k, flip, Entry + trail)
  BY ManagedIs DEF Kept
<1>2. ~live.open => k = live /\ live.at = j
  BY DEF Kept, Fresh
<1>3. live.touched \in BOOLEAN
  BY DEF Lives
<1> HIDE DEF s, v
<1>4. CASE ~live.open
  <2>1. w.open = FALSE
    BY <1>4 DEF Judges
  <2>2. v = w
    BY <2>1 DEF AtTime, Closed, v
  <2>3. Reported(n, w, live)
    BY <1>2, <1>4 DEF Judges, Reported, Sides, Lower, Upper
  <2>4. QED
    BY <1>2, <1>4, <2>2, <2>3 DEF Right, v
<1>5. CASE live.open /\ j # Horizon - 1
  <2>1. v = w
    BY <1>5 DEF AtTime, v
  <2>2. k.open /\ k.armed = live.touched
    BY <1>1, <1>5 DEF Decided
  <2>3. Carried(w, k)
    BY <1>5, <2>2, PlansDiffer DEF Judges, Carried
  <2>4. QED
    BY <2>1, <2>2, <2>3 DEF Right, v
<1>6. CASE live.open /\ j = Horizon - 1
  <2>1. ~k.open /\ k.price = Price(bid) /\ k.at = j /\ k.touched = live.touched
    BY <1>1, <1>6 DEF Decided
  <2>2. v = Closed(w, "time", Price(bid), j)
    BY <1>6 DEF AtTime, v
  <2>3. (live.touched => w = Clean(TRUE, s)) /\ (~live.touched => w = Clean(FALSE, s))
    BY <1>6 DEF Judges, s
  <2>4. /\ live.touched => v = Done(TRUE, FALSE, s, "time", Price(bid), j)
        /\ ~live.touched => v = Done(FALSE, FALSE, s, "time", Price(bid), j)
    <3>1. Closed(Clean(TRUE, s), "time", Price(bid), j) = Done(TRUE, FALSE, s, "time", Price(bid), j)
      BY Zenon, ClosedClean
    <3>2. Closed(Clean(FALSE, s), "time", Price(bid), j) = Done(FALSE, FALSE, s, "time", Price(bid), j)
      BY Zenon, ClosedClean
    <3>3. ASSUME live.touched PROVE v = Done(TRUE, FALSE, s, "time", Price(bid), j)
      BY <2>2, <2>3, <3>1, <3>3
    <3>4. ASSUME ~live.touched PROVE v = Done(FALSE, FALSE, s, "time", Price(bid), j)
      BY <2>2, <2>3, <3>2, <3>4
    <3>5. QED
      BY <3>3, <3>4
  <2>5. /\ v.open = FALSE /\ v.at = j /\ v.price = Price(bid) /\ v.amb = FALSE
        /\ (live.touched => v.armed = TRUE) /\ (~live.touched => v.armed = FALSE)
    BY <1>3, <2>4 DEF Done
  <2>6. Reported(n, v, k)
    <3>1. v.open = FALSE /\ v.at = k.at /\ v.price \in Int /\ v.amb \in BOOLEAN
      BY <2>1, <2>5
    <3>2. v.price = k.price /\ v.price <= k.price /\ v.price >= k.price
      BY <2>1, <2>5
    <3>3. (k.touched => v.armed = TRUE) /\ (~k.touched => v.armed = FALSE)
      BY Zenon, <2>1, <2>5
    <3>4. QED
      BY <3>1, <3>2, <3>3 DEF Reported
  <2>7. QED
    BY <2>1, <2>6 DEF Right, v
<1>7. QED
  BY <1>4, <1>5, <1>6

\* The same of the trade that walks the minutes, beside its bounds.
LEMMA WalkCloses ==
  ASSUME Managing, live \in Lives, Fresh, NEW flip, NEW trail, NEW k, k = Kept(flip, trail), Price(bid) \in Int,
         NEW v, Judges(v, live, Entry - Risk, j), NEW p, Judges(p, live, Entry - Risk, j),
         NEW q, Judges(q, live, Entry - Risk, j), Decides(v, p, q, live), NEW b, b.c = Price(bid)
  PROVE  Decides(AtTime(v, b, j), AtTime(p, b, j), AtTime(q, b, j), k)
<1> DEFINE s == Entry - Risk
           V == AtTime(v, b, j)
           P == AtTime(p, b, j)
           Q == AtTime(q, b, j)
<1>1. live.open => Decided(k, flip, Entry + trail)
  BY ManagedIs DEF Kept
<1>2. ~live.open => k = live
  BY DEF Kept
<1> HIDE DEF s, V, P, Q
<1>3. CASE ~live.open
  <2>1. V = v /\ P = p /\ Q = q
    BY <1>3 DEF AtTime, Closed, V, P, Q, Judges
  <2>2. QED
    BY <1>2, <1>3, <2>1 DEF V, P, Q
<1>4. CASE live.open /\ j # Horizon - 1
  BY <1>1, <1>4 DEF Decided, Decides
<1>5. CASE live.open /\ j = Horizon - 1
  <2>1. ~k.open /\ k.price = Price(bid) /\ k.touched = live.touched
    BY <1>1, <1>5 DEF Decided
  <2>2. V = Closed(v, "time", Price(bid), j) /\ P = Closed(p, "time", Price(bid), j) /\ Q = Closed(q, "time", Price(bid), j)
    BY <1>5 DEF AtTime, V, P, Q
  <2>3. /\ live.touched => v = Clean(TRUE, s) /\ p = Clean(TRUE, s) /\ q = Clean(TRUE, s)
        /\ ~live.touched => v = Clean(FALSE, s) /\ p = Clean(FALSE, s) /\ q = Clean(FALSE, s)
    BY <1>5 DEF Judges, s
  <2>4. \A x : /\ x = Closed(Clean(TRUE, s), "time", Price(bid), j) => x.price = Price(bid) /\ x.residual = FALSE /\ x.armed = TRUE
               /\ x = Closed(Clean(FALSE, s), "time", Price(bid), j) => x.price = Price(bid) /\ x.residual = FALSE /\ x.armed = FALSE
    <3>1. /\ Closed(Clean(TRUE, s), "time", Price(bid), j) = Done(TRUE, FALSE, s, "time", Price(bid), j)
          /\ Closed(Clean(FALSE, s), "time", Price(bid), j) = Done(FALSE, FALSE, s, "time", Price(bid), j)
      <4>1. Closed(Clean(TRUE, s), "time", Price(bid), j) = Done(TRUE, FALSE, s, "time", Price(bid), j)
        BY Zenon, ClosedClean
      <4>2. Closed(Clean(FALSE, s), "time", Price(bid), j) = Done(FALSE, FALSE, s, "time", Price(bid), j)
        BY Zenon, ClosedClean
      <4>3. QED
        BY <4>1, <4>2
    <3>2. \A x : x = Done(TRUE, FALSE, s, "time", Price(bid), j) => x.price = Price(bid) /\ x.residual = FALSE /\ x.armed = TRUE
      BY DEF Done
    <3>3. \A x : x = Done(FALSE, FALSE, s, "time", Price(bid), j) => x.price = Price(bid) /\ x.residual = FALSE /\ x.armed = FALSE
      BY DEF Done
    <3>4. QED
      BY Zenon, <3>1, <3>2, <3>3
  <2>5. /\ V.price = Price(bid) /\ P.price = Price(bid) /\ Q.price = Price(bid) /\ V.residual = FALSE
        /\ (live.touched => V.armed = TRUE) /\ (~live.touched => V.armed = FALSE)
    <3>1. CASE live.touched
      BY Zenon, <2>2, <2>3, <2>4, <3>1
    <3>2. CASE ~live.touched
      BY Zenon, <2>2, <2>3, <2>4, <3>2
    <3>3. QED
      BY Zenon, <3>1, <3>2
  <2>6. Decides(V, P, Q, k)
    BY <2>1, <2>5 DEF Decides
  <2>7. QED
    BY <2>6 DEF V, P, Q
<1>6. QED
  BY <1>3, <1>4, <1>5

\* A managed bar W[1..m] without a flip, on the way to the horizon.
Played(b, W, m) ==
  /\ Managing /\ Fresh /\ ~live.leave /\ Covers(b, W, m) /\ b.c = Price(bid)
  /\ Outcome(W, m, live.stop, Target, Entry + Arm, live)

LEMMA PlayedFacts ==
  ASSUME Types, LiveInv, NEW b, NEW W, NEW m, Played(b, W, m)
  PROVE  /\ b \in MinuteBars /\ live \in Lives /\ Entry \in Int /\ Price(bid) \in Int
         /\ live.armed => Outcome(W, m, Entry, Entry + Runner, Entry + Arm, live)
         /\ live.armed => BarOutcome(b, Entry, Entry + Runner, Entry + Arm, live)
         /\ ~live.armed => Outcome(W, m, Entry - Risk, Entry + Runner, Entry + Arm, live)
         /\ ~live.armed => BarOutcome(b, Entry - Risk, Entry + Runner, Entry + Arm, live)
<1>1. Entry \in Int /\ Price(bid) \in Int /\ live \in Lives
  BY TypesFacts DEF Types
<1>2. b \in MinuteBars /\ Covers(b, W, m)
  BY DEF Played, Covers
<1>3. Target = Entry + Runner
  BY DEF Played, Target
<1>4. live.stop = (IF live.armed THEN Entry ELSE Entry - Risk)
  BY DEF Played, LiveInv, Placed
<1>5. Outcome(W, m, live.stop, Entry + Runner, Entry + Arm, live)
  BY <1>3 DEF Played
<1>6. Entry - Risk \in Int /\ Entry + Runner \in Int /\ Entry + Arm \in Int
  BY <1>1, PolicyAssumption
<1>7. ASSUME live.armed PROVE Outcome(W, m, Entry, Entry + Runner, Entry + Arm, live)
  BY <1>4, <1>5, <1>7
<1>8. ASSUME ~live.armed PROVE Outcome(W, m, Entry - Risk, Entry + Runner, Entry + Arm, live)
  BY <1>4, <1>5, <1>8
<1>9. live.armed => BarOutcome(b, Entry, Entry + Runner, Entry + Arm, live)
  BY <1>1, <1>2, <1>6, <1>7, BarOf
<1>10. ~live.armed => BarOutcome(b, Entry - Risk, Entry + Runner, Entry + Arm, live)
  BY <1>1, <1>2, <1>6, <1>8, BarOf
<1>11. QED
  BY <1>1, <1>2, <1>7, <1>8, <1>9, <1>10

\* The harness before the horizon is looked at.
Harness(p, q, v, b, fl) ==
  /\ Judges(p, live, Entry - Risk, j) /\ Lower(p, live) /\ Judges(q, live, Entry - Risk, j) /\ Upper(q, live)
  /\ SimulateBar(v, b, Entry, j, fl, FALSE) = AtTime(p, b, j) /\ SimulateBar(v, b, Entry, j, fl, TRUE) = AtTime(q, b, j)

HarnessOf(v, b, fl) ==
  /\ live.armed => /\ v = Clean(TRUE, Entry - Risk)
                   /\ Harness(ArmedBar(v, b, Entry, j, FALSE), ArmedBar(v, b, Entry, j, TRUE), v, b, fl)
  /\ ~live.armed => /\ v = Clean(FALSE, Entry - Risk)
                    /\ Harness(UnarmedBar(v, b, Entry, j, FALSE), UnarmedBar(v, b, Entry, j, TRUE), v, b, fl)

LEMMA HarnessBar ==
  ASSUME Types, LiveInv, NEW b, NEW W, NEW m, Played(b, W, m), NEW v, Carried(v, live), NEW fl, ~(j >= 1 /\ fl)
  PROVE  HarnessOf(v, b, fl)
<1> DEFINE s == Entry - Risk
<1>1. /\ b \in MinuteBars /\ live \in Lives /\ Entry \in Int
      /\ live.armed => BarOutcome(b, Entry, Entry + Runner, Entry + Arm, live)
      /\ ~live.armed => BarOutcome(b, Entry - Risk, Entry + Runner, Entry + Arm, live)
  BY PlayedFacts
<1>2. (live.armed => v = Clean(TRUE, s)) /\ (~live.armed => v = Clean(FALSE, s))
  BY DEF Played, Carried
<1>3. ASSUME live.armed PROVE Harness(ArmedBar(v, b, Entry, j, FALSE), ArmedBar(v, b, Entry, j, TRUE), v, b, fl)
  <2> DEFINE p == ArmedBar(Clean(TRUE, s), b, Entry, j, FALSE)
             q == ArmedBar(Clean(TRUE, s), b, Entry, j, TRUE)
  <2>1. Judges(p, live, s, j) /\ Lower(p, live) /\ Judges(q, live, s, j) /\ Upper(q, live)
    BY <1>1, <1>3, ArmedJudges
  <2>2. /\ SimulateBar(Clean(TRUE, s), b, Entry, j, fl, FALSE) = AtTime(p, b, j)
        /\ SimulateBar(Clean(TRUE, s), b, Entry, j, fl, TRUE) = AtTime(q, b, j)
    <3>1. HarnessRows(b, Entry, s, j, fl)
      BY HarnessRowsAre
    <3>2. QED
      BY <3>1 DEF HarnessRows
  <2>3. v = Clean(TRUE, s)
    BY <1>2, <1>3
  <2> HIDE DEF s
  <2>4. QED
    BY <2>1, <2>2, <2>3 DEF Harness, s
<1>4. ASSUME ~live.armed PROVE Harness(UnarmedBar(v, b, Entry, j, FALSE), UnarmedBar(v, b, Entry, j, TRUE), v, b, fl)
  <2> DEFINE p == UnarmedBar(Clean(FALSE, s), b, Entry, j, FALSE)
             q == UnarmedBar(Clean(FALSE, s), b, Entry, j, TRUE)
  <2>1. Judges(p, live, s, j) /\ Lower(p, live) /\ Judges(q, live, s, j) /\ Upper(q, live)
    BY <1>1, <1>4, UnarmedJudges
  <2>2. /\ SimulateBar(Clean(FALSE, s), b, Entry, j, fl, FALSE) = AtTime(p, b, j)
        /\ SimulateBar(Clean(FALSE, s), b, Entry, j, fl, TRUE) = AtTime(q, b, j)
    <3>1. HarnessRows(b, Entry, s, j, fl)
      BY HarnessRowsAre
    <3>2. QED
      BY <3>1 DEF HarnessRows
  <2>3. v = Clean(FALSE, s)
    BY <1>2, <1>4
  <2> HIDE DEF s
  <2>4. QED
    BY <2>1, <2>2, <2>3 DEF Harness, s
<1>5. QED
  BY <1>2, <1>3, <1>4 DEF HarnessOf

LEMMA HarnessCloses ==
  ASSUME Types, LiveInv, NEW b, NEW W, NEW m, Played(b, W, m), NEW v, Carried(v, live), NEW fl, ~(j >= 1 /\ fl),
         NEW flip, NEW trail, NEW k, k = Kept(flip, trail)
  PROVE  /\ Right("pess", SimulateBar(v, b, Entry, j, fl, FALSE), k)
         /\ Right("opt", SimulateBar(v, b, Entry, j, fl, TRUE), k)
<1>1. PICK p, q : Harness(p, q, v, b, fl)
  BY HarnessBar DEF HarnessOf
<1>2. Managing /\ Fresh /\ b.c = Price(bid)
  BY DEF Played
<1>3. live \in Lives /\ Price(bid) \in Int
  BY PlayedFacts
<1>4. Judges(p, live, Entry - Risk, j) /\ Sides("pess", p, live) /\ Judges(q, live, Entry - Risk, j) /\ Sides("opt", q, live)
  BY <1>1 DEF Harness, Sides
<1>5. Right("pess", AtTime(p, b, j), k)
  BY <1>2, <1>3, <1>4, ManagedCloses
<1>6. Right("opt", AtTime(q, b, j), k)
  BY <1>2, <1>3, <1>4, ManagedCloses
<1>7. QED
  BY <1>1, <1>5, <1>6 DEF Harness

\* The walk through the minutes of the bar.
LEMMA WalkBar ==
  ASSUME Types, LiveInv, NEW b, NEW W, NEW m, Played(b, W, m), Minutely(W, m), NEW v, Carried(v, live), NEW fl, ~(j >= 1 /\ fl)
  PROVE  \E x, p, q : /\ Harness(p, q, v, b, fl) /\ Judges(x, live, Entry - Risk, j) /\ Decides(x, p, q, live)
                      /\ RefOne(v, b, W, Entry, j, fl, "m1") = AtTime(x, b, j)
<1> DEFINE s == Entry - Risk
<1>1. /\ b \in MinuteBars /\ live \in Lives /\ Entry \in Int
      /\ live.armed => Outcome(W, m, Entry, Entry + Runner, Entry + Arm, live)
      /\ ~live.armed => Outcome(W, m, Entry - Risk, Entry + Runner, Entry + Arm, live)
  BY PlayedFacts
<1>2. Covers(b, W, m)
  BY DEF Played
<1>3. CASE live.armed
  <2>1. Harness(ArmedBar(v, b, Entry, j, FALSE), ArmedBar(v, b, Entry, j, TRUE), v, b, fl) /\ v = Clean(TRUE, s)
    <3>1. HarnessOf(v, b, fl)
      BY HarnessBar
    <3>2. QED
      BY <1>3, <3>1 DEF HarnessOf
  <2> DEFINE p == ArmedBar(Clean(TRUE, s), b, Entry, j, FALSE)
             q == ArmedBar(Clean(TRUE, s), b, Entry, j, TRUE)
             x == Ordered(s, RefResolve(b, Entry, Entry + Runner), W, Entry, Entry + Runner, "m1", j)
  <2>2. Harness(p, q, v, b, fl)
    BY <2>1
  <2>3. Judges(x, live, s, j) /\ Decides(x, p, q, live)
    BY <1>1, <1>2, <1>3, ArmedWalks
  <2>4. RefOne(Clean(TRUE, s), b, W, Entry, j, fl, "m1") = AtTime(x, b, j)
    <3>1. WalkRows(b, Entry, W, s, j, fl)
      BY WalkRowsAre
    <3>2. QED
      BY <3>1 DEF WalkRows
  <2> HIDE DEF p, q, x
  <2>5. RefOne(v, b, W, Entry, j, fl, "m1") = AtTime(x, b, j)
    BY <2>1, <2>4
  <2>6. QED
    BY <2>2, <2>3, <2>5
<1>4. CASE ~live.armed
  <2>1. Harness(UnarmedBar(v, b, Entry, j, FALSE), UnarmedBar(v, b, Entry, j, TRUE), v, b, fl) /\ v = Clean(FALSE, s)
    <3>1. HarnessOf(v, b, fl)
      BY HarnessBar
    <3>2. QED
      BY <1>4, <3>1 DEF HarnessOf
  <2> DEFINE p == UnarmedBar(Clean(FALSE, s), b, Entry, j, FALSE)
             q == UnarmedBar(Clean(FALSE, s), b, Entry, j, TRUE)
             x == RefUnarmed(Clean(FALSE, s), b, W, Entry, j, "m1")
  <2>2. Harness(p, q, v, b, fl)
    BY <2>1
  <2>3. Judges(x, live, s, j) /\ Decides(x, p, q, live)
    BY <1>1, <1>2, <1>4, UnarmedWalks
  <2>4. RefOne(Clean(FALSE, s), b, W, Entry, j, fl, "m1") = AtTime(x, b, j)
    <3>1. WalkRows(b, Entry, W, s, j, fl)
      BY WalkRowsAre
    <3>2. QED
      BY <3>1 DEF WalkRows
  <2> HIDE DEF p, q, x
  <2>5. RefOne(v, b, W, Entry, j, fl, "m1") = AtTime(x, b, j)
    BY <2>1, <2>4
  <2>6. QED
    BY <2>2, <2>3, <2>5
<1>5. QED
  BY <1>3, <1>4

LEMMA WalkBarCloses ==
  ASSUME Types, LiveInv, NEW b, NEW W, NEW m, Played(b, W, m), Minutely(W, m), NEW v, Carried(v, live), NEW fl, ~(j >= 1 /\ fl),
         NEW flip, NEW trail, NEW k, k = Kept(flip, trail)
  PROVE  /\ Right("refM1", RefOne(v, b, W, Entry, j, fl, "m1"), k)
         /\ Decides(RefOne(v, b, W, Entry, j, fl, "m1"), SimulateBar(v, b, Entry, j, fl, FALSE),
                    SimulateBar(v, b, Entry, j, fl, TRUE), k)
<1>1. PICK x, p, q : /\ Harness(p, q, v, b, fl) /\ Judges(x, live, Entry - Risk, j) /\ Decides(x, p, q, live)
                     /\ RefOne(v, b, W, Entry, j, fl, "m1") = AtTime(x, b, j)
  BY WalkBar
<1>2. Managing /\ Fresh /\ b.c = Price(bid)
  BY DEF Played
<1>3. live \in Lives /\ Price(bid) \in Int
  BY PlayedFacts
<1>4. /\ Judges(p, live, Entry - Risk, j) /\ Judges(q, live, Entry - Risk, j)
      /\ SimulateBar(v, b, Entry, j, fl, FALSE) = AtTime(p, b, j) /\ SimulateBar(v, b, Entry, j, fl, TRUE) = AtTime(q, b, j)
  BY <1>1 DEF Harness
<1>5. Right("refM1", AtTime(x, b, j), k)
  <2>1. Sides("refM1", x, live)
    BY DEF Sides
  <2>2. QED
    BY <1>1, <1>2, <1>3, <2>1, ManagedCloses
<1>6. Decides(AtTime(x, b, j), AtTime(p, b, j), AtTime(q, b, j), k)
  BY <1>1, <1>2, <1>3, <1>4, WalkCloses
<1>7. QED
  BY <1>1, <1>4, <1>5, <1>6

\* The bar of the minutes, seen from the exit side.
LEMMA JudgedCovers ==
  ASSUME Types
  PROVE  Covers(JudgedBar, Subs, Len(minutes)) /\ Minutely(Subs, Len(minutes)) /\ JudgedBar.c = Price(bid) /\ JudgedBar.o = Sub(1).o
<1> DEFINE N == Len(minutes)
           m == Merged(minutes)
<1>1. /\ Len(Subs) = N /\ DOMAIN Subs = 1..N /\ N \in Nat \ {0} /\ Sub(N).c = Price(bid)
      /\ \A k \in 1..N : Subs[k] = Sub(k) /\ Sub(k) \in MinuteBars
  BY SubsAre
<1>2. side \in {1, -1} /\ spread \in Int /\ MinuteList(minutes)
  BY TypesFacts DEF Types
<1>3. Covers(m, minutes, N)
  BY <1>2, MergedCovers
<1>4. JudgedBar \in MinuteBars
  BY JudgedBarIs
<1> HIDE DEF N, m
<1>5. m \in MinuteBars /\ (\A k \in 1..N : minutes[k] \in MinuteBars /\ m.l <= minutes[k].l /\ minutes[k].h <= m.h)
      /\ m.o = minutes[1].o /\ m.c = minutes[N].c /\ (\E k \in 1..N : m.l = minutes[k].l) /\ (\E k \in 1..N : m.h = minutes[k].h)
  BY <1>3 DEF Covers
<1>6. JudgedBar = SideBar(side, m, spread)
  BY DEF JudgedBar, m
<1>7. \A k \in 1..N : Subs[k] = SideBar(side, minutes[k], spread)
  BY <1>1 DEF Sub
<1>8. /\ JudgedBar.o = Price(m.o) /\ JudgedBar.c = Price(m.c)
      /\ JudgedBar.h = (IF side > 0 THEN Price(m.h) ELSE Price(m.l)) /\ JudgedBar.l = (IF side > 0 THEN Price(m.l) ELSE Price(m.h))
  BY <1>2, <1>5, <1>6, SideOf
<1>9. \A k \in 1..N : /\ Subs[k].o = Price(minutes[k].o) /\ Subs[k].c = Price(minutes[k].c)
                      /\ Subs[k].h = (IF side > 0 THEN Price(minutes[k].h) ELSE Price(minutes[k].l))
                      /\ Subs[k].l = (IF side > 0 THEN Price(minutes[k].l) ELSE Price(minutes[k].h))
  BY <1>2, <1>5, <1>7, SideOf
<1>10. 1 \in 1..N /\ N \in 1..N
  BY <1>1
<1>11. JudgedBar.o = Subs[1].o /\ JudgedBar.c = Subs[N].c
  BY <1>5, <1>8, <1>9, <1>10
<1>12. m.l \in Int /\ m.h \in Int /\ \A k \in 1..N : minutes[k].l \in Int /\ minutes[k].h \in Int
  BY <1>5 DEF MinuteBars
<1>13. \A k \in 1..N : JudgedBar.l <= Subs[k].l /\ Subs[k].h <= JudgedBar.h
  <2> SUFFICES ASSUME NEW k \in 1..N PROVE JudgedBar.l <= Subs[k].l /\ Subs[k].h <= JudgedBar.h
    OBVIOUS
  <2>1. m.l <= minutes[k].l /\ minutes[k].h <= m.h /\ minutes[k].l \in Int /\ minutes[k].h \in Int
    BY <1>5, <1>12
  <2>2. CASE side > 0
    BY <1>2, <1>8, <1>9, <1>12, <2>1, <2>2, PriceMoves
  <2>3. CASE ~(side > 0)
    BY <1>2, <1>8, <1>9, <1>12, <2>1, <2>3, PriceMoves
  <2>4. QED
    BY <2>2, <2>3
<1>14. (\E k \in 1..N : JudgedBar.l = Subs[k].l) /\ (\E k \in 1..N : JudgedBar.h = Subs[k].h)
  <2>1. PICK i \in 1..N : m.l = minutes[i].l
    BY <1>5
  <2>2. PICK i2 \in 1..N : m.h = minutes[i2].h
    BY <1>5
  <2>3. CASE side > 0
    BY <1>8, <1>9, <2>1, <2>2, <2>3
  <2>4. CASE ~(side > 0)
    BY <1>8, <1>9, <2>1, <2>2, <2>4
  <2>5. QED
    BY <2>3, <2>4
<1>15. Covers(JudgedBar, Subs, N)
  BY <1>1, <1>4, <1>11, <1>13, <1>14 DEF Covers
<1>16. Minutely(Subs, N)
  BY <1>1 DEF Minutely
<1>17. JudgedBar.c = Price(bid) /\ JudgedBar.o = Sub(1).o
  BY <1>1, <1>10, <1>11
<1>18. QED
  BY <1>15, <1>16, <1>17 DEF N

\* After the bar of its fill, the bar of a managed trade is watched as a whole.
LEMMA JudgedPlayed ==
  ASSUME Types, LiveInv, Managing, Followed, Fresh, ~live.leave, ~(plan = "limit" /\ j = 0)
  PROVE  Played(JudgedBar, Subs, Len(minutes)) /\ ~flipped
<1>1. Placed /\ Told
  BY DEF LiveInv
<1>2. ~flipped
  BY <1>1 DEF Placed
<1>3. Outcome(Watch, Count, live.stop, Target, Entry + Arm, live)
  BY <1>1 DEF Told
<1>4. Skipped = 0 /\ Len(minutes) \in Nat
  BY SubsAre DEF Skipped
<1>5. Count = Len(minutes)
  BY <1>4 DEF Count
<1>6. Watch = Subs
  <2>1. \A k \in 1..Len(minutes) : Sub(0 + k) = Sub(k)
    <3>1. \A k \in 1..Len(minutes) : 0 + k = k
      BY <1>4
    <3>2. QED
      BY <3>1
  <2>2. QED
    BY <1>4, <1>5, <2>1 DEF Watch, Subs
<1>7. QED
  BY <1>2, <1>3, <1>5, <1>6, JudgedCovers DEF Played

\* A trade w that was closed with the orders, at the same price.
FlipEnds(n, w, k) ==
  /\ Right(n, w, k) /\ ~k.open /\ w.price = k.price /\ w.residual = FALSE
  /\ (k.touched => w.armed = TRUE) /\ (~k.touched => w.armed = FALSE)

\* The orders were closed at the open, and so was the simulated trade.
LEMMA FlipCloses ==
  ASSUME Types, LiveInv, Managing, Fresh, live.leave, NEW w, NEW s, (live.armed => Flips(w, TRUE, JudgedBar, s, j)),
         (~live.armed => Flips(w, FALSE, JudgedBar, s, j)), NEW n, NEW flip, NEW trail, NEW k, k = Kept(flip, trail)
  PROVE  FlipEnds(n, w, k)
<1>1. ~live.open /\ live.price = Sub(1).o /\ (live.touched <=> live.armed) /\ live.at = j
  BY DEF LiveInv, Told, Fresh
<1>2. k = live
  BY <1>1 DEF Kept
<1>3. JudgedBar.o = live.price /\ live.price \in Int /\ live.touched \in BOOLEAN
  BY <1>1, JudgedCovers DEF Types, Lives
<1>4. \A x, a : Flips(x, a, JudgedBar, s, j) =>
        x.open = FALSE /\ x.at = j /\ x.price = live.price /\ x.amb = FALSE /\ x.residual = FALSE /\ x.armed = a
  BY <1>3 DEF Flips, Done
<1>5. /\ w.open = FALSE /\ w.at = j /\ w.price = live.price /\ w.amb = FALSE /\ w.residual = FALSE
      /\ (live.touched => w.armed = TRUE) /\ (~live.touched => w.armed = FALSE)
  BY Zenon, <1>1, <1>4
<1>6. Reported(n, w, live)
  <2>1. w.price <= live.price /\ w.price >= live.price
    BY <1>3, <1>5
  <2>2. QED
    BY <1>1, <1>3, <1>5, <2>1 DEF Reported
<1>7. QED
  BY <1>1, <1>2, <1>5, <1>6 DEF Right, FlipEnds

LEMMA FlipDecides ==
  ASSUME NEW k, NEW v, NEW p, NEW q, v.price = k.price, p.price = k.price, q.price = k.price, k.price \in Int, v.residual = FALSE,
         (k.touched => v.armed = TRUE), (~k.touched => v.armed = FALSE)
  PROVE  Decides(v, p, q, k)
BY DEF Decides

\* A bar of the rules of the policy.
LEMMA PolicyCloses ==
  ASSUME Types, LiveInv, SimsInv, plan = "policy", Fresh, NEW flip, NEW trail, NEW k, k = Kept(flip, trail),
         NEW f2, NEW cand, NEW w, w = Judged(f2, cand)
  PROVE  /\ Right("pess", w["pess"], k) /\ Right("opt", w["opt"], k) /\ Right("refM1", w["refM1"], k)
         /\ Decides(w["refM1"], w["pess"], w["opt"], k)
<1> DEFINE W == Subs
           b == JudgedBar
           s == Entry - Risk
<1>1. Managing /\ Followed /\ ~(plan = "limit" /\ j = 0) /\ ~Resting /\ j \in Nat
  BY DEF Managing, Followed, Fresh, Types
<1>2. /\ w["pess"] = SimulateBar(sims["pess"], b, Entry, j, flipped, FALSE)
      /\ w["opt"] = SimulateBar(sims["opt"], b, Entry, j, flipped, TRUE)
      /\ w["refM1"] = RefOne(sims["refM1"], b, W, Entry, j, flipped, "m1")
  <2>1. RefSideBar(side, Merged(minutes), spread) = JudgedBar /\ W = SubBars
    BY JudgedBarIs, SubsAre
  <2> HIDE DEF W
  <2>2. QED
    BY <2>1, JudgedPolicy
<1>3. \A n \in {"pess", "opt", "refM1"} : Carried(sims[n], live)
  <2>1. {"pess", "opt", "refM1"} \subseteq Compared
    BY DEF Compared, Simulators
  <2>2. QED
    BY <1>1, <2>1 DEF SimsInv
<1>4. /\ live.armed => \A n \in {"pess", "opt", "refM1"} : sims[n] = Clean(TRUE, s)
      /\ ~live.armed => \A n \in {"pess", "opt", "refM1"} : sims[n] = Clean(FALSE, s)
  BY <1>1, <1>3 DEF Carried
<1>5. sims["pess"] = sims["opt"] /\ sims["refM1"] = sims["opt"]
  BY <1>4
<1> HIDE DEF W, s
<1>6. CASE ~live.leave
  <2>1. Played(b, W, Len(minutes)) /\ ~flipped /\ Minutely(W, Len(minutes))
    BY <1>1, <1>6, JudgedPlayed, JudgedCovers DEF W
  <2> DEFINE v == sims["opt"]
             m == Len(minutes)
  <2>2. Carried(v, live) /\ Played(b, W, m) /\ Minutely(W, m) /\ ~(j >= 1 /\ flipped)
    BY <1>3, <2>1
  <2>3. /\ w["pess"] = SimulateBar(v, b, Entry, j, flipped, FALSE)
        /\ w["opt"] = SimulateBar(v, b, Entry, j, flipped, TRUE)
        /\ w["refM1"] = RefOne(v, b, W, Entry, j, flipped, "m1")
    BY <1>2, <1>5
  <2> HIDE DEF v, m, b
  <2>4. Right("pess", SimulateBar(v, b, Entry, j, flipped, FALSE), k) /\ Right("opt", SimulateBar(v, b, Entry, j, flipped, TRUE), k)
    BY Zenon, <2>2, HarnessCloses
  <2>5. /\ Right("refM1", RefOne(v, b, W, Entry, j, flipped, "m1"), k)
        /\ Decides(RefOne(v, b, W, Entry, j, flipped, "m1"), SimulateBar(v, b, Entry, j, flipped, FALSE),
                   SimulateBar(v, b, Entry, j, flipped, TRUE), k)
    BY Zenon, <2>2, WalkBarCloses
  <2>6. QED
    BY <2>3, <2>4, <2>5
<1>7. CASE live.leave
  <2>1. flipped /\ j >= 1 /\ (live.touched <=> live.armed)
    BY <1>1, <1>7 DEF LiveInv, Placed, Told
  <2>2. FlipRows(b, Entry, W, s, j, flipped)
    BY <2>1, FlipRowsAre
  <2>3. /\ live.armed => Flips(w["pess"], TRUE, b, s, j) /\ Flips(w["opt"], TRUE, b, s, j) /\ Flips(w["refM1"], TRUE, b, s, j)
        /\ ~live.armed => Flips(w["pess"], FALSE, b, s, j) /\ Flips(w["opt"], FALSE, b, s, j) /\ Flips(w["refM1"], FALSE, b, s, j)
    <3>1. CASE live.armed
      BY <1>2, <1>4, <2>2, <3>1 DEF FlipRows
    <3>2. CASE ~live.armed
      BY <1>2, <1>4, <2>2, <3>2 DEF FlipRows
    <3>3. QED
      BY Zenon, <3>1, <3>2
  <2>4. ASSUME NEW n, NEW x, live.armed => Flips(x, TRUE, b, s, j), ~live.armed => Flips(x, FALSE, b, s, j)
        PROVE  FlipEnds(n, x, k)
    BY Zenon, <1>1, <1>7, <2>4, FlipCloses
  <2>5. Right("pess", w["pess"], k) /\ w["pess"].price = k.price
    <3>1. FlipEnds("pess", w["pess"], k)
      BY Zenon, <2>3, <2>4
    <3>2. QED
      BY <3>1 DEF FlipEnds
  <2>6. Right("opt", w["opt"], k) /\ w["opt"].price = k.price
    <3>1. FlipEnds("opt", w["opt"], k)
      BY Zenon, <2>3, <2>4
    <3>2. QED
      BY <3>1 DEF FlipEnds
  <2>7. /\ Right("refM1", w["refM1"], k) /\ ~k.open /\ w["refM1"].price = k.price /\ w["refM1"].residual = FALSE
        /\ (k.touched => w["refM1"].armed = TRUE) /\ (~k.touched => w["refM1"].armed = FALSE)
    <3>1. FlipEnds("refM1", w["refM1"], k)
      BY Zenon, <2>3, <2>4
    <3>2. QED
      BY <3>1 DEF FlipEnds
  <2>8. k.price \in Int
    <3>1. k = live
      BY <1>7 DEF Kept, LiveInv, Told
    <3>2. QED
      BY <3>1 DEF Types, Lives
  <2>9. Decides(w["refM1"], w["pess"], w["opt"], k)
    BY <2>5, <2>6, <2>7, <2>8, FlipDecides
  <2>10. QED
    BY <2>5, <2>6, <2>7, <2>9
<1>8. QED
  BY <1>6, <1>7

\* The references that agree with the harness.
LEMMA RefereesClose ==
  ASSUME NEW k, NEW p, NEW q, Right("pess", p, k), Right("opt", q, k), NEW r, Alike(r, q),
         plan = "policy", k \in Lives
  PROVE  Right("refPess", p, k) /\ Right("refAdm", r, k)
<1>1. Right("refPess", p, k)
  BY DEF Right, Reported
<1>2. CASE r = q
  BY <1>2 DEF Right, Reported
<1>3. ASSUME NEW s, NEW why, NEW price, NEW at, r = Done(FALSE, TRUE, s, why, price, at), q = Done(TRUE, TRUE, s, why, price, at)
      PROVE  Right("refAdm", r, k)
  <2>1. /\ r.open = FALSE /\ r.price = price /\ r.at = at /\ r.amb = TRUE
        /\ q.open = FALSE /\ q.price = price /\ q.at = at /\ q.amb = TRUE /\ q.armed = TRUE
    BY <1>3 DEF Done
  <2>2. ~k.open => Reported("refAdm", r, k)
    BY <2>1 DEF Right, Reported
  <2>3. ~k.open
    <3>1. ASSUME k.open PROVE FALSE
      <4>1. Managing /\ Carried(q, k)
        BY <3>1 DEF Managing, Right
      <4>2. q = Clean(TRUE, Entry - Risk) \/ q = Clean(FALSE, Entry - Risk)
        BY <4>1 DEF Carried
      <4>3. QED
        BY <2>1, <4>2, CleanOpen
    <3>2. QED
      BY <3>1
  <2>4. QED
    BY <2>2, <2>3 DEF Right
<1>4. QED
  BY <1>1, <1>2, <1>3 DEF Alike

\* A later bar of a limit order.
LEMMA LaterCloses ==
  ASSUME Types, LiveInv, SimsInv, plan = "limit", j > 0, Fresh, Followed, NEW flip, NEW trail, NEW k, k = Kept(flip, trail),
         NEW f2, NEW cand, NEW w, w = Judged(f2, cand)
  PROVE  Right("pess", w["pess"], k)
<1> DEFINE W == Subs
           b == JudgedBar
           s == Entry - Risk
<1>1. Managing /\ ~(plan = "limit" /\ j = 0) /\ ~Resting /\ j \in Nat
  BY DEF Managing, Fresh, Types
<1>2. w["pess"] = SimulateBar(sims["pess"], b, Entry, j, flipped, FALSE)
  BY Zenon, <1>1, JudgedLater
<1>3. Carried(sims["pess"], live)
  <2>1. "pess" \in Compared
    BY DEF Compared
  <2>2. QED
    BY <1>1, <2>1 DEF SimsInv
<1>4. (live.armed => sims["pess"] = Clean(TRUE, s)) /\ (~live.armed => sims["pess"] = Clean(FALSE, s))
  BY <1>1, <1>3 DEF Carried
<1> HIDE DEF W, s
<1>6. CASE ~live.leave
  <2>1. Played(b, W, Len(minutes)) /\ ~flipped
    BY <1>1, <1>6, JudgedPlayed DEF W
  <2> DEFINE v == sims["pess"]
             m == Len(minutes)
  <2>2. Carried(v, live) /\ Played(b, W, m) /\ ~(j >= 1 /\ flipped)
    BY <1>3, <2>1
  <2>3. w["pess"] = SimulateBar(v, b, Entry, j, flipped, FALSE)
    BY <1>2
  <2> HIDE DEF v, m, b
  <2>4. Right("pess", SimulateBar(v, b, Entry, j, flipped, FALSE), k)
    BY Zenon, <2>2, HarnessCloses
  <2>5. QED
    BY <2>3, <2>4
<1>7. CASE live.leave
  <2>1. flipped /\ j >= 1 /\ (live.touched <=> live.armed)
    BY <1>1, <1>7 DEF LiveInv, Placed, Told
  <2>2. FlipRows(b, Entry, W, s, j, flipped)
    BY <2>1, FlipRowsAre
  <2>3. (live.armed => Flips(w["pess"], TRUE, b, s, j)) /\ (~live.armed => Flips(w["pess"], FALSE, b, s, j))
    <3>1. CASE live.armed
      BY <1>2, <1>4, <2>2, <3>1 DEF FlipRows
    <3>2. CASE ~live.armed
      BY <1>2, <1>4, <2>2, <3>2 DEF FlipRows
    <3>3. QED
      BY Zenon, <3>1, <3>2
  <2>4. ASSUME NEW n, NEW x, live.armed => Flips(x, TRUE, b, s, j), ~live.armed => Flips(x, FALSE, b, s, j)
        PROVE  FlipEnds(n, x, k)
    BY Zenon, <1>1, <1>7, <2>4, FlipCloses
  <2>5. FlipEnds("pess", w["pess"], k)
    BY Zenon, <2>3, <2>4
  <2>6. QED
    BY <2>5 DEF FlipEnds
<1>8. QED
  BY <1>6, <1>7

\* What is left of the bar of a fill that touched no other level.
LEMMA RestPlayed ==
  ASSUME Types, LiveInv, LimitInv, plan = "limit", j = 0, Fresh, Followed, order.minute < Len(minutes), NEW b,
         b = Merged(SubSeq(Subs, order.minute + 1, Len(Subs)))
  PROVE  Played(b, Watch, Count)
<1> DEFINE f == order.minute
           n == Len(minutes)
           V == SubSeq(Subs, f + 1, Len(Subs))
<1>1. n \in Nat /\ f \in 1..n /\ f < n /\ Len(Subs) = n
  <2>1. ~Resting /\ order.minute \in Nat /\ Len(minutes) \in Nat
    BY SubsAre DEF Fresh, Types, Orders
  <2>2. QED
    BY <2>1, SubsAre DEF Resting
<1>2. Skipped = f /\ Count = n - f /\ Count \in Nat \ {0}
  <2>1. Skipped = f
    BY DEF Skipped
  <2>2. QED
    BY <1>1, <2>1 DEF Count
<1>3. Minutely(Subs, n)
  BY JudgedCovers
<1>4. Minutely(V, n - f) /\ \A i \in 1..(n - f) : V[i] = Subs[f + i]
  <2>1. ASSUME NEW W, NEW m, Minutely(W, m), NEW i \in 1..m
        PROVE  RestIs(SubSeq(W, i + 1, Len(W)), W, m, i)
    BY <2>1, RestOfMinutes
  <2>2. RestIs(SubSeq(Subs, f + 1, Len(Subs)), Subs, n, f)
    <3> HIDE DEF f, n
    <3>1. QED
      BY <1>1, <1>3, <2>1
  <2>3. QED
    BY <2>2 DEF RestIs
<1> HIDE DEF V
<1>5. \A i \in 1..Count : V[i] = Watch[i]
  <2>1. \A i \in 1..Count : Watch[i] = Sub(Skipped + i)
    BY <1>2 DEF Watch
  <2>2. \A i \in 1..(n - f) : f + i \in 1..n
    BY <1>1
  <2>3. \A i \in 1..n : Subs[i] = Sub(i)
    BY SubsAre
  <2>4. QED
    BY <1>2, <1>4, <2>1, <2>2, <2>3
<1>6. Covers(b, V, Count)
  <2>1. MinuteList(V) /\ Len(V) = Count
    BY <1>2, <1>4 DEF Minutely, MinuteList
  <2>2. Covers(Merged(V), V, Len(V))
    BY <2>1, MergedCovers
  <2>3. b = Merged(V)
    BY DEF V
  <2>4. QED
    BY <2>1, <2>2, <2>3
<1>7. Covers(b, Watch, Count)
  <2>1. 1 \in 1..Count /\ Count \in 1..Count
    BY <1>2
  <2>2. QED
    BY <1>5, <1>6, <2>1 DEF Covers
<1>8. b.c = Price(bid)
  <2>1. b.c = Watch[Count].c /\ Count \in 1..Count
    BY <1>2, <1>7 DEF Covers
  <2>2. Skipped + Count = n
    BY <1>1, <1>2
  <2>3. Watch[Count] = Sub(n)
    BY <2>1, <2>2 DEF Watch
  <2>4. QED
    BY <2>1, <2>3, SubsAre
<1>9. Placed /\ Told
  BY DEF LiveInv
<1>10. Managing /\ ~live.leave
  BY <1>9 DEF Managing, Placed
<1>11. Outcome(Watch, Count, live.stop, Target, Entry + Arm, live)
  BY <1>9, <1>10 DEF Told
<1>12. QED
  BY <1>7, <1>8, <1>10, <1>11 DEF Played

\* The bar a limit order was filled in.
LEMMA FirstCloses ==
  ASSUME Types, LiveInv, LimitInv, Sensible, plan = "limit", j = 0, Fresh, Followed, NEW flip, NEW trail, NEW k, k = Kept(flip, trail),
         NEW f2, NEW cand, NEW w, w = Judged(f2, cand)
  PROVE  Right("pess", w["pess"], k)
<1> DEFINE s == Entry - Risk
           f == order.minute
           low == Subs[f].l
           t == Clean(FALSE, s)
<1>1. Managing /\ ~Resting /\ ~over /\ order.quiet
  BY DEF Managing, Fresh, Followed
<1>2. /\ sims["pess"] = Trade(s)
      /\ Sub(f).l > s /\ (f = Len(minutes) => live.open /\ ~live.touched)
  BY <1>1 DEF LimitInv
<1>3. /\ Len(minutes) \in Nat /\ f \in 1..Len(minutes) /\ Len(Subs) = Len(minutes) /\ low = Sub(f).l /\ low \in Int /\ s \in Int
  <2>1. order.minute \in Nat /\ order.minute <= Len(minutes) /\ order.minute # 0
    BY <1>1 DEF Types, Orders, Resting
  <2>2. f \in 1..Len(minutes)
    BY <2>1, SubsAre
  <2>3. Risk \in Int /\ Entry \in Int
    BY TypesFacts, PolicyAssumption
  <2>4. Sub(f) \in MinuteBars /\ Subs[f] = Sub(f)
    BY <2>2, SubsAre
  <2>5. QED
    BY <2>2, <2>3, <2>4, SubsAre DEF MinuteBars
<1>4. sims["pess"] = t
  BY <1>2, TradeIs
<1>5. w["pess"] = ManageFirst(t, Rest(f), low, Entry, FALSE)
  <2>1. w["pess"] = FirstBar
    BY JudgedFirst
  <2>2. f = ScanFill(Subs, Entry, spread, FALSE) /\ f # 0
    <3>1. f # 0
      BY <1>1 DEF Resting
    <3>2. QED
      BY Zenon, <1>1, <3>1, FillIs
  <2>3. FirstBar = ManageFirst(sims["pess"], Rest(f), low, Entry, FALSE)
    BY Zenon, <2>2, FirstBarOf
  <2>4. QED
    BY <1>4, <2>1, <2>3
<1>6. ~(low <= s)
  BY <1>2, <1>3
<1>7. CASE f = Len(minutes)
  <2>1. Rest(f) = {}
    BY <1>3, <1>7 DEF Rest
  <2>2. w["pess"] = t
    <3> HIDE DEF t, low, s
    <3>1. ManageFirst(t, {}, low, Entry, FALSE) = t
      BY <1>6 DEF ManageFirst, s
    <3>2. QED
      BY <1>5, <2>1, <3>1
  <2>3. Judges(t, live, Entry - Risk, j)
    BY <1>2, <1>7 DEF Judges
  <2>4. Sides("pess", t, live)
    BY <1>2, <1>7 DEF Sides, Lower, Upper
  <2>5. JudgedBar.c = Price(bid) /\ Price(bid) \in Int /\ live \in Lives
    BY JudgedCovers, TypesFacts DEF Types
  <2>6. AtTime(t, JudgedBar, j) = t
    <3>1. j # Horizon - 1
      BY PolicyAssumption DEF Sensible
    <3>2. QED
      BY <3>1 DEF AtTime
  <2> HIDE DEF t
  <2>7. Right("pess", AtTime(t, JudgedBar, j), k)
    BY Zenon, <1>1, <2>3, <2>4, <2>5, ManagedCloses
  <2>8. QED
    BY <2>2, <2>6, <2>7
<1>8. CASE f < Len(minutes)
  <2> DEFINE b == Merged(SubSeq(Subs, f + 1, Len(Subs)))
  <2>1. Rest(f) = {b}
    BY <1>3, <1>8 DEF Rest
  <2>2. w["pess"] = SimulateBar(t, b, Entry, 0, FALSE, FALSE)
    <3> HIDE DEF t, low, b, s
    <3>1. (CHOOSE x \in {b} : TRUE) = b /\ {b} # {}
      OBVIOUS
    <3>2. ~(low <= Entry - Risk) /\ low > Entry - Risk
      BY <1>2, <1>3, <1>6 DEF s
    <3>3. \A R : R # {} => ManageFirst(t, R, low, Entry, FALSE) = SimulateBar(t, CHOOSE x \in R : TRUE, Entry, 0, FALSE, FALSE)
      BY Zenon, <3>2 DEF ManageFirst
    <3>4. QED
      BY <1>5, <2>1, <3>1, <3>3
  <2>3. Played(b, Watch, Count)
    BY <1>8, RestPlayed
  <2>4. Carried(t, live)
    <3>1. ~live.armed
      BY DEF LiveInv, Placed
    <3>2. QED
      BY <1>1, <3>1, PlansDiffer DEF Carried
  <2>5. ~(j >= 1 /\ FALSE)
    OBVIOUS
  <2> HIDE DEF t, b
  <2>6. Right("pess", SimulateBar(t, b, Entry, j, FALSE, FALSE), k)
    BY Zenon, <2>3, <2>4, <2>5, HarnessCloses
  <2>7. QED
    BY <2>2, <2>6
<1>9. QED
  BY <1>3, <1>7, <1>8

-----------------------------------------------------------------------------
(* The simulators of a fixed and of a trailing stop                        *)

LEMMA JudgedRange ==
  ASSUME plan = "range", NEW flip, NEW cand
  PROVE  /\ DOMAIN Judged(flip, cand) = {"pess", "opt"}
         /\ Judged(flip, cand)["pess"] = RangeBar(sims["pess"], JudgedBar, Target, j, FALSE)
         /\ Judged(flip, cand)["opt"] = RangeBar(sims["opt"], JudgedBar, Target, j, TRUE)
<1>1. Simulators(plan) = {"pess", "opt"}
  BY DEF Simulators
<1>2. DOMAIN Judged(flip, cand) = {"pess", "opt"}
  BY <1>1 DEF Judged
<1>3. Judged(flip, cand)["pess"] = RangeBar(sims["pess"], JudgedBar, Target, j, FALSE)
  BY <1>1 DEF Judged, JudgedBar
<1>4. Judged(flip, cand)["opt"] = RangeBar(sims["opt"], JudgedBar, Target, j, TRUE)
  BY <1>1 DEF Judged, JudgedBar
<1>5. QED
  BY <1>2, <1>3, <1>4

LEMMA JudgedTrailing ==
  ASSUME NEW flip, NEW cand
  PROVE  /\ plan \in {"ratchet", "path"} => DOMAIN Judged(flip, cand) = {"pess"}
         /\ plan = "ratchet" => Judged(flip, cand)["pess"] = RatchetBar(sims["pess"], JudgedBar, j, IF flip THEN Far ELSE cand)
         /\ plan = "path" => Judged(flip, cand)["pess"] = PathBar(sims["pess"], JudgedBar, j, flip, cand)
<1>1. plan \in {"ratchet", "path"} => Simulators(plan) = {"pess"}
  BY DEF Simulators
<1>2. plan \in {"ratchet", "path"} => DOMAIN Judged(flip, cand) = {"pess"}
  BY <1>1 DEF Judged
<1>3. plan = "ratchet" => Judged(flip, cand)["pess"] = RatchetBar(sims["pess"], JudgedBar, j, IF flip THEN Far ELSE cand)
  BY <1>1 DEF Judged, JudgedBar
<1>4. plan = "path" => Judged(flip, cand)["pess"] = PathBar(sims["pess"], JudgedBar, j, flip, cand)
  BY <1>1 DEF Judged, JudgedBar
<1>5. QED
  BY <1>2, <1>3, <1>4

\* Orders that were watched through the whole bar.
LEMMA JudgedEnds ==
  ASSUME Types, LiveInv, ~Managing, Fresh, ~live.leave
  PROVE  Ends(JudgedBar, live.stop, Target, live)
<1>1. plan # "limit" /\ Followed
  BY DEF Managing, Followed
<1>2. Outcome(Watch, Count, live.stop, Target, Entry + Arm, live)
  BY <1>1 DEF LiveInv, Told
<1>3. Skipped = 0 /\ Len(minutes) \in Nat
  BY <1>1, SubsAre DEF Skipped
<1>4. Count = Len(minutes)
  BY <1>3 DEF Count
<1>5. Watch = Subs
  <2>1. \A k \in 1..Len(minutes) : 0 + k = k
    BY <1>3
  <2>2. \A k \in 1..Len(minutes) : Sub(0 + k) = Sub(k)
    BY <2>1
  <2>3. QED
    BY <1>3, <1>4, <2>2 DEF Watch, Subs
<1>6. live.stop \in Int /\ Target \in Int /\ Entry + Arm \in Int /\ live \in Lives
  <2>1. live.stop \in Int /\ live \in Lives
    BY DEF Types, Lives
  <2>2. QED
    BY <2>1, TypesFacts, PolicyAssumption
<1>7. BarOutcome(JudgedBar, live.stop, Target, Entry + Arm, live)
  <2>1. Covers(JudgedBar, Subs, Len(minutes))
    BY JudgedCovers
  <2>2. QED
    BY <1>2, <1>4, <1>5, <1>6, <2>1, BarOf
<1>8. JudgedBar.l \in Int /\ JudgedBar.h \in Int
  BY JudgedBarIs DEF MinuteBars
<1>9. QED
  BY <1>6, <1>7, <1>8 DEF BarOutcome, Ends, Reaches

EndsAt(v, price, at, amb) == v.open = FALSE /\ v.price = price /\ v.at = at /\ v.amb = amb

\* A trade that is open, and what a fill makes of it.
Flagged(amb, stop) ==
  [open |-> TRUE, armed |-> FALSE, amb |-> amb, residual |-> FALSE, leave |-> FALSE,
   stop |-> stop, why |-> "none", price |-> 0, at |-> -1]

LEMMA FlaggedRows ==
  ASSUME NEW s, NEW am
  PROVE  /\ am = FALSE => [Clean(FALSE, s) EXCEPT !.amb = am] = Clean(FALSE, s)
         /\ [Clean(FALSE, s) EXCEPT !.amb = am] = Flagged(am, s)
<1>1. ASSUME NEW q, q = [Clean(FALSE, s) EXCEPT !.amb = am]
      PROVE  (am = FALSE => q = Clean(FALSE, s)) /\ q = Flagged(am, s)
  BY <1>1 DEF Clean, Flagged
<1>2. QED
  BY <1>1

LEMMA FlaggedFilled ==
  ASSUME NEW s, NEW am, NEW fill, fill.why # "none", NEW at
  PROVE  EndsAt(Filled(Flagged(am, s), fill, at), fill.price, at, am)
<1>1. ASSUME NEW q, q = Filled(Flagged(am, s), fill, at)
      PROVE  EndsAt(q, fill.price, at, am)
  BY <1>1 DEF Filled, Closed, Flagged, EndsAt
<1>2. QED
  BY <1>1

LEMMA ResolveShape ==
  ASSUME NEW b, NEW S, NEW T, NEW fill, fill = Resolve(b, S, T), fill.why = "stop", fill.amb = TRUE
  PROVE  fill = Fill("stop", fill.price, TRUE)
BY DEF Resolve, Fill, None

\* What the range simulator makes of a bar.
RangeTable(v, fill, b, T, s, at, optimistic) ==
  /\ at >= Horizon - 1 => EndsAt(v, b.o, at, FALSE)
  /\ ~(at >= Horizon - 1) =>
       /\ fill = None => v = Clean(FALSE, s)
       /\ fill.why \in {"stop", "target"} /\ fill.amb = FALSE => EndsAt(v, fill.price, at, FALSE)
       /\ fill.why = "stop" /\ fill.amb = TRUE /\ optimistic = TRUE => EndsAt(v, T, at, TRUE)
       /\ fill.why = "stop" /\ fill.amb = TRUE /\ optimistic = FALSE => EndsAt(v, fill.price, at, TRUE)

LEMMA RangeRows ==
  ASSUME NEW b, NEW T, NEW s, NEW at, NEW optimistic, NEW fill, fill = Resolve(b, s, T)
  PROVE  RangeTable(RangeBar(Clean(FALSE, s), b, T, at, optimistic), fill, b, T, s, at, optimistic)
<1> DEFINE t == Clean(FALSE, s)
           am == t.amb \/ (t.open /\ fill.amb)
           v == RangeBar(t, b, T, at, optimistic)
<1>1. t.stop = s /\ t.amb = FALSE /\ t.open = TRUE
  BY DEF Clean
<1>2. ~(at >= Horizon - 1) => v = Filled([t EXCEPT !.amb = am], Favoured(fill, T, optimistic), at)
  BY <1>1 DEF RangeBar
<1>3. at >= Horizon - 1 => v = Closed(t, "end", b.o, at)
  BY DEF RangeBar
<1>4. (fill.amb = TRUE => am = TRUE) /\ (fill.amb = FALSE => am = FALSE)
  BY <1>1
<1>5. (am = FALSE => [t EXCEPT !.amb = am] = t) /\ [t EXCEPT !.amb = am] = Flagged(am, s)
  <2> HIDE DEF am
  <2>1. QED
    BY FlaggedRows
<1>6. at >= Horizon - 1 => EndsAt(v, b.o, at, FALSE)
  <2>1. Closed(t, "end", b.o, at) = Done(FALSE, FALSE, s, "end", b.o, at)
    BY Zenon, ClosedClean
  <2>2. EndsAt(Done(FALSE, FALSE, s, "end", b.o, at), b.o, at, FALSE)
    BY DEF EndsAt, Done
  <2> HIDE DEF v, t, am
  <2>3. QED
    BY <1>3, <2>1, <2>2
<1> HIDE DEF v, t, am
<1>7. ASSUME ~(at >= Horizon - 1), fill = None PROVE v = t
  <2>1. fill.amb = FALSE
    BY <1>7 DEF None
  <2>2. Favoured(fill, T, optimistic) = None
    BY <1>7, <2>1 DEF Favoured
  <2>3. QED
    BY <1>2, <1>4, <1>5, <1>7, <2>1, <2>2, FilledNone
<1>8. ASSUME ~(at >= Horizon - 1), fill.why \in {"stop", "target"}, fill.amb = FALSE
      PROVE  EndsAt(v, fill.price, at, FALSE)
  <2>1. Favoured(fill, T, optimistic) = fill
    BY <1>8 DEF Favoured
  <2>2. v = Filled(Flagged(FALSE, s), fill, at)
    BY <1>2, <1>4, <1>5, <1>8, <2>1
  <2>3. QED
    BY <1>8, <2>2, FlaggedFilled
<1>9. ASSUME ~(at >= Horizon - 1), fill.why = "stop", fill.amb = TRUE
      PROVE  /\ optimistic = TRUE => EndsAt(v, T, at, TRUE)
             /\ optimistic = FALSE => EndsAt(v, fill.price, at, TRUE)
  <2>1. [t EXCEPT !.amb = am] = Flagged(TRUE, s)
    BY <1>4, <1>5, <1>9
  <2>2. ASSUME optimistic = FALSE PROVE EndsAt(v, fill.price, at, TRUE)
    <3>1. Favoured(fill, T, optimistic) = fill
      BY <2>2 DEF Favoured
    <3>2. v = Filled(Flagged(TRUE, s), fill, at) /\ fill.why # "none"
      BY <1>2, <1>9, <2>1, <3>1
    <3>3. QED
      BY <3>2, FlaggedFilled
  <2>3. ASSUME optimistic = TRUE PROVE EndsAt(v, T, at, TRUE)
    <3> DEFINE g == Favoured(fill, T, optimistic)
    <3>1. fill = Fill("stop", fill.price, TRUE)
      BY <1>9, ResolveShape
    <3>2. g = Fill("target", T, TRUE)
      <4>1. ASSUME NEW price, NEW q, q = Favoured(Fill("stop", price, TRUE), T, optimistic) PROVE q = Fill("target", T, TRUE)
        BY <2>3, <4>1 DEF Favoured, Fill
      <4>2. QED
        BY <3>1, <4>1
    <3>3. g.why # "none" /\ g.price = T
      BY <3>2 DEF Fill
    <3> HIDE DEF g
    <3>4. v = Filled(Flagged(TRUE, s), g, at)
      BY <1>2, <1>9, <2>1 DEF g
    <3>5. QED
      BY <3>3, <3>4, FlaggedFilled
  <2>4. QED
    BY <2>2, <2>3
<1>10. QED
  BY <1>6, <1>7, <1>8, <1>9 DEF RangeTable, v, t

\* A trade that a bar has ended, beside orders that were ended in it.
LEMMA EndReported ==
  ASSUME ~Managing, NEW n, NEW v, NEW price \in Int, NEW amb \in BOOLEAN, NEW k, EndsAt(v, price, k.at, amb),
         amb = FALSE => price = k.price, n = "pess" => price <= k.price, n = "opt" => price >= k.price, n # "refAdm"
  PROVE  Reported(n, v, k)
BY DEF EndsAt, Reported, Managing

\* A bar of a trade between a fixed stop and a fixed target.
LEMMA RangeBarCloses ==
  ASSUME Types, LiveInv, Bounds, plan = "range", Fresh, NEW flip, NEW trail, NEW k, k = Kept(flip, trail),
         NEW v, NEW optimistic \in BOOLEAN, v = RangeBar(Clean(FALSE, Entry - Risk), JudgedBar, Target, j, optimistic),
         NEW n, n = (IF optimistic THEN "opt" ELSE "pess")
  PROVE  Right(n, v, k)
<1> DEFINE b == JudgedBar
           s == Entry - Risk
           T == Target
           fill == Resolve(b, s, T)
<1>1. ~Managing /\ j \in Nat /\ j < Horizon /\ Horizon \in Nat /\ plan # "ratchet" /\ plan # "path"
  BY PolicyAssumption DEF Managing, Types, Bounds
<1>2. Placed /\ Told
  BY DEF LiveInv
<1>3. live.stop = s /\ (live.leave <=> j = Horizon - 1)
  BY <1>2 DEF Placed
<1>4. RangeTable(v, fill, b, T, s, j, optimistic)
  BY RangeRows
<1>5. /\ b \in MinuteBars /\ s \in Int /\ T \in Int /\ s <= T /\ live \in Lives /\ live.price \in Int /\ b.o = Sub(1).o
  <2>1. Entry \in Int /\ Risk \in Nat /\ Runner \in Nat
    BY TypesFacts, PolicyAssumption
  <2>2. s \in Int /\ T \in Int /\ s <= T
    BY <1>1, <2>1 DEF Target
  <2>3. QED
    BY <2>2, JudgedBarIs, JudgedCovers DEF Types, Lives
<1>6. ~live.open => k = live /\ live.at = j
  BY DEF Kept, Fresh
<1>7. ~Managing /\ n # "refAdm"
  BY <1>1
<1> HIDE DEF b, s, T, fill
<1>8. CASE live.leave
  <2>1. ~live.open /\ live.price = b.o /\ j >= Horizon - 1
    BY <1>1, <1>2, <1>3, <1>5, <1>8 DEF Told
  <2>2. EndsAt(v, live.price, live.at, FALSE)
    BY <1>4, <1>6, <2>1 DEF RangeTable
  <2>3. Reported(n, v, live)
    <3>1. live.price <= live.price /\ live.price >= live.price /\ FALSE \in BOOLEAN
      BY <1>5
    <3>2. QED
      BY <1>5, <1>7, <2>2, <3>1, EndReported
  <2>4. QED
    BY <1>6, <2>1, <2>3 DEF Right
<1>9. CASE ~live.leave
  <2>1. ~(j >= Horizon - 1)
    BY <1>1, <1>3, <1>9
  <2>2. Fits(fill, s, T, live)
    <3>1. Ends(b, s, T, live)
      BY <1>3, <1>7, <1>9, JudgedEnds DEF b, T
    <3>2. QED
      BY <1>5, <3>1, FillFits DEF fill
  <2>3. CASE live.open
    <3>1. v = Clean(FALSE, s)
      BY <1>4, <2>1, <2>2, <2>3 DEF RangeTable, Fits
    <3>2. k.open
      <4>1. Decided(k, flip, Entry + trail)
        BY <1>5, <2>3, ManagedIs DEF Kept
      <4>2. QED
        BY <1>1, <2>3, <4>1 DEF Decided
    <3>3. Carried(v, k)
      BY <1>1, <3>1 DEF Carried, s
    <3>4. QED
      BY <3>2, <3>3 DEF Right
  <2>4. CASE ~live.open
    <3>1. /\ fill.why \in {"stop", "target"} /\ fill.price \in Int /\ fill.price <= live.price
          /\ fill.amb = TRUE => fill.why = "stop" /\ fill.price = s /\ live.price <= T
          /\ fill.amb = FALSE => fill.price = live.price
          /\ fill.amb = TRUE \/ fill.amb = FALSE
      BY <2>2, <2>4 DEF Fits
    <3>2. k = live /\ live.at = j
      BY <1>6, <2>4
    <3>3. CASE fill.amb = FALSE
      <4>1. EndsAt(v, fill.price, live.at, FALSE)
        BY <1>4, <2>1, <3>1, <3>2, <3>3 DEF RangeTable
      <4>2. fill.price <= live.price /\ fill.price >= live.price /\ FALSE \in BOOLEAN
        BY <1>5, <3>1, <3>3
      <4>3. Reported(n, v, live)
        BY <1>7, <3>1, <3>3, <4>1, <4>2, EndReported
      <4>4. QED
        BY <2>4, <3>2, <4>3 DEF Right
    <3>4. CASE fill.amb = TRUE /\ optimistic = TRUE
      <4>1. EndsAt(v, T, live.at, TRUE)
        BY <1>4, <2>1, <3>1, <3>2, <3>4 DEF RangeTable
      <4>2. T >= live.price /\ n # "pess" /\ TRUE \in BOOLEAN
        BY <1>5, <3>1, <3>4
      <4>3. Reported(n, v, live)
        BY <1>5, <1>7, <4>1, <4>2, EndReported
      <4>4. QED
        BY <2>4, <3>2, <4>3 DEF Right
    <3>5. CASE fill.amb = TRUE /\ optimistic = FALSE
      <4>1. EndsAt(v, fill.price, live.at, TRUE)
        BY <1>4, <2>1, <3>1, <3>2, <3>5 DEF RangeTable
      <4>2. n # "opt" /\ TRUE \in BOOLEAN
        BY <3>5
      <4>3. Reported(n, v, live)
        BY <1>5, <1>7, <3>1, <4>1, <4>2, EndReported
      <4>4. QED
        BY <2>4, <3>2, <4>3 DEF Right
    <3>6. QED
      BY <3>1, <3>3, <3>4, <3>5
  <2>5. QED
    BY <2>3, <2>4
<1>10. QED
  BY <1>8, <1>9

LEMMA RangeCloses ==
  ASSUME Types, LiveInv, Bounds, SimsInv, plan = "range", Fresh, NEW flip, NEW trail, NEW k, k = Kept(flip, trail),
         NEW f2, NEW cand, NEW w, w = Judged(f2, cand)
  PROVE  Right("pess", w["pess"], k) /\ Right("opt", w["opt"], k)
<1>1. ~Resting /\ Followed
  BY DEF Fresh, Followed
<1>2. sims["pess"] = Clean(FALSE, Entry - Risk) /\ sims["opt"] = Clean(FALSE, Entry - Risk)
  <2>1. "pess" \in Compared /\ "opt" \in Compared
    BY DEF Compared, Simulators
  <2>2. Carried(sims["pess"], live) /\ Carried(sims["opt"], live)
    BY <1>1, <2>1 DEF SimsInv
  <2>3. QED
    BY <2>2 DEF Carried
<1>3. /\ w["pess"] = RangeBar(Clean(FALSE, Entry - Risk), JudgedBar, Target, j, FALSE)
      /\ w["opt"] = RangeBar(Clean(FALSE, Entry - Risk), JudgedBar, Target, j, TRUE)
  BY <1>2, JudgedRange
<1>4. /\ "pess" = IF FALSE THEN "opt" ELSE "pess"
      /\ "opt" = IF TRUE THEN "opt" ELSE "pess"
  OBVIOUS
<1>5. Right("pess", w["pess"], k)
  BY Zenon, <1>3, <1>4, RangeBarCloses
<1>6. Right("opt", w["opt"], k)
  BY Zenon, <1>3, <1>4, RangeBarCloses
<1>7. QED
  BY <1>5, <1>6

\* A bar of one minute, no wider than its moves, does not reach from the stop to
\* Far: the fill is the one the orders got.
LEMMA TrailingFill ==
  ASSUME Types, LiveInv, Bounds, plan \in {"ratchet", "path"}, Fresh, ~live.leave, NEW fill, fill = Resolve(JudgedBar, live.stop, Far)
  PROVE  /\ live.open => fill = None
         /\ ~live.open => fill.why # "none" /\ fill.price = live.price
<1> DEFINE b == JudgedBar
           S == live.stop
<1>1. ~Managing /\ Target = Far /\ Far \in Int
  BY DEF Managing, Target, Far
<1>2. b \in MinuteBars /\ S \in Int /\ live \in Lives /\ live.price \in Int
  BY JudgedBarIs DEF Types, Lives
<1>3. Len(minutes) = 1 /\ minutes[1].h - minutes[1].l + ticks <= Ticks /\ S + Ticks < Far /\ ticks \in Nat
  BY DEF Bounds
<1>4. minutes[1] \in MinuteBars /\ side \in {1, -1} /\ spread \in Int /\ Ticks \in Nat
  BY <1>3, TypesFacts, PathAssumption DEF MinuteList, Types
<1>5. b.h - b.l <= Ticks
  <2>1. Covers(b, Subs, 1)
    BY <1>3, JudgedCovers
  <2>2. b.l = Subs[1].l /\ b.h = Subs[1].h
    BY <2>1 DEF Covers
  <2>3. Subs[1] = SideBar(side, minutes[1], spread)
    BY <1>3, SubsAre DEF Sub
  <2>4. minutes[1].h \in Int /\ minutes[1].l \in Int
    BY <1>4 DEF MinuteBars
  <2>5. /\ side > 0 => b.h = minutes[1].h /\ b.l = minutes[1].l
        /\ ~(side > 0) => b.h = -(minutes[1].l + spread) /\ b.l = -(minutes[1].h + spread)
    BY <2>2, <2>3 DEF SideBar
  <2>6. b.h \in Int /\ b.l \in Int
    BY <1>2 DEF MinuteBars
  <2>7. QED
    BY <1>3, <1>4, <2>4, <2>5, <2>6
<1>6. Ends(b, S, Far, live)
  BY <1>1, JudgedEnds
<1>7. S <= Far
  BY <1>1, <1>2, <1>3, <1>4
<1>8. Fits(fill, S, Far, live)
  <2> HIDE DEF b, S
  <2>1. fill = Resolve(b, S, Far)
    BY DEF b, S
  <2>2. QED
    BY <1>1, <1>2, <1>6, <1>7, <2>1, FillFits
<1>9. ~(b.l <= S /\ b.h >= Far)
  <2>1. b.h \in Int /\ b.l \in Int
    BY <1>2 DEF MinuteBars
  <2>2. QED
    BY <1>1, <1>2, <1>3, <1>4, <1>5, <2>1
<1>10. fill.amb # TRUE
  <2> HIDE DEF b, S
  <2>0. fill = Resolve(b, S, Far)
    BY DEF b, S
  <2>1. \/ fill = Fill("stop", b.o, FALSE) \/ fill = Fill("target", b.o, FALSE)
        \/ fill = Fill("stop", S, FALSE) \/ fill = Fill("target", Far, FALSE) \/ fill = None
    <3>1. b.o \in Int /\ b.h \in Int /\ b.l \in Int
      BY <1>2 DEF MinuteBars
    <3>2. /\ b.o <= S => Resolve(b, S, Far) = Fill("stop", b.o, FALSE)
          /\ b.o > S /\ b.o >= Far => Resolve(b, S, Far) = Fill("target", b.o, FALSE)
          /\ S < b.o /\ b.o < Far /\ b.l <= S /\ b.h < Far => Resolve(b, S, Far) = Fill("stop", S, FALSE)
          /\ S < b.o /\ b.o < Far /\ b.l > S /\ b.h >= Far => Resolve(b, S, Far) = Fill("target", Far, FALSE)
          /\ S < b.o /\ b.o < Far /\ b.l > S /\ b.h < Far => Resolve(b, S, Far) = None
      <4>1. ResolvedAs(Resolve(b, S, Far), b, S, Far)
        BY <1>1, <1>2, ResolveCases
      <4>2. QED
        BY <4>1 DEF ResolvedAs
    <3>3. \/ b.o <= S \/ (b.o > S /\ b.o >= Far) \/ (S < b.o /\ b.o < Far /\ b.l <= S /\ b.h < Far)
          \/ (S < b.o /\ b.o < Far /\ b.l > S /\ b.h >= Far) \/ (S < b.o /\ b.o < Far /\ b.l > S /\ b.h < Far)
      <4>1. S \in Int /\ Far \in Int /\ ~(b.l <= S /\ b.h >= Far)
        BY <1>1, <1>2, <1>9 DEF b, S
      <4>2. QED
        BY <3>1, <4>1
    <3>4. QED
      BY Zenon, <2>0, <3>2, <3>3
  <2>2. /\ \A why, price : Fill(why, price, FALSE).amb = FALSE
        /\ None.amb = FALSE
    BY DEF Fill, None
  <2>3. fill.amb = FALSE
    BY <2>1, <2>2
  <2>4. QED
    BY <2>3
<1>11. QED
  BY <1>8, <1>10 DEF Fits

\* An exit that was decided at the close before: at the open of the bar.
LEMMA TrailingLeft ==
  ASSUME Types, LiveInv, plan \in {"ratchet", "path"}, Fresh, live.leave, NEW flip, NEW trail
  PROVE  ~live.open /\ live.price = JudgedBar.o /\ live.at = j /\ Kept(flip, trail) = live
<1>1. ~live.open /\ live.price = Sub(1).o /\ live.at = j
  BY DEF LiveInv, Told, Fresh
<1>2. QED
  BY <1>1, JudgedCovers DEF Kept

\* What the trailing simulators make of a bar.
RatchetTable(v, fill, b, s, at, cand) ==
  /\ fill.why # "none" => EndsAt(v, fill.price, at, FALSE)
  /\ fill = None /\ at = Horizon - 1 => EndsAt(v, b.c, at, FALSE)
  /\ fill = None /\ at # Horizon - 1 => v = Clean(FALSE, Higher(s, cand))

LEMMA RatchetRows ==
  ASSUME NEW b, NEW s, NEW at, NEW cand, NEW fill, fill = Resolve(b, s, Far)
  PROVE  RatchetTable(RatchetBar(Clean(FALSE, s), b, at, cand), fill, b, s, at, cand)
<1> DEFINE t == Clean(FALSE, s)
           f == Filled(t, fill, at)
           u == AtTime(f, b, at)
           v == RatchetBar(t, b, at, cand)
<1>1. t.stop = s /\ t.open = TRUE /\ t = Flagged(FALSE, s)
  BY DEF Clean, Flagged
<1>2. v = [u EXCEPT !.stop = IF u.open THEN Higher(u.stop, cand) ELSE u.stop]
  BY <1>1 DEF RatchetBar
<1>3. ASSUME NEW x, x = [u EXCEPT !.stop = IF u.open THEN Higher(u.stop, cand) ELSE u.stop], NEW p, EndsAt(u, p, at, FALSE)
      PROVE  EndsAt(x, p, at, FALSE)
  <2> HIDE DEF u
  <2>1. QED
    BY <1>3 DEF EndsAt
<1> HIDE DEF v
<1>4. ASSUME fill.why # "none" PROVE EndsAt(v, fill.price, at, FALSE)
  <2>1. EndsAt(f, fill.price, at, FALSE)
    <3> HIDE DEF t
    <3>1. QED
      BY <1>1, <1>4, FlaggedFilled
  <2> HIDE DEF f
  <2>2. u = f
    BY <2>1 DEF EndsAt, AtTime, Closed
  <2> HIDE DEF u
  <2>3. QED
    BY <1>2, <1>3, <2>1, <2>2
<1>5. ASSUME fill = None PROVE f = t
  BY <1>5, FilledNone
<1>6. ASSUME fill = None, at = Horizon - 1 PROVE EndsAt(v, b.c, at, FALSE)
  <2>1. u = Closed(t, "time", b.c, at)
    <3> HIDE DEF f, t
    <3>1. QED
      BY <1>5, <1>6 DEF AtTime
  <2>2. Closed(t, "time", b.c, at) = Done(FALSE, FALSE, s, "time", b.c, at)
    BY Zenon, ClosedClean
  <2>3. EndsAt(Done(FALSE, FALSE, s, "time", b.c, at), b.c, at, FALSE)
    BY DEF EndsAt, Done
  <2> HIDE DEF u, t
  <2>4. QED
    BY <1>2, <1>3, <2>1, <2>2, <2>3
<1>7. ASSUME fill = None, at # Horizon - 1 PROVE v = Clean(FALSE, Higher(s, cand))
  <2>1. u = t
    <3> HIDE DEF f, t
    <3>1. QED
      BY <1>5, <1>7 DEF AtTime
  <2> HIDE DEF u
  <2>2. v = [Clean(FALSE, s) EXCEPT !.stop = Higher(s, cand)]
    BY <1>1, <1>2, <2>1
  <2>3. ASSUME NEW x, NEW y, x = [Clean(FALSE, s) EXCEPT !.stop = y] PROVE x = Clean(FALSE, y)
    BY <2>3 DEF Clean
  <2>4. QED
    BY <2>2, <2>3
<1>8. QED
  BY <1>4, <1>6, <1>7 DEF RatchetTable, v

PathTable(v, fill, s, at, flip, cand) ==
  /\ fill.why # "none" => EndsAt(v, fill.price, at, FALSE)
  /\ fill = None /\ (at + 1 >= Horizon - 1 \/ flip) => v = Leaving(s)
  /\ fill = None /\ ~(at + 1 >= Horizon - 1 \/ flip) => v = Clean(FALSE, Higher(s, cand))

LEMMA PathRows ==
  ASSUME NEW b, NEW s, NEW at, NEW flip, NEW cand, NEW fill, fill = Resolve(b, s, Far)
  PROVE  PathTable(PathBar(Clean(FALSE, s), b, at, flip, cand), fill, s, at, flip, cand)
<1> DEFINE t == Clean(FALSE, s)
           u == Filled(t, fill, at)
           v == PathBar(t, b, at, flip, cand)
           out == at + 1 >= Horizon - 1 \/ flip
<1>1. t.stop = s /\ t.open = TRUE /\ t.leave = FALSE /\ t = Flagged(FALSE, s)
  BY DEF Clean, Flagged
<1>2. /\ ~u.open => v = u
      /\ u.open /\ out => v = [u EXCEPT !.leave = TRUE]
      /\ u.open /\ ~out => v = [u EXCEPT !.stop = Higher(u.stop, cand)]
  <2>1. u = (IF t.leave THEN Closed(t, "exit", b.o, at) ELSE Filled(t, Resolve(b, t.stop, Far), at))
    BY <1>1
  <2> HIDE DEF t, u
  <2>2. QED
    BY Zenon, <2>1 DEF PathBar
<1>3. ASSUME fill.why # "none" PROVE EndsAt(v, fill.price, at, FALSE)
  <2>1. EndsAt(u, fill.price, at, FALSE)
    <3> HIDE DEF t
    <3>1. QED
      BY <1>1, <1>3, FlaggedFilled
  <2> HIDE DEF u, v
  <2>2. QED
    BY <1>2, <2>1 DEF EndsAt
<1>4. ASSUME fill = None PROVE u = t
  BY <1>4, FilledNone
<1> HIDE DEF u, v, out
<1>5. ASSUME fill = None, out PROVE v = Leaving(s)
  <2>1. v = [Clean(FALSE, s) EXCEPT !.leave = TRUE]
    BY <1>1, <1>2, <1>4, <1>5
  <2>2. ASSUME NEW x, x = [Clean(FALSE, s) EXCEPT !.leave = TRUE] PROVE x = Leaving(s)
    BY <2>2 DEF Clean, Leaving
  <2>3. QED
    BY <2>1, <2>2
<1>6. ASSUME fill = None, ~out PROVE v = Clean(FALSE, Higher(s, cand))
  <2>1. v = [Clean(FALSE, s) EXCEPT !.stop = Higher(s, cand)]
    BY <1>1, <1>2, <1>4, <1>6
  <2>2. ASSUME NEW x, NEW y, x = [Clean(FALSE, s) EXCEPT !.stop = y] PROVE x = Clean(FALSE, y)
    BY <2>2 DEF Clean
  <2>3. QED
    BY <2>1, <2>2
<1>7. QED
  BY <1>3, <1>5, <1>6 DEF PathTable, v, out

LEMMA TrailingSim ==
  ASSUME SimsInv, plan \in {"ratchet", "path"}, Fresh
  PROVE  Carried(sims["pess"], live)
<1>1. "pess" \in Compared /\ ~Resting /\ Followed
  BY DEF Compared, Simulators, Fresh, Followed
<1>2. QED
  BY <1>1 DEF SimsInv

LEMMA HigherIs ==
  ASSUME NEW a \in Int, NEW c \in Int
  PROVE  Higher(a, c) \in Int /\ Higher(a, c) >= a /\ Higher(a, c) >= c
BY DEF Higher

\* A bar of a trade with a trailing stop that is raised at the close.
LEMMA RatchetCloses ==
  ASSUME Types, LiveInv, Bounds, SimsInv, plan = "ratchet", Fresh, NEW flip \in BOOLEAN, NEW trail \in Int, NEW k, k = Kept(flip, trail),
         NEW w, w = Judged(flip, Entry + trail)
  PROVE  Right("pess", w["pess"], k)
<1> DEFINE b == JudgedBar
           t == sims["pess"]
           s == t.stop
           cand == IF flip THEN Far ELSE Entry + trail
           fill == Resolve(b, s, Far)
           v == w["pess"]
<1>1. /\ ~Managing /\ plan # "range" /\ plan # "path"
      /\ plan \in {"ratchet", "path"}
      /\ live \in Lives /\ live.price \in Int /\ live.stop \in Int /\ Price(bid) \in Int /\ b.c = Price(bid)
  <2>1. live \in Lives /\ live.price \in Int /\ live.stop \in Int
    BY DEF Types, Lives
  <2>2. Price(bid) \in Int /\ b.c = Price(bid)
    BY TypesFacts, JudgedCovers DEF Types
  <2>3. QED
    BY <2>1, <2>2 DEF Managing
<1>2. t = Clean(FALSE, s) /\ s \in Int /\ (live.leave => s >= Far) /\ (~live.leave => s = live.stop)
  <2>1. Carried(t, live)
    BY <1>1, TrailingSim
  <2> HIDE DEF t
  <2>2. QED
    BY <2>1 DEF Carried
<1>3. RatchetTable(v, fill, b, s, j, cand)
  <2>1. v = RatchetBar(t, b, j, cand)
    BY JudgedTrailing
  <2> HIDE DEF t, b, cand, v
  <2>2. RatchetTable(RatchetBar(Clean(FALSE, s), b, j, cand), fill, b, s, j, cand)
    BY RatchetRows
  <2>3. QED
    BY <1>2, <2>1, <2>2
<1>4. cand \in Int /\ (flip => cand = Far) /\ (~flip => cand = Entry + trail) /\ Far \in Int /\ Entry + trail \in Int
  BY TypesFacts DEF Far
<1> SUFFICES Right("pess", v, k)
  OBVIOUS
<1> HIDE DEF t, b, cand, v, fill, s
<1>5. ASSUME NEW price, price = k.price, price \in Int, EndsAt(v, price, k.at, FALSE), ~k.open
      PROVE  Right("pess", v, k)
  <2>1. price <= k.price /\ price >= k.price /\ FALSE \in BOOLEAN
    BY <1>5
  <2>2. Reported("pess", v, k)
    BY <1>1, <1>5, <2>1, EndReported
  <2>3. QED
    BY <1>5, <2>2 DEF Right
<1>6. CASE live.leave
  <2>1. ~live.open /\ live.price = b.o /\ live.at = j /\ k = live
    BY <1>1, <1>6, TrailingLeft DEF b
  <2>2. fill.why # "none" /\ fill.price = b.o
    <3>1. b \in MinuteBars
      BY JudgedBarIs DEF b
    <3>2. b.o \in Int
      BY <3>1 DEF MinuteBars
    <3>3. b.o <= s \/ (b.o > s /\ b.o >= Far)
      BY <1>2, <1>4, <1>6, <3>2
    <3>4. fill = Fill("stop", b.o, FALSE) \/ fill = Fill("target", b.o, FALSE)
      <4>1. ResolvedAs(fill, b, s, Far)
        BY <1>2, <1>4, <3>1, ResolveCases DEF fill
      <4>2. QED
        BY <3>3, <4>1 DEF ResolvedAs
    <3>5. QED
      BY <3>4 DEF Fill
  <2>3. EndsAt(v, fill.price, j, FALSE)
    BY <1>3, <2>2 DEF RatchetTable
  <2>4. QED
    BY <1>1, <1>5, <2>1, <2>2, <2>3
<1>7. CASE ~live.leave
  <2>1. (live.open => fill = None) /\ (~live.open => fill.why # "none" /\ fill.price = live.price)
    <3>1. fill = Resolve(JudgedBar, live.stop, Far)
      BY <1>2, <1>7 DEF fill, b
    <3>2. QED
      BY <1>1, <1>7, <3>1, TrailingFill
  <2>2. CASE ~live.open
    <3>1. k = live /\ live.at = j
      BY <2>2 DEF Kept, Fresh
    <3>2. EndsAt(v, live.price, j, FALSE)
      BY <1>3, <2>1, <2>2 DEF RatchetTable
    <3>3. QED
      BY <1>1, <1>5, <2>2, <3>1, <3>2
  <2>3. CASE live.open
    <3>1. Decided(k, flip, Entry + trail)
      BY <1>1, <2>3, ManagedIs DEF Kept
    <3>2. CASE j = Horizon - 1
      <4>1. ~k.open /\ k.price = Price(bid) /\ k.at = j
        BY <3>1, <3>2 DEF Decided
      <4>2. EndsAt(v, b.c, j, FALSE)
        BY <1>3, <2>1, <2>3, <3>2 DEF RatchetTable
      <4>3. QED
        BY <1>1, <1>5, <4>1, <4>2
    <3>3. CASE j # Horizon - 1
      <4>1. k.open /\ k.stop = Higher(live.stop, Entry + trail) /\ (k.leave <=> flip)
        BY <1>1, <2>3, <3>1, <3>3 DEF Decided
      <4>2. v = Clean(FALSE, Higher(s, cand))
        BY <1>3, <2>1, <2>3, <3>3 DEF RatchetTable
      <4>3. v.stop = Higher(s, cand)
        BY <4>2 DEF Clean
      <4>4. v.stop \in Int /\ v.stop >= cand
        BY <1>2, <1>4, <4>3, HigherIs
      <4>5. k.leave => v.stop >= Far
        BY <1>4, <4>1, <4>4
      <4>6. ~k.leave => v.stop = k.stop
        BY <1>2, <1>4, <1>7, <4>1, <4>3
      <4>7. Carried(v, k)
        BY <1>1, <4>2, <4>3, <4>4, <4>5, <4>6 DEF Carried
      <4>8. QED
        BY <4>1, <4>7 DEF Right
    <3>4. QED
      BY <3>2, <3>3
  <2>4. QED
    BY <2>2, <2>3
<1>8. QED
  BY <1>6, <1>7

\* A bar of a trade with a trailing stop and an exit that waits for the next open.
LEMMA PathCloses ==
  ASSUME Types, LiveInv, Bounds, SimsInv, plan = "path", Fresh, NEW flip \in BOOLEAN, NEW trail \in Int, NEW k, k = Kept(flip, trail),
         NEW w, w = Judged(flip, Entry + trail)
  PROVE  Right("pess", w["pess"], k)
<1> DEFINE b == JudgedBar
           t == sims["pess"]
           cand == Entry + trail
           v == w["pess"]
<1>1. /\ ~Managing /\ plan # "range" /\ plan # "ratchet"
      /\ plan \in {"ratchet", "path"}
      /\ live \in Lives /\ live.price \in Int /\ live.stop \in Int /\ j \in Nat /\ j < Horizon /\ Horizon \in Nat
      /\ (j = Horizon - 1 => live.leave)
  <2>1. live \in Lives /\ live.price \in Int /\ live.stop \in Int /\ j \in Nat
    BY DEF Types, Lives
  <2>2. QED
    BY <2>1, PolicyAssumption DEF Managing, Bounds
<1>2. (live.leave => t = Leaving(t.stop)) /\ (~live.leave => t = Clean(FALSE, live.stop))
  <2>1. Carried(t, live)
    BY <1>1, TrailingSim
  <2> HIDE DEF t
  <2>2. QED
    BY <2>1 DEF Carried
<1>3. v = PathBar(t, b, j, flip, cand)
  BY JudgedTrailing
<1> SUFFICES Right("pess", v, k)
  OBVIOUS
<1> HIDE DEF t, b, cand, v
<1>4. ASSUME NEW price, price = live.price, EndsAt(v, price, live.at, FALSE), ~live.open
      PROVE  Right("pess", v, k)
  <2>1. k = live
    BY <1>4 DEF Kept
  <2>2. price <= k.price /\ price >= k.price /\ FALSE \in BOOLEAN /\ price \in Int /\ price = k.price
    BY <1>1, <1>4, <2>1
  <2>3. Reported("pess", v, k)
    BY <1>1, <1>4, <2>1, <2>2, EndReported
  <2>4. QED
    BY <1>4, <2>1, <2>3 DEF Right
<1>5. CASE live.leave
  <2>1. ~live.open /\ live.price = b.o /\ live.at = j
    BY <1>1, <1>5, TrailingLeft DEF b
  <2>2. \A s : t = Leaving(s) => t.leave = TRUE
    BY DEF Leaving
  <2>3. t.leave = TRUE
    BY <1>2, <1>5, <2>2
  <2> DEFINE u == Closed(t, "exit", b.o, j)
  <2>4. EndsAt(u, b.o, j, FALSE)
    <3>1. ASSUME NEW s, NEW p, NEW q, q = Closed(Leaving(s), "exit", p, j) PROVE EndsAt(q, p, j, FALSE)
      BY <3>1 DEF Closed, Leaving, EndsAt
    <3>2. QED
      BY <1>2, <1>5, <3>1
  <2>5. v = u
    <3>1. u.open = FALSE
      BY <2>4 DEF EndsAt
    <3> HIDE DEF u
    <3>2. u = (IF t.leave THEN Closed(t, "exit", b.o, j) ELSE Filled(t, Resolve(b, t.stop, Far), j))
      BY <2>3 DEF u
    <3>3. QED
      BY Zenon, <1>3, <3>1, <3>2 DEF PathBar
  <2>6. EndsAt(v, b.o, j, FALSE)
    BY <2>4, <2>5
  <2>7. QED
    BY <1>4, <2>1, <2>6
<1>6. CASE ~live.leave
  <2> DEFINE s == live.stop
             fill == Resolve(b, s, Far)
  <2>1. (live.open => fill = None) /\ (~live.open => fill.why # "none" /\ fill.price = live.price)
    <3>1. fill = Resolve(JudgedBar, live.stop, Far)
      BY DEF b
    <3> HIDE DEF fill
    <3>2. QED
      BY <1>1, <1>6, <3>1, TrailingFill
  <2>2. PathTable(v, fill, s, j, flip, cand)
    <3> HIDE DEF s, fill
    <3>1. PathTable(PathBar(Clean(FALSE, s), b, j, flip, cand), fill, s, j, flip, cand)
      BY PathRows DEF fill
    <3>2. t = Clean(FALSE, s)
      BY <1>2, <1>6 DEF s
    <3>3. QED
      BY <1>3, <3>1, <3>2
  <2> HIDE DEF s, fill
  <2>3. CASE ~live.open
    <3>1. live.at = j
      BY <2>3 DEF Fresh
    <3>2. EndsAt(v, live.price, j, FALSE)
      BY <2>1, <2>2, <2>3 DEF PathTable
    <3>3. QED
      BY <1>4, <2>3, <3>1, <3>2
  <2>4. CASE live.open
    <3>1. Decided(k, flip, Entry + trail)
      BY <1>1, <2>4, ManagedIs DEF Kept
    <3>2. k.open /\ k.stop = Higher(live.stop, Entry + trail) /\ (k.leave <=> flip \/ j = Horizon - 2)
      BY <1>1, <2>4, <3>1 DEF Decided
    <3>3. (j + 1 >= Horizon - 1 \/ flip) <=> k.leave
      BY <1>1, <1>6, <3>2
    <3>4. CASE k.leave
      <4>1. v = Leaving(s)
        BY <2>1, <2>2, <2>4, <3>3, <3>4 DEF PathTable
      <4>2. v.stop = s
        BY <4>1 DEF Leaving
      <4>3. Carried(v, k)
        BY <1>1, <3>4, <4>1, <4>2 DEF Carried
      <4>4. QED
        BY <3>2, <4>3 DEF Right
    <3>5. CASE ~k.leave
      <4>1. v = Clean(FALSE, Higher(s, cand))
        BY <2>1, <2>2, <2>4, <3>3, <3>5 DEF PathTable
      <4>2. v = Clean(FALSE, k.stop)
        BY <3>2, <4>1 DEF s, cand
      <4>3. Carried(v, k)
        BY <1>1, <3>5, <4>2 DEF Carried
      <4>4. QED
        BY <3>2, <4>3 DEF Right
    <3>6. QED
      BY <3>4, <3>5
  <2>5. QED
    BY <2>3, <2>4
<1>7. QED
  BY <1>5, <1>6

-----------------------------------------------------------------------------
(* The close of a bar, for every plan                                      *)

\* The simulators and the orders once a bar has been judged.
Judging(k) ==
  /\ \A n \in Compared : Right(n, sims'[n], k)
  /\ plan = "policy" => Decides(sims'["refM1"], sims'["pess"], sims'["opt"], k)

LEMMA BarCloses ==
  ASSUME Types, LiveInv, LimitInv, Bounds, Agreement, Agreement', SimsInv, Sensible, Fresh, Followed,
         NEW flip, NEW trail, NEW end, NEW gap, Closing(flip, trail, end, gap)
  PROVE  Judging(Kept(flip, trail))
<1> DEFINE k == Kept(flip, trail)
           w == Judged(flip, Entry + trail)
<1>1. sims' = w /\ flip \in BOOLEAN /\ trail \in Int /\ plan' = plan
  BY DEF Closing
<1>2. k \in Lives
  BY KeptFacts
<1> SUFFICES Judging(k)
  OBVIOUS
<1> HIDE DEF w
<1>3. CASE plan = "policy"
  <2>1. /\ Right("pess", w["pess"], k) /\ Right("opt", w["opt"], k) /\ Right("refM1", w["refM1"], k)
        /\ Decides(w["refM1"], w["pess"], w["opt"], k)
    <3>1. w = Judged(flip, Entry + trail)
      BY DEF w
    <3>2. k = Kept(flip, trail)
      OBVIOUS
    <3> HIDE DEF k
    <3>3. QED
      BY Zenon, <1>3, <3>1, <3>2, PolicyCloses
  <2>2. sims'["refPess"] = sims'["pess"] /\ Alike(sims'["refAdm"], sims'["opt"])
    BY <1>1, <1>3 DEF Agreement
  <2> HIDE DEF k
  <2>3. Right("refPess", sims'["pess"], k) /\ Right("refAdm", sims'["refAdm"], k)
    <3>1. Right("pess", sims'["pess"], k) /\ Right("opt", sims'["opt"], k)
      BY <1>1, <2>1
    <3>2. QED
      BY Zenon, <1>2, <1>3, <2>2, <3>1, RefereesClose
  <2>4. Compared = {"pess", "opt", "refPess", "refAdm", "refM1"}
    BY <1>3 DEF Compared, Simulators
  <2>5. QED
    BY <1>1, <2>1, <2>2, <2>3, <2>4 DEF Judging
<1>4. CASE plan = "limit"
  <2>1. w = Judged(flip, Entry + trail) /\ k = Kept(flip, trail) /\ j \in Nat
    BY DEF w, Types
  <2> HIDE DEF k
  <2>2. CASE j = 0
    <3>1. Right("pess", w["pess"], k)
      BY Zenon, <1>4, <2>1, <2>2, FirstCloses
    <3>2. QED
      BY <1>1, <1>4, <3>1 DEF Judging, Compared
  <2>3. CASE j > 0
    <3>1. Right("pess", w["pess"], k)
      BY Zenon, <1>4, <2>1, <2>3, LaterCloses
    <3>2. QED
      BY <1>1, <1>4, <3>1 DEF Judging, Compared
  <2>4. QED
    BY <2>1, <2>2, <2>3
<1>5. CASE plan = "range"
  <2>1. w = Judged(flip, Entry + trail) /\ k = Kept(flip, trail)
    BY DEF w
  <2> HIDE DEF k
  <2>2. Right("pess", w["pess"], k) /\ Right("opt", w["opt"], k)
    BY Zenon, <1>5, <2>1, RangeCloses
  <2>3. QED
    BY <1>1, <1>5, <2>2 DEF Judging, Compared, Simulators
<1>6. CASE plan = "ratchet"
  <2>1. w = Judged(flip, Entry + trail) /\ k = Kept(flip, trail)
    BY DEF w
  <2> HIDE DEF k
  <2>2. Right("pess", w["pess"], k)
    BY Zenon, <1>1, <1>6, <2>1, RatchetCloses
  <2>3. QED
    BY <1>1, <1>6, <2>2 DEF Judging, Compared, Simulators
<1>7. CASE plan = "path"
  <2>1. w = Judged(flip, Entry + trail) /\ k = Kept(flip, trail)
    BY DEF w
  <2> HIDE DEF k
  <2>2. Right("pess", w["pess"], k)
    BY Zenon, <1>1, <1>7, <2>1, PathCloses
  <2>3. QED
    BY <1>1, <1>7, <2>2 DEF Judging, Compared, Simulators
<1>8. QED
  BY <1>3, <1>4, <1>5, <1>6, <1>7 DEF Types, Plans

LEMMA CarriedOpen ==
  ASSUME plan \in Plans, NEW v, NEW o \in Lives, Carried(v, o)
  PROVE  v.open = TRUE
<1>1. (o.armed \/ ~o.armed) /\ (o.leave \/ ~o.leave)
  OBVIOUS
<1>2. \A s : Clean(TRUE, s).open = TRUE /\ Clean(FALSE, s).open = TRUE /\ Leaving(s).open = TRUE
  BY DEF Clean, Leaving
<1>3. CASE Managing
  BY <1>1, <1>2, <1>3 DEF Carried
<1>4. CASE plan = "range" \/ plan = "ratchet"
  BY <1>2, <1>4 DEF Carried
<1>5. CASE plan = "path"
  BY <1>1, <1>2, <1>5 DEF Carried
<1>6. QED
  BY <1>3, <1>4, <1>5 DEF Plans, Managing

LEMMA SimsClose ==
  ASSUME Types, LiveInv, LimitInv, Bounds, Agreement, Agreement', SimsInv, Sensible, CloseBar
  PROVE  SimsInv'
<1>1. PICK flip, trail, end, gap : Closing(flip, trail, end, gap)
  BY CloseFacts
<1> DEFINE k == Kept(flip, trail)
           x == bid + gap
<1>2. /\ plan' = plan /\ order' = order /\ over' = end /\ end \in BOOLEAN /\ gap \in Int
      /\ end => live' = k /\ j' = j
      /\ ~end => live' = Opened(k, x) /\ j' = j + 1
  BY <1>1 DEF Closing, Kept
<1>3. /\ Running /\ ~over /\ ~Resting /\ ~Resting' /\ j \in Nat /\ plan \in Plans
      /\ (Followed' <=> Followed) /\ Compared' = Compared /\ Entry' = Entry
  BY <1>2 DEF CloseBar, Running, Resting, Types, Followed, Entry, Compared
<1>4. SUFFICES ASSUME Followed PROVE SimsInv'
  BY <1>3 DEF SimsInv
<1>5. k \in Lives /\ (~k.open => k.at \in 0..j)
  BY <1>1, KeptFacts
<1> HIDE DEF k
<1>6. CASE ~Fresh
  <2>1. ~live.open /\ live.at \in 0..j /\ live.at # j
    BY <1>3, <1>6 DEF Fresh, LiveInv
  <2>2. \A n \in Compared : Reported(n, sims[n], live)
    BY <1>3, <1>4, <1>6, <2>1 DEF SimsInv
  <2>3. plan = "limit"
    <3>1. ASSUME plan # "limit" PROVE FALSE
      <4>1. Compared = DOMAIN sims
        BY <3>1 DEF Compared, Types
      <4>2. \A n \in DOMAIN sims : ~sims[n].open
        BY <2>2, <4>1 DEF Reported
      <4>3. QED
        BY <1>3, <2>1, <4>2 DEF Running
    <3>2. QED
      BY <3>1
  <2>4. sims'["pess"] = sims["pess"] /\ live' = live
    <3>1. j > 0
      BY <1>3, <2>1
    <3>2. sims'["pess"] = SimulateBar(sims["pess"], JudgedBar, Entry, j, flipped, FALSE)
      BY <1>1, <1>3, <2>3, <3>1, JudgedLater DEF Closing
    <3>3. sims["pess"].open = FALSE
      BY <2>2, <2>3 DEF Compared, Reported
    <3>4. Stays(sims["pess"], JudgedBar, <<>>, Entry, j, flipped)
      BY <3>3, ClosedStays
    <3>5. live' = live
      BY <1>1, <2>1, ClosingLive
    <3>6. QED
      BY <3>2, <3>4, <3>5 DEF Stays
  <2>5. ~Fresh'
    BY <1>2, <1>3, <2>1, <2>4 DEF Fresh
  <2>6. ASSUME NEW n \in Compared' PROVE Reported(n, sims[n], live)'
    <3>1. n = "pess" /\ Reported("pess", sims["pess"], live)
      BY <1>3, <2>2, <2>3 DEF Compared
    <3>2. QED
      BY <1>2, <2>4, <3>1 DEF Reported
  <2>7. QED
    BY <1>2, <2>1, <2>3, <2>4, <2>5, <2>6 DEF SimsInv
<1>7. CASE Fresh
  <2>1. Judging(k)
    BY <1>1, <1>4, <1>7, BarCloses DEF k
  <2>2. /\ \A n \in Compared : (k.open => Carried(sims'[n], k)) /\ (~k.open => Reported(n, sims'[n], k))
        /\ plan = "policy" => Decides(sims'["refM1"], sims'["pess"], sims'["opt"], k)
    BY <2>1 DEF Judging, Right
  <2>3. ASSUME ~Fresh', live' = k
        PROVE  SimsInv'
    <3>1. \A n \in Compared : k.open => sims'[n].open
      BY <1>3, <1>5, <2>2, CarriedOpen
    <3>2. \A n \in Compared : ~live'.open => Reported(n, sims[n], live)'
      BY <1>2, <2>2, <2>3 DEF Reported
    <3>3. QED
      BY <1>2, <1>3, <2>2, <2>3, <3>1, <3>2 DEF SimsInv
  <2>4. CASE end
    <3>1. ~Fresh' /\ live' = k
      BY <1>2, <2>4 DEF Fresh
    <3>2. QED
      BY <2>3, <3>1
  <2>5. CASE ~end /\ ~k.open
    <3>1. OpenedAs(live', k, Price(x))
      BY <1>2, <1>5, <2>5, OpenedIs DEF Types
    <3>2. live' = k /\ j' = j + 1
      BY <1>2, <2>5, <3>1 DEF OpenedAs
    <3>3. ~Fresh'
      BY <1>3, <1>5, <2>5, <3>2 DEF Fresh
    <3>4. QED
      BY <2>3, <3>2, <3>3
  <2>6. CASE ~end /\ k.open
    <3>1. OpenedAs(live', k, Price(x))
      BY <1>2, <1>5, <2>6, OpenedIs DEF Types
    <3>2. live'.stop = k.stop /\ live'.armed = k.armed /\ live'.leave = k.leave
      BY <3>1 DEF OpenedAs
    <3>3. live'.open \/ live'.at = j + 1
      BY <2>6, <3>1 DEF OpenedAs, Watches
    <3>4. Fresh'
      BY <1>2, <1>3, <2>6, <3>3 DEF Fresh
    <3>5. \A n \in Compared : Carried(sims[n], live)'
      <4>1. ASSUME NEW n \in Compared PROVE Carried(sims[n], live)'
        <5>1. Carried(sims'[n], k)
          BY <2>2, <2>6
        <5>2. Managing' <=> Managing
          BY <1>2 DEF Managing
        <5>3. QED
          BY <1>2, <1>3, <3>2, <5>1, <5>2 DEF Carried
      <4>2. QED
        BY <4>1
    <3>6. QED
      BY <1>3, <3>4, <3>5 DEF SimsInv
  <2>7. QED
    BY <1>2, <2>4, <2>5, <2>6
<1>8. QED
  BY <1>6, <1>7

-----------------------------------------------------------------------------
(* The invariant and the theorems                                          *)

Inv == Types /\ LiveInv /\ LimitInv /\ Bounds /\ Agreement /\ SimsInv

LEMMA InvInit == Init /\ Sensible => Inv
BY TypesInit, LiveInit, LimitInit, BoundsInit, AgreementInit, SimsInit DEF Inv

LEMMA InvNext ==
  ASSUME Sensible, Inv, [Next]_vars
  PROVE  Inv'
<1>1. Types /\ LiveInv /\ LimitInv /\ Bounds /\ Agreement /\ SimsInv
  BY DEF Inv
<1>2. Types' /\ Agreement'
  BY <1>1, TypesNext, AgreementNext
<1>3. SUFFICES LiveInv' /\ LimitInv' /\ Bounds' /\ SimsInv'
  BY <1>2 DEF Inv
<1>4. CASE \E d \in {-1, 1} : Move(d)
  <2>1. PICK d \in {-1, 1} : Move(d)
    BY <1>4
  <2>2. LiveInv' /\ LimitInv'
    <3>1. CASE Resting
      BY <1>1, <2>1, <3>1, RestingMove
    <3>2. CASE ~Resting
      <4>1. LiveInv'
        BY <1>1, <2>1, <3>2, LiveMove
      <4>2. LimitInv'
        BY <1>1, <2>1, <3>2, LimitMove
      <4>3. QED
        BY <4>1, <4>2
    <3>3. QED
      BY <3>1, <3>2
  <2>3. Bounds'
    BY <1>1, <2>1, BoundsMove
  <2>4. SimsInv'
    BY <1>1, <1>2, <2>1, <2>2, SimsMove
  <2>5. QED
    BY <2>2, <2>3, <2>4
<1>5. CASE NextMinute
  <2>1. LiveInv' /\ LimitInv'
    BY <1>1, <1>5, LiveMinute, LimitMinute
  <2>2. Bounds' /\ SimsInv'
    BY <1>1, <1>5, BoundsMinute, SimsMinute
  <2>3. QED
    BY <2>1, <2>2
<1>6. CASE CloseBar
  <2>1. LiveInv'
    BY <1>1, <1>6, LiveClose
  <2>2. LimitInv'
    BY <1>1, <1>6, LimitClose
  <2>3. Bounds'
    BY <1>1, <1>6, BoundsClose
  <2>4. SimsInv'
    BY <1>1, <1>2, <1>6, SimsClose
  <2>5. QED
    BY <2>1, <2>2, <2>3, <2>4
<1>7. CASE RestOn
  <2>1. LiveInv' /\ LimitInv'
    BY <1>1, <1>7, RestingOn
  <2>2. Bounds'
    BY <1>1, <1>7, BoundsRest
  <2>3. Resting'
    BY <1>7 DEF RestOn, Resting
  <2>4. QED
    BY <2>1, <2>2, <2>3 DEF SimsInv
<1>8. CASE UNCHANGED vars
  <2>1. UNCHANGED <<plan, side, spread, bid, ticks, minutes, j, flipped, order, live, sims, over>>
    BY <1>8 DEF vars
  <2>2. LiveInv'
    <3>1. Watch' = Watch /\ Count' = Count /\ Sub(1)' = Sub(1)
      BY <2>1 DEF Watch, Count, Skipped, Sub
    <3>2. Target' = Target /\ Entry' = Entry /\ (Managing' <=> Managing) /\ (Followed' <=> Followed) /\ (Fresh' <=> Fresh)
          /\ Price(bid)' = Price(bid)
      BY <2>1 DEF Target, Entry, Managing, Followed, Fresh, Resting, Price
    <3>3. Placed' <=> Placed
      BY <2>1, <3>2 DEF Placed
    <3>4. Told' <=> Told
      BY <2>1, <3>1, <3>2 DEF Told
    <3>5. Alive(live, Price(bid))' <=> Alive(live, Price(bid))
      BY <2>1, <3>2 DEF Alive
    <3>6. QED
      BY <1>1, <2>1, <3>2, <3>3, <3>4, <3>5 DEF LiveInv
  <2>3. LimitInv'
    BY <1>1, <2>1 DEF LimitInv, Unfilled, Sub, New, Resting, Entry
  <2>4. Bounds'
    BY <1>1, <2>1 DEF Bounds, Fresh, Resting, Entry, Price
  <2>5. SimsInv'
    BY <1>1, <2>1 DEF SimsInv, Carried, Reported, Decides, Resting, Followed, Fresh, Managing, Entry, Compared, Simulators
  <2>6. QED
    BY <2>2, <2>3, <2>4, <2>5
<1>9. QED
  BY <1>4, <1>5, <1>6, <1>7, <1>8 DEF Next

\* A simulated trade is open while the orders are, as far as it has seen, and
\* reports them when they are done.
Standing ==
  /\ ~LiveDone => \A n \in Compared : sims[n].open = TRUE
  /\ LiveDone => /\ \A n \in Compared : Reported(n, sims[n], live)
                 /\ plan = "policy" => Decides(sims["refM1"], sims["pess"], sims["opt"], live)

LEMMA StandingIs == Inv /\ Followed => Standing
<1> SUFFICES ASSUME Inv, Followed PROVE Standing
  OBVIOUS
<1>1. Types /\ LiveInv /\ LimitInv /\ SimsInv
  BY DEF Inv
<1>2. DOMAIN sims = Simulators(plan) /\ j \in Nat /\ plan \in Plans /\ live \in Lives /\ over \in BOOLEAN
  BY <1>1 DEF Types
<1>3. CASE Resting
  <2>1. plan = "limit"
    BY <1>1, <1>3 DEF Types, Resting
  <2>2. live.open = TRUE /\ sims["pess"] = Trade(Entry - Risk)
    BY <1>1, <1>3, <2>1 DEF LimitInv, New
  <2>3. \A s : Trade(s).open = TRUE
    BY DEF Trade
  <2>4. Compared = {"pess"}
    BY <2>1 DEF Compared
  <2>5. QED
    BY <2>2, <2>3, <2>4 DEF Standing, LiveDone
<1>4. CASE ~Resting /\ Fresh
  <2>1. ~LiveDone
    BY <1>2, <1>4 DEF Fresh, LiveDone, Seen
  <2>2. \A n \in Compared : Carried(sims[n], live)
    BY <1>1, <1>2, <1>4 DEF SimsInv
  <2>3. \A n \in Compared : sims[n].open = TRUE
    BY <1>2, <2>2, CarriedOpen
  <2>4. QED
    BY <2>1, <2>3 DEF Standing
<1>5. CASE ~Resting /\ ~Fresh
  <2>1. LiveDone <=> ~live.open
    <3>1. ~live.open => live.at \in 0..j
      BY <1>1 DEF LiveInv
    <3>2. QED
      BY <1>2, <1>5, <3>1 DEF LiveDone, Seen, Fresh
  <2>2. live.open => \A n \in Compared : sims[n].open
    BY <1>1, <1>2, <1>5 DEF SimsInv
  <2>3. ~live.open => /\ \A n \in Compared : Reported(n, sims[n], live)
                      /\ plan = "policy" => Decides(sims["refM1"], sims["pess"], sims["opt"], live)
    BY <1>1, <1>2, <1>5 DEF SimsInv
  <2>4. QED
    BY <2>1, <2>2, <2>3 DEF Standing
<1>6. QED
  BY <1>3, <1>4, <1>5

LEMMA InvBrackets == Inv => Bracket
<1> SUFFICES ASSUME Inv PROVE Bracket
  OBVIOUS
<1>1. Types /\ LimitInv /\ j \in Nat /\ live \in Lives /\ Entry \in Int /\ Risk \in Int /\ DOMAIN sims = Simulators(plan)
  BY TypesFacts, PolicyAssumption DEF Inv, Types
<1>2. ASSUME plan = "limit" PROVE FillMinute
  <2>1. Resting => sims["pess"] = Trade(Entry - Risk)
    BY <1>1, <1>2 DEF LimitInv
  <2>2. ASSUME ~Resting, ~order.quiet, ~live.touched, LiveDone
        PROVE  ~sims["pess"].open /\ sims["pess"].at = 0 /\ sims["pess"].price <= live.price
    <3>1. live.at = 0 /\ live.price = Entry - Risk
          /\ (j > 0 \/ over => sims["pess"].open = FALSE /\ sims["pess"].at = 0 /\ sims["pess"].price = Entry - Risk)
      BY <1>1, <1>2, <2>2 DEF LimitInv
    <3>2. j > 0 \/ over
      BY <1>1, <2>2, <3>1 DEF LiveDone, Seen
    <3>3. QED
      BY <1>1, <3>1, <3>2
  <2>3. QED
    BY <2>1, <2>2 DEF FillMinute
<1>3. ASSUME Followed, NEW n \in Compared \cap {"pess", "opt", "refAdm", "refM1"}
      PROVE  /\ ~sims[n].open => LiveDone
             /\ LiveDone => /\ ~sims[n].open /\ sims[n].at = live.at
                            /\ n = "pess" => sims[n].price <= live.price
                            /\ n \in {"opt", "refAdm"} => sims[n].price >= live.price
  <2>1. Standing
    BY <1>3, StandingIs
  <2>2. QED
    BY <1>3, <2>1 DEF Standing, Reported
<1>4. QED
  BY <1>2, <1>3 DEF Bracket

LEMMA InvExact == Inv => ExactUnlessAmbiguous
<1> SUFFICES ASSUME Inv, Followed, NEW n \in Compared, ~sims[n].amb
             PROVE  /\ ~sims[n].open => LiveDone
                    /\ LiveDone => /\ Same(sims[n], live)
                                   /\ plan = "policy" => sims[n].armed = live.touched
  BY DEF ExactUnlessAmbiguous
<1>1. Standing /\ live.touched \in BOOLEAN
  BY StandingIs DEF Inv, Types, Lives
<1>2. ~sims[n].open => LiveDone
  BY <1>1 DEF Standing
<1>3. ASSUME LiveDone
      PROVE  Same(sims[n], live) /\ (plan = "policy" => sims[n].armed = live.touched)
  <2>1. Reported(n, sims[n], live)
    BY <1>1, <1>3 DEF Standing
  <2>2. sims[n].amb = FALSE
    BY <2>1 DEF Reported
  <2>3. Same(sims[n], live)
    BY <2>1, <2>2 DEF Reported, Same
  <2>4. plan = "policy" => (live.touched => sims[n].armed = TRUE) /\ (~live.touched => sims[n].armed = FALSE)
    BY <2>1, <2>2 DEF Reported
  <2>5. plan = "policy" => sims[n].armed = live.touched
    <3>1. ASSUME plan = "policy" PROVE sims[n].armed = live.touched
      <4>1. (live.touched => sims[n].armed = TRUE) /\ (~live.touched => sims[n].armed = FALSE)
        BY <2>4, <3>1
      <4>2. live.touched = TRUE \/ live.touched = FALSE
        BY <1>1
      <4>3. QED
        BY <4>1, <4>2
    <3>2. QED
      BY <3>1
  <2>6. QED
    BY <2>3, <2>5
<1>4. QED
  BY <1>2, <1>3

LEMMA InvMinutes == Inv => MinutesDecide
<1> SUFFICES ASSUME Inv, plan = "policy", ~sims["refM1"].open
             PROVE  /\ ~sims["refM1"].residual => Same(sims["refM1"], live) /\ sims["refM1"].armed = live.touched
                    /\ sims["pess"].price <= sims["refM1"].price /\ sims["refM1"].price <= sims["opt"].price
  BY DEF MinutesDecide
<1>1. Standing /\ live.touched \in BOOLEAN /\ "refM1" \in Compared
  <2>1. Followed
    BY DEF Followed
  <2>2. QED
    BY <2>1, StandingIs DEF Inv, Types, Lives, Compared, Simulators
<1>2. LiveDone
  BY <1>1 DEF Standing
<1>3. Reported("refM1", sims["refM1"], live) /\ Decides(sims["refM1"], sims["pess"], sims["opt"], live) /\ ~live.open
  BY <1>1, <1>2 DEF Standing, LiveDone
<1>4. sims["pess"].price <= sims["refM1"].price /\ sims["refM1"].price <= sims["opt"].price
  BY <1>3 DEF Decides
<1>5. ASSUME ~sims["refM1"].residual
      PROVE  Same(sims["refM1"], live) /\ sims["refM1"].armed = live.touched
  <2>1. sims["refM1"].residual = FALSE
    BY <1>3, <1>5 DEF Decides
  <2>2. /\ sims["refM1"].price = live.price
        /\ live.touched => sims["refM1"].armed = TRUE
        /\ ~live.touched => sims["refM1"].armed = FALSE
    BY <1>3, <2>1 DEF Decides
  <2>3. Same(sims["refM1"], live)
    BY <1>3, <2>2 DEF Same, Reported
  <2>4. sims["refM1"].armed = live.touched
    BY <1>1, <2>2
  <2>5. QED
    BY <2>3, <2>4
<1>6. QED
  BY <1>4, <1>5

\* Every trade, market or limit, with any prices, gaps and minutes: the
\* harness's pessimistic result is at most and, of a trade entered at the market,
\* its optimistic result at least what the orders earned; they are over when the
\* orders are and not before, and they end in the same bar (labels_v2.simulate,
\* dt14.range_sim, lim13.manage, wave23.sim_trade, mw6.sim_path).  Nothing is said
\* of lim13's touch result, which is another trade.
THEOREM Brackets ==
  ASSUME Sensible
  PROVE  Spec => []Bracket
<1>1. Init => Inv
  BY InvInit
<1>2. Inv /\ [Next]_vars => Inv'
  BY InvNext
<1>3. QED
  BY <1>1, <1>2, InvBrackets, PTL DEF Spec

\* A simulated trade that met no ambiguous bar is the trade the orders made, to
\* the price and the bar, armed or not (the ambiguous flag of
\* labels_v2.simulate).
THEOREM Exact ==
  ASSUME Sensible
  PROVE  Spec => []ExactUnlessAmbiguous
<1>1. Init => Inv
  BY InvInit
<1>2. Inv /\ [Next]_vars => Inv'
  BY InvNext
<1>3. QED
  BY <1>1, <1>2, InvExact, PTL DEF Spec

\* Walking the minutes of an ambiguous bar gives the trade the orders made,
\* unless a minute is ambiguous itself, and never leaves the bounds
\* (fixtures.py ref_one, mode "m1").
THEOREM MinutesOrder ==
  ASSUME Sensible
  PROVE  Spec => []MinutesDecide
<1>1. Init => Inv
  BY InvInit
<1>2. Inv /\ [Next]_vars => Inv'
  BY InvNext
<1>3. QED
  BY <1>1, <1>2, InvMinutes, PTL DEF Spec
=============================================================================
