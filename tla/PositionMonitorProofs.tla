----------------------- MODULE PositionMonitorProofs -----------------------
(***************************************************************************)
(* Safety of the position monitor for every number of bars, tripwires and  *)
(* stop levels, every budget, cooldown and window, and any number of       *)
(* restarts and failed calls.                                              *)
(***************************************************************************)
EXTENDS PositionMonitor, FiniteSetTheorems, TLAPS

Open == position.status = "open"
Ticking == mon.at # "idle"

\* The tick's copy of the counters is never stale while the position is open:
\* only the tick itself writes them.
CopyCounts ==
  Open /\ Ticking => mon.barsHeld = position.barsHeld /\ mon.lastBar = position.lastBar

HeldBars == Open => position.barsHeld <= position.lastBar

\* Past the feed's answer the window reaches back to the last judged bar, or
\* the operator was asked to look.
WindowReaches ==
  Open /\ mon.at \in {"bars", "wakes", "record", "attention", "mark"} =>
    mon.first <= PrevBar + 1 \/ position.needsAttention

\* No bar after the entry's is passed over silently, wherever the entry falls.
GapsAreSeen ==
  ((EntryBar + 1)..position.lastBar) \subseteq judged \/ position.needsAttention

RowInv == TypeOK /\ CopyCounts /\ HeldBars /\ JudgedOnce /\ WindowReaches /\ GapsAreSeen

\* A recorded wake was enqueued, and not in the future.
RecordedWakes ==
  \A i \in DOMAIN wakeEvents : Status(i) # "none" /\ wakeEvents[i].at <= newest

\* A wake that was ingested and is not done.
Sending == mon.at \in {"record", "attention"}

KeyIsKnown == Sending => mon.key \in WakeKeys

\* Between the enqueue and the record the answer of the two checks stands: no
\* other wake is in flight, and time only takes wakes out of the day.
AboutToRecord ==
  mon.at = "record" =>
    /\ wakeRun[mon.key].status # "none"
    /\ InFlight = {}
    /\ Cardinality(WithinDay(newest)) < MaxWakesPer24h

WakeInv == RecordedWakes /\ KeyIsKnown /\ AboutToRecord /\ OneWakeInFlight /\ WakesPerDay

IInv == RowInv /\ WakeInv

-----------------------------------------------------------------------------
(* Cooldowns: a mark, in memory or in the row, holds every recorded wake    *)
(* that is still to be remembered.                                         *)

WireOf(i) == wakeEvents[i].key[1]
HeldAt(i) == wakeEvents[i].barsHeld
Remembered == DOMAIN wakeEvents \ forgotten
Looping == mon.at \in {"wakes", "record", "attention", "mark"}

\* No mark and no recorded wake is ahead of the bars the position was held.
MarksAreReached ==
  /\ Open => \A w \in Wires : position.lastFired[w] <= position.barsHeld
  /\ Open => \A i \in DOMAIN wakeEvents : HeldAt(i) <= position.barsHeld
  /\ Ticking => \A w \in Wires : mon.durable[w] <= mon.barsHeld
  /\ Ticking => \A i \in DOMAIN wakeEvents : HeldAt(i) <= mon.barsHeld

\* The marks in memory are never behind the row's, and hold every remembered
\* wake; the row's hold every remembered wake but those of the loop that is
\* still to store its marks.
MarksHoldWakes ==
  /\ Open /\ Ticking =>
       /\ \A w \in Wires : position.lastFired[w] <= mon.durable[w]
       /\ \A i \in Remembered : HeldAt(i) <= mon.durable[WireOf(i)]
  /\ Open /\ (Ticking => ~mon.marked) =>
       \A i \in Remembered : HeldAt(i) <= position.lastFired[WireOf(i)]
  /\ mon.marked => Looping
  /\ mon.at = "mark" => mon.marked

\* The in-memory marks hold every remembered wake until the silent-feed loop,
\* and those the loop over bars is about to make.
FiredHoldsWakes ==
  /\ Ticking /\ ~mon.quiet => \A i \in Remembered : HeldAt(i) <= mon.fired[WireOf(i)]
  /\ Looping /\ ~mon.quiet => \A w \in mon.toWake : mon.fired[w] = mon.barsHeld
  /\ mon.quiet => Looping

\* What is left to wake is a cooldown away from every remembered wake.
LeftToWake ==
  Looping => \A i \in Remembered : WireOf(i) \in mon.toWake =>
    mon.barsHeld - HeldAt(i) >= CooldownBars /\ WireOf(i) \notin OnceWires

KeyIsLeft == Sending => mon.key[1] \in mon.toWake

\* CooldownKept itself.
WakesApart ==
  \A i \in Remembered, j \in DOMAIN wakeEvents : i < j /\ WireOf(i) = WireOf(j) =>
    HeldAt(j) - HeldAt(i) >= CooldownBars /\ WireOf(i) \notin OnceWires

Cooldowns ==
  MarksAreReached /\ MarksHoldWakes /\ FiredHoldsWakes /\ LeftToWake /\ KeyIsLeft /\ WakesApart

-----------------------------------------------------------------------------
(* What the operators of the model return.                                 *)

LEMMA LevelsAreNumbers == \A stop \in Levels : stop \in Int
BY MonitorAssumption

LEMMA Tightened ==
  ASSUME NEW a \in Levels, NEW b \in Levels
  PROVE  Tighter(a, b) \in Levels /\ Tighter(a, b) >= a /\ Tighter(a, b) >= b
BY MonitorAssumption DEF Tighter

\* SavePosition leaves a closed row alone, and of an open one it moves the stop
\* towards price and takes the counters.
LEMMA SavedRow ==
  ASSUME NEW p \in PositionRow, NEW m, m.stop \in Levels, m.barsHeld \in Bars, m.lastBar \in Bars,
         m.durable \in Marks
  PROVE  /\ Saved(p, m) \in PositionRow
         /\ Saved(p, m).status = p.status
         /\ Saved(p, m).stop >= p.stop
         /\ Saved(p, m).needsAttention = p.needsAttention
         /\ p.status = "closed" => Saved(p, m) = p
         /\ p.status = "open" =>
              /\ Saved(p, m).barsHeld = m.barsHeld
              /\ Saved(p, m).lastBar = m.lastBar
              /\ Saved(p, m).lastFired =
                   [w \in Wires |-> IF m.durable[w] = Never THEN p.lastFired[w] ELSE m.durable[w]]
<1>1. Tighter(p.stop, m.stop) \in Levels /\ Tighter(p.stop, m.stop) >= p.stop
  BY Tightened DEF PositionRow
<1>2. [w \in Wires |-> IF m.durable[w] = Never THEN p.lastFired[w] ELSE m.durable[w]] \in Marks
  BY DEF PositionRow, Marks
<1>3. CASE p.status = "open"
  BY <1>1, <1>2, <1>3 DEF Saved, PositionRow
<1>4. CASE p.status = "closed"
  BY <1>4, MonitorAssumption DEF Saved, PositionRow
<1>5. QED
  BY <1>3, <1>4 DEF PositionRow

LEMMA IdleMonitor == Idle \in Monitor /\ Idle.at = "idle" /\ ~Idle.marked /\ ~Idle.quiet
BY MonitorAssumption DEF Idle, Monitor, Unmarked, Marks, Bars

\* Where a tick goes after a wake: its copy of the row is kept, or the tick is
\* over.
LEMMA Continued ==
  ASSUME NEW m \in Monitor, NEW marked \in BOOLEAN
  PROVE  /\ Continue(m, marked) \in Monitor
         /\ \/ Continue(m, marked) = Idle /\ m.quiet
            \/ /\ Continue(m, marked).at \in {"mark", "wakes", "bars"}
               /\ \E to \in {"mark", "wakes", "bars"} : Continue(m, marked) = [m EXCEPT !.at = to]
<1>1. ASSUME NEW to \in {"mark", "wakes", "bars"} PROVE [m EXCEPT !.at = to] \in Monitor /\ [m EXCEPT !.at = to].at = to
  BY <1>1 DEF Monitor
<1>2. \/ Continue(m, marked) = Idle /\ m.quiet
      \/ \E to \in {"mark", "wakes", "bars"} : Continue(m, marked) = [m EXCEPT !.at = to]
  BY DEF Continue
<1>3. QED
  BY <1>1, <1>2, IdleMonitor

\* After a wake the tick goes on with the same copy, or it is over.
LEMMA WakeDoneKeeps ==
  ASSUME NEW m \in Monitor, NEW w \in Wires, NEW ok \in BOOLEAN, NEW n, n = WakeDone(m, w, ok)
  PROVE  /\ n \in Monitor
         /\ \/ n = Idle
            \/ /\ n.at \in {"mark", "wakes", "bars"}
               /\ n.barsHeld = m.barsHeld /\ n.lastBar = m.lastBar /\ n.first = m.first
<1> DEFINE marks == [v \in Wires |-> IF ok /\ v = w THEN m.barsHeld ELSE m.durable[v]]
           done == [m EXCEPT !.toWake = m.toWake \ {w}, !.key = NoKey, !.marked = m.marked \/ ok,
                             !.durable = marks]
<1>1. marks \in Marks
  BY DEF Monitor, Marks
<1> HIDE DEF marks
<1>2. done \in Monitor /\ done.marked \in BOOLEAN
  BY <1>1 DEF Monitor
<1>3. done.barsHeld = m.barsHeld /\ done.lastBar = m.lastBar /\ done.first = m.first
  BY DEF Monitor
<1>4. n = Continue(done, done.marked)
  BY DEF WakeDone, marks
<1> HIDE DEF done
<1>5. n \in Monitor
  BY <1>2, <1>4, Continued
<1>6. n = Idle \/ \E to \in {"mark", "wakes", "bars"} : n = [done EXCEPT !.at = to]
  BY <1>4 DEF Continue
<1>7. ASSUME NEW to \in {"mark", "wakes", "bars"}, n = [done EXCEPT !.at = to]
      PROVE  n.at = to /\ n.barsHeld = done.barsHeld /\ n.lastBar = done.lastBar /\ n.first = done.first
  BY <1>2, <1>7 DEF Monitor
<1>8. QED
  BY <1>3, <1>5, <1>6, <1>7

\* A wake that was sent, or may never be, leaves its mark, and the tick is not
\* over before the mark is stored.
MarkLeft(n, m, w) ==
  /\ n.at \in {"mark", "wakes"} /\ n.marked
  /\ n.barsHeld = m.barsHeld /\ n.fired = m.fired /\ n.quiet = m.quiet
  /\ n.toWake = m.toWake \ {w}
  /\ n.durable = [v \in Wires |-> IF v = w THEN m.barsHeld ELSE m.durable[v]]

LEMMA WakeMarks ==
  ASSUME NEW m \in Monitor, NEW w \in Wires
  PROVE  MarkLeft(WakeDone(m, w, TRUE), m, w)
<1> DEFINE marks == [v \in Wires |-> IF TRUE /\ v = w THEN m.barsHeld ELSE m.durable[v]]
           done == [m EXCEPT !.toWake = m.toWake \ {w}, !.key = NoKey, !.marked = m.marked \/ TRUE,
                             !.durable = marks]
           n == WakeDone(m, w, TRUE)
<1>1. marks = [v \in Wires |-> IF v = w THEN m.barsHeld ELSE m.durable[v]]
  OBVIOUS
<1>2. marks \in Marks
  BY DEF Monitor, Marks
<1> HIDE DEF marks
<1>3. done \in Monitor
  BY <1>2 DEF Monitor
<1>4. /\ done.barsHeld = m.barsHeld /\ done.fired = m.fired /\ done.quiet = m.quiet /\ done.marked
      /\ done.toWake = m.toWake \ {w} /\ done.durable = marks
  BY DEF Monitor
<1>5. n = Continue(done, done.marked)
  BY DEF WakeDone, marks
<1> HIDE DEF done, n
<1>6. \E to \in {"mark", "wakes"} : n = [done EXCEPT !.at = to]
  BY <1>4, <1>5 DEF Continue
<1>7. ASSUME NEW to \in {"mark", "wakes"}, n = [done EXCEPT !.at = to]
      PROVE  /\ n.at = to /\ n.barsHeld = done.barsHeld /\ n.fired = done.fired /\ n.quiet = done.quiet
             /\ n.marked = done.marked /\ n.toWake = done.toWake /\ n.durable = done.durable
  BY <1>3, <1>7 DEF Monitor
<1>8. QED
  BY <1>1, <1>4, <1>6, <1>7 DEF MarkLeft, n

\* The recorded wakes are numbered from 1, and one more leaves the rest as
\* they were.
LEMMA Recorded ==
  ASSUME NEW s \in Seq(WakeEvent)
  PROVE  /\ Len(s) \in Nat /\ DOMAIN s = 1..Len(s) /\ IsFiniteSet(DOMAIN s)
         /\ \A i \in DOMAIN s : s[i] \in WakeEvent
         /\ \A e \in WakeEvent :
              /\ Append(s, e) \in Seq(WakeEvent)
              /\ DOMAIN Append(s, e) = DOMAIN s \cup {Len(s) + 1}
              /\ Len(s) + 1 \notin DOMAIN s
              /\ \A i \in DOMAIN s : Append(s, e)[i] = s[i] /\ i < Len(s) + 1
              /\ Append(s, e)[Len(s) + 1] = e
<1>1. Len(s) \in Nat /\ DOMAIN s = 1..Len(s)
  OBVIOUS
<1>2. IsFiniteSet(DOMAIN s)
  BY <1>1, FS_Interval
<1>3. QED
  BY <1>1, <1>2

-----------------------------------------------------------------------------
(* The row: its type, the bars that were judged and the gaps.              *)

LEMMA InitRow == Init => RowInv
<1> SUFFICES ASSUME Init PROVE RowInv
  OBVIOUS
<1> USE DEF Init
<1>1. Unmarked \in Marks /\ 0 \in Bars /\ FirstStop \in Levels
  BY MonitorAssumption DEF Unmarked, Marks, Bars
<1>2. position \in PositionRow
  BY <1>1, MonitorAssumption DEF PositionRow
<1>3. wakeRun \in [WakeKeys -> WakeRun]
  BY <1>1 DEF WakeRun, RunStates
<1>4. TypeOK
  BY <1>1, <1>2, <1>3, IdleMonitor, MonitorAssumption DEF TypeOK
<1>5. Cardinality(judged) = 0
  BY FS_EmptySet
<1>6. (EntryBar + 1)..position.lastBar = {}
  BY MonitorAssumption
<1>7. QED
  BY <1>4, <1>5, <1>6, IdleMonitor
     DEF RowInv, CopyCounts, HeldBars, JudgedOnce, WindowReaches, GapsAreSeen, Ticking

Late(m) == m.at \in {"bars", "wakes", "record", "attention", "mark"}

\* A step that judges no bar and keeps the tick's copy, or ends the tick.
LEMMA RowKept ==
  ASSUME RowInv, TypeOK', judged' = judged,
         position'.status = position.status \/ position'.status = "closed",
         position'.barsHeld = position.barsHeld, position'.lastBar = position.lastBar,
         position.needsAttention => position'.needsAttention,
         \/ mon'.at = "idle"
         \/ /\ Ticking /\ (Late(mon)' => Late(mon))
            /\ mon'.barsHeld = mon.barsHeld /\ mon'.lastBar = mon.lastBar /\ mon'.first = mon.first
  PROVE  RowInv'
<1>1. position.status \in {"open", "closed"}
  BY DEF RowInv, TypeOK, PositionRow
<1>2. Open' => Open
  BY <1>1 DEF Open
<1>3. PrevBar' = PrevBar \/ mon'.at = "idle"
  BY DEF PrevBar
<1>4. CopyCounts' /\ HeldBars' /\ JudgedOnce' /\ GapsAreSeen'
  BY <1>2 DEF RowInv, CopyCounts, HeldBars, JudgedOnce, GapsAreSeen, Open, Ticking
<1>5. WindowReaches'
  BY <1>2, <1>3 DEF RowInv, WindowReaches, Open, Ticking, Late
<1>6. QED
  BY <1>4, <1>5 DEF RowInv

LEMMA StartTickRow == RowInv /\ StartTick => RowInv'
<1> SUFFICES ASSUME RowInv, StartTick PROVE RowInv'
  OBVIOUS
<1> USE DEF StartTick
<1>1. position \in PositionRow /\ Idle \in Monitor
  BY IdleMonitor DEF RowInv, TypeOK
<1>2. /\ mon' \in Monitor
      /\ mon'.at = "reconcile" /\ mon'.barsHeld = position.barsHeld /\ mon'.lastBar = position.lastBar
  BY <1>1 DEF PositionRow, Monitor
<1>3. TypeOK'
  BY <1>2 DEF RowInv, TypeOK
<1>4. QED
  BY <1>2, <1>3
     DEF RowInv, CopyCounts, HeldBars, JudgedOnce, WindowReaches, GapsAreSeen, Open, Ticking

LEMMA ReconcileRow == RowInv /\ (ReconcileFailedWakes \/ ReconcileFails) => RowInv'
<1> SUFFICES ASSUME RowInv, ReconcileFailedWakes \/ ReconcileFails PROVE RowInv'
  OBVIOUS
<1>1. TypeOK
  BY DEF RowInv
<1>2. /\ mon' \in Monitor /\ mon'.at = "feed" /\ mon.at = "reconcile"
      /\ mon'.barsHeld = mon.barsHeld /\ mon'.lastBar = mon.lastBar /\ mon'.first = mon.first
  <2>1. mon.at = "reconcile" /\ mon' = [mon EXCEPT !.at = "feed"] /\ mon \in Monitor
    BY <1>1 DEF TypeOK, ReconcileFailedWakes, ReconcileFails
  <2>2. mon' \in Monitor
    BY <2>1 DEF Monitor
  <2>3. QED
    BY <2>1 DEF Monitor
<1>3. CASE ReconcileFailedWakes
  <2> USE <1>3 DEF ReconcileFailedWakes
  <2>1. Unanswered \subseteq DOMAIN wakeEvents /\ IsFiniteSet(DOMAIN wakeEvents)
    BY <1>1, Recorded DEF TypeOK, Unanswered
  <2>2. Cardinality(Unanswered) \in Nat
    BY <2>1, FS_Subset, FS_CardinalityType
  <2>3. position.failedWakes + Cardinality(Unanswered) \in Nat
    BY <1>1, <2>2 DEF TypeOK, PositionRow
  <2>4. /\ position' \in PositionRow /\ position'.status = position.status
        /\ position'.barsHeld = position.barsHeld /\ position'.lastBar = position.lastBar
        /\ position.needsAttention => position'.needsAttention
    BY <1>1, <2>3 DEF TypeOK, PositionRow
  <2>5. wakeEvents' \in Seq(WakeEvent)
    <3>1. Len(wakeEvents) \in Nat /\ DOMAIN wakeEvents = 1..Len(wakeEvents)
      BY <1>1, Recorded DEF TypeOK
    <3>2. \A i \in DOMAIN wakeEvents :
            [wakeEvents[i] EXCEPT !.counted = @ \/ i \in Unanswered] \in WakeEvent
      <4> SUFFICES ASSUME NEW i \in DOMAIN wakeEvents
                   PROVE  [wakeEvents[i] EXCEPT !.counted = @ \/ i \in Unanswered] \in WakeEvent
        OBVIOUS
      <4>1. wakeEvents[i] \in WakeEvent
        BY <1>1, Recorded DEF TypeOK
      <4>2. QED
        BY <4>1 DEF WakeEvent
    <3>3. QED
      BY <3>1, <3>2
  <2>6. TypeOK'
    BY <1>1, <1>2, <2>4, <2>5 DEF TypeOK
  <2>7. QED
    BY <1>2, <2>4, <2>6, RowKept DEF Ticking, Late
<1>4. CASE ReconcileFails
  <2> USE <1>4 DEF ReconcileFails
  <2>1. faults' \in 0..Faults
    BY <1>1, MonitorAssumption DEF TypeOK
  <2>2. TypeOK'
    BY <1>1, <1>2, <2>1 DEF TypeOK
  <2>3. QED
    BY <1>2, <2>2, RowKept DEF Ticking, Late
<1>5. QED
  BY <1>3, <1>4

LEMMA FeedFailsRow == RowInv /\ FeedFails => RowInv'
<1> SUFFICES ASSUME RowInv, FeedFails PROVE RowInv'
  OBVIOUS
<1>1. TypeOK'
  BY IdleMonitor DEF RowInv, TypeOK, FeedFails
<1>2. QED
  BY <1>1, IdleMonitor, RowKept DEF FeedFails

\* The window the feed serves reaches back to the last judged bar, or the row
\* asks for attention.
LEMMA FeedAnswersRow == RowInv /\ FeedAnswers => RowInv'
<1> SUFFICES ASSUME RowInv, FeedAnswers PROVE RowInv'
  OBVIOUS
<1> USE DEF FeedAnswers
<1>1. TypeOK /\ newest \in Int /\ Window \in Int
  BY MonitorAssumption DEF RowInv, TypeOK, Bars
<1> DEFINE first == newest - Window + 1
<1>2. first \in Int
  BY <1>1
<1>3. /\ position' = [position EXCEPT !.needsAttention = @ \/ GapBefore(first)]
      /\ mon' = [mon EXCEPT !.at = "bars", !.first = first, !.last = newest]
  OBVIOUS
<1> HIDE DEF first
<1>4. /\ mon' \in Monitor /\ mon'.at = "bars" /\ mon'.first = first
      /\ mon'.barsHeld = mon.barsHeld /\ mon'.lastBar = mon.lastBar
  <2>1. mon \in Monitor /\ newest \in Bars
    BY <1>1 DEF TypeOK
  <2>2. ASSUME NEW q, q = [mon EXCEPT !.at = "bars", !.first = first, !.last = newest]
        PROVE  /\ q \in Monitor /\ q.at = "bars" /\ q.first = first
               /\ q.barsHeld = mon.barsHeld /\ q.lastBar = mon.lastBar
    BY <1>2, <2>1, <2>2 DEF Monitor
  <2>3. QED
    BY <1>3, <2>2
<1>5. GapBefore(first) \in BOOLEAN
  BY DEF GapBefore
<1>6. /\ position' \in PositionRow /\ position'.status = position.status
      /\ position'.barsHeld = position.barsHeld /\ position'.lastBar = position.lastBar
      /\ position'.needsAttention = (position.needsAttention \/ GapBefore(first))
  BY <1>1, <1>3, <1>5 DEF TypeOK, PositionRow
<1>7. TypeOK'
  BY <1>1, <1>4, <1>6 DEF TypeOK
<1>8. PrevBar' = PrevBar /\ PrevBar \in Int
  BY <1>1, <1>4, MonitorAssumption DEF PrevBar, TypeOK, Monitor, Bars
<1>9. judged' = judged /\ mon.at = "feed"
  OBVIOUS
<1> HIDE DEF FeedAnswers
<1>10. WindowReaches'
  <2>1. GapBefore(first) \/ first <= PrevBar + 1
    BY <1>2, <1>8 DEF GapBefore
  <2>2. mon'.first <= PrevBar' + 1 \/ position'.needsAttention
    BY <2>1, <1>4, <1>6, <1>8
  <2>3. QED
    BY <2>2 DEF WindowReaches
<1>11. CopyCounts' /\ HeldBars' /\ JudgedOnce'
  BY <1>4, <1>6, <1>9 DEF RowInv, CopyCounts, HeldBars, JudgedOnce, Open, Ticking
<1>12. GapsAreSeen'
  BY <1>6, <1>9 DEF RowInv, GapsAreSeen
<1>13. QED
  BY <1>7, <1>10, <1>11, <1>12 DEF RowInv

\* The next bar is a completed one that was not judged.
LEMMA NextBarIsNew ==
  ASSUME RowInv, mon.at = "bars", NextBar <= mon.last
  PROVE  /\ NextBar \in 1..LastBar
         /\ mon.lastBar < NextBar
         /\ Open => NextBar \notin judged /\ mon.barsHeld + 1 \in Bars /\ mon.barsHeld + 1 <= NextBar
<1>1. /\ mon.lastBar \in Nat /\ mon.barsHeld \in Nat /\ mon.first \in Int /\ mon.last \in Bars /\ LastBar \in Nat
      /\ \A b \in Bars : b \in Nat /\ b <= LastBar
  BY MonitorAssumption DEF RowInv, TypeOK, Monitor, Bars
<1>2. NextBar \in Int /\ mon.lastBar < NextBar
  BY <1>1 DEF NextBar
<1>3. NextBar \in 1..LastBar
  BY <1>1, <1>2
<1>4. ASSUME Open
      PROVE  NextBar \notin judged /\ mon.barsHeld + 1 \in Bars /\ mon.barsHeld + 1 <= NextBar
  <2>1. mon.barsHeld = position.barsHeld /\ mon.lastBar = position.lastBar /\ position.barsHeld <= position.lastBar
    BY <1>4 DEF RowInv, CopyCounts, HeldBars, Ticking
  <2>2. \A b \in judged : b <= position.lastBar
    BY <1>4 DEF RowInv, JudgedOnce, Open
  <2>3. QED
    BY <1>1, <1>2, <2>1, <2>2 DEF Bars
<1>5. QED
  BY <1>2, <1>3, <1>4

LEMMA JudgeExitRow == RowInv /\ JudgeExit => RowInv'
<1> SUFFICES ASSUME RowInv, JudgeExit PROVE RowInv'
  OBVIOUS
<1> USE DEF JudgeExit
<1>1. TypeOK
  BY DEF RowInv
<1>2. NextBar \in 1..LastBar
  BY NextBarIsNew
<1>3. /\ position' \in PositionRow /\ position'.status = "closed"
      /\ position'.lastBar = position.lastBar /\ position'.needsAttention = position.needsAttention
  BY <1>1 DEF TypeOK, PositionRow, Closed
<1>4. judged \subseteq judged' /\ judged' \subseteq 1..LastBar
  BY <1>1, <1>2 DEF TypeOK
<1>5. TypeOK'
  BY <1>1, <1>3, <1>4, IdleMonitor DEF TypeOK
<1>6. ~Open'
  BY <1>3 DEF Open
<1>7. GapsAreSeen'
  BY <1>3, <1>4 DEF RowInv, GapsAreSeen
<1>8. QED
  BY <1>3, <1>5, <1>6, <1>7 DEF RowInv, CopyCounts, HeldBars, JudgedOnce, WindowReaches, Open

\* What a held bar leaves in the tick's copy.
LEMMA HeldCopy ==
  ASSUME RowInv, NEW stop \in Levels, NEW fires \in SUBSET (mon.wires \ StaleWires), JudgeHold(stop, fires), Open
  PROVE  /\ mon' \in Monitor
         /\ mon'.at = IF fires = {} THEN "bars" ELSE "wakes"
         /\ mon'.barsHeld = mon.barsHeld + 1 /\ mon'.lastBar = NextBar /\ mon'.first = mon.first
         /\ mon'.durable = mon.durable /\ mon'.toWake = fires
         /\ mon'.fired = [w \in Wires |-> IF w \in fires THEN mon.barsHeld + 1 ELSE mon.fired[w]]
         /\ mon'.quiet = mon.quiet /\ mon'.marked = mon.marked
         /\ position' \in PositionRow /\ position'.status = "open"
         /\ position'.barsHeld = mon.barsHeld + 1 /\ position'.lastBar = NextBar
         /\ position'.needsAttention = position.needsAttention
         /\ position'.lastFired =
              [w \in Wires |-> IF mon.durable[w] = Never THEN position.lastFired[w] ELSE mon.durable[w]]
         /\ judged' = judged \cup {NextBar}
<1> DEFINE held == mon.barsHeld + 1
           marks == [w \in Wires |-> IF w \in fires THEN held ELSE mon.fired[w]]
           stepped == [mon EXCEPT
             !.at = IF fires = {} THEN "bars" ELSE "wakes",
             !.stop = Tighter(position.stop, stop), !.barsHeld = held, !.lastBar = NextBar,
             !.fired = marks, !.newBars = TRUE, !.toWake = fires]
           copy == [stepped EXCEPT !.stop = stop]
<1>1. /\ mon' = stepped /\ position' = Saved(position, copy) /\ judged' = judged \cup {NextBar}
  BY DEF JudgeHold, Open
<1>2. mon \in Monitor /\ position \in PositionRow /\ fires \in SUBSET Wires
  BY DEF RowInv, TypeOK, Monitor
<1>3. held \in Bars /\ NextBar \in Bars
  BY NextBarIsNew DEF JudgeHold, Bars
<1>4. marks \in Marks
  BY <1>2, <1>3 DEF Monitor, Marks
<1>5. Tighter(position.stop, stop) \in Levels
  BY <1>2, Tightened DEF PositionRow
<1>6. mon.durable \in Marks
  BY <1>2 DEF Monitor
<1> HIDE DEF held, marks
<1>7. /\ stepped \in Monitor
      /\ stepped.at = IF fires = {} THEN "bars" ELSE "wakes"
      /\ stepped.barsHeld = held /\ stepped.lastBar = NextBar /\ stepped.first = mon.first
      /\ stepped.durable = mon.durable /\ stepped.toWake = fires /\ stepped.fired = marks
      /\ stepped.quiet = mon.quiet /\ stepped.marked = mon.marked
  BY <1>2, <1>3, <1>4, <1>5 DEF Monitor
<1> HIDE DEF stepped
<1>8. /\ copy.stop = stop /\ copy.barsHeld = held /\ copy.lastBar = NextBar /\ copy.durable = mon.durable
  BY <1>7 DEF Monitor
<1> HIDE DEF copy
<1>9. /\ position' \in PositionRow /\ position'.status = position.status
      /\ position'.barsHeld = held /\ position'.lastBar = NextBar
      /\ position'.needsAttention = position.needsAttention
      /\ position'.lastFired =
           [w \in Wires |-> IF mon.durable[w] = Never THEN position.lastFired[w] ELSE mon.durable[w]]
  BY <1>1, <1>2, <1>3, <1>6, <1>8, SavedRow DEF Open
<1>10. QED
  BY <1>1, <1>7, <1>9 DEF held, marks, Open

LEMMA JudgeHoldRow ==
  ASSUME RowInv, NEW stop \in Levels, NEW fires \in SUBSET (mon.wires \ StaleWires), JudgeHold(stop, fires)
  PROVE  RowInv'
<1>1. TypeOK /\ mon.at = "bars" /\ NextBar <= mon.last /\ Ticking
  BY DEF RowInv, JudgeHold, Ticking
<1>2. UNCHANGED <<wakeEvents, wakeRun, agent, newest, forgotten, faults>>
  BY DEF JudgeHold
<1>3. CASE ~Open
  <2>1. position.status = "closed" /\ position \in PositionRow
    BY <1>1, <1>3 DEF TypeOK, PositionRow, Open
  <2>2. judged' = judged /\ mon' = Idle
    BY <2>1 DEF JudgeHold
  <2>3. position' = position
    BY <2>1 DEF JudgeHold, Saved
  <2>4. TypeOK'
    BY <1>1, <1>2, <2>2, <2>3, IdleMonitor DEF TypeOK
  <2>5. QED
    BY <2>2, <2>3, <2>4, IdleMonitor, RowKept
<1>4. CASE Open
  <2>1. /\ mon' \in Monitor /\ mon'.barsHeld = mon.barsHeld + 1 /\ mon'.lastBar = NextBar /\ mon'.first = mon.first
        /\ position' \in PositionRow /\ position'.status = "open"
        /\ position'.barsHeld = mon.barsHeld + 1 /\ position'.lastBar = NextBar
        /\ position'.needsAttention = position.needsAttention
        /\ judged' = judged \cup {NextBar}
    BY <1>4, HeldCopy
  <2>2. /\ NextBar \in 1..LastBar /\ mon.lastBar < NextBar
        /\ NextBar \notin judged /\ mon.barsHeld + 1 <= NextBar
    BY <1>1, <1>4, NextBarIsNew
  <2>3. TypeOK'
    BY <1>1, <1>2, <2>1, <2>2 DEF TypeOK
  <2>4. mon.barsHeld = position.barsHeld /\ mon.lastBar = position.lastBar
    BY <1>1, <1>4 DEF RowInv, CopyCounts
  <2>5. JudgedOnce'
    <3>1. position.barsHeld = Cardinality(judged) /\ \A b \in judged : b <= position.lastBar
      BY <1>4 DEF RowInv, JudgedOnce, Open
    <3>2. judged \subseteq 1..LastBar /\ LastBar \in Nat /\ position.lastBar \in Int
      BY <1>1, MonitorAssumption DEF TypeOK, PositionRow, Bars
    <3>3. IsFiniteSet(judged)
      <4>1. IsFiniteSet(1..LastBar)
        BY <3>2, FS_Interval
      <4>2. QED
        BY <3>2, <4>1, FS_Subset
    <3>4. Cardinality(judged') = Cardinality(judged) + 1
      BY <2>1, <2>2, <3>3, FS_AddElement
    <3>5. \A b \in judged' : b <= NextBar
      BY <2>1, <2>2, <2>4, <3>1, <3>2
    <3>6. QED
      BY <2>1, <2>4, <3>1, <3>4, <3>5 DEF JudgedOnce
  <2>6. mon.first \in Int /\ EntryBar \in {0, 1} /\ mon.lastBar \in Nat /\ position.lastBar \in Nat
    BY <1>1, MonitorAssumption DEF TypeOK, Monitor, PositionRow, Bars
  <2>7. mon.first <= PrevBar + 1 \/ position.needsAttention
    BY <1>1, <1>4 DEF RowInv, WindowReaches
  <2>8. GapsAreSeen'
    <3>1. CASE position.needsAttention
      BY <2>1, <3>1 DEF GapsAreSeen
    <3>2. CASE ~position.needsAttention
      <4>1. ((EntryBar + 1)..position.lastBar) \subseteq judged
        BY <3>2 DEF RowInv, GapsAreSeen
      <4>2. NextBar <= PrevBar + 1
        BY <2>6, <2>7, <3>2 DEF NextBar, PrevBar
      <4>3. \A b \in (EntryBar + 1)..NextBar : b \in judged \/ b = NextBar
        <5>1. ASSUME NEW b \in (EntryBar + 1)..NextBar, b # NextBar PROVE b \in (EntryBar + 1)..position.lastBar
          BY <2>2, <2>4, <2>6, <4>2, <5>1 DEF PrevBar
        <5>2. QED
          BY <4>1, <5>1
      <4>4. QED
        BY <2>1, <4>3 DEF GapsAreSeen
    <3>3. QED
      BY <3>1, <3>2
  <2>9. WindowReaches'
    <3>1. PrevBar' = NextBar
      BY <2>1, <2>2 DEF PrevBar
    <3>2. mon.first <= NextBar + 1
      BY <2>6 DEF NextBar
    <3>3. QED
      BY <2>1, <3>1, <3>2 DEF WindowReaches
  <2>10. QED
    BY <2>1, <2>2, <2>3, <2>5, <2>8, <2>9 DEF RowInv, CopyCounts, HeldBars, Open
<1>5. QED
  BY <1>3, <1>4

LEMMA FinishBarsRow ==
  ASSUME RowInv, NEW fires \in SUBSET (mon.wires \cap StaleWires), FinishBars(fires)
  PROVE  RowInv'
<1> USE DEF FinishBars
<1>1. TypeOK /\ fires \in SUBSET Wires
  BY DEF RowInv, TypeOK, Monitor
<1>2. /\ mon' \in Monitor
      /\ \/ mon'.at = "idle"
         \/ /\ mon'.at = "wakes" /\ mon.at = "bars"
            /\ mon'.barsHeld = mon.barsHeld /\ mon'.lastBar = mon.lastBar /\ mon'.first = mon.first
  BY <1>1, IdleMonitor DEF TypeOK, Monitor
<1>3. TypeOK'
  BY <1>1, <1>2 DEF TypeOK
<1>4. QED
  BY <1>2, <1>3, RowKept DEF Ticking, Late

\* After a wake, whatever it was, the row's counters are the tick's.
LEMMA WakeDoneRow ==
  ASSUME RowInv, NEW w \in Wires, NEW ok \in BOOLEAN, mon' = WakeDone(mon, w, ok), Late(mon),
         TypeOK', judged' = judged, position'.status = position.status,
         position'.barsHeld = position.barsHeld, position'.lastBar = position.lastBar,
         position.needsAttention => position'.needsAttention
  PROVE  RowInv'
<1>1. mon \in Monitor
  BY DEF RowInv, TypeOK
<1>2. \/ mon'.at = "idle"
      \/ mon'.barsHeld = mon.barsHeld /\ mon'.lastBar = mon.lastBar /\ mon'.first = mon.first
  <2>1. mon' = Idle => mon'.at = "idle"
    BY IdleMonitor
  <2>2. QED
    BY <1>1, <2>1, WakeDoneKeeps
<1>3. QED
  BY <1>2, RowKept DEF Ticking, Late

LEMMA SkipWakeRow ==
  ASSUME RowInv, NEW w \in Wires, SkipWake(w)
  PROVE  RowInv'
<1>1. mon' \in Monitor
  BY WakeDoneKeeps DEF RowInv, TypeOK, SkipWake
<1>2. TypeOK'
  BY <1>1 DEF RowInv, TypeOK, SkipWake
<1>3. QED
  BY <1>2, WakeDoneRow DEF SkipWake, Late

\* The key of the wake for tripwire w.
KeyOf(w) == <<w, IF mon.quiet THEN mon.last ELSE mon.lastBar>>

\* What an enqueue does: a key that is free takes a run, and a run that no agent
\* matched asks for attention where any other is recorded.
LEMMA Enqueued ==
  ASSUME TypeOK, NEW w \in Wires, EnqueueWake(w)
  PROVE  /\ KeyOf(w) \in WakeKeys
         /\ wakeRun' \in [WakeKeys -> WakeRun]
         /\ \A k \in WakeKeys : k # KeyOf(w) \/ wakeRun[k].status # "none" => wakeRun'[k] = wakeRun[k]
         /\ wakeRun'[KeyOf(w)].status # "none"
         /\ mon' \in Monitor /\ Sending' /\ mon'.key = KeyOf(w)
         /\ mon'.barsHeld = mon.barsHeld /\ mon'.lastBar = mon.lastBar /\ mon'.first = mon.first
         /\ mon'.durable = mon.durable /\ mon'.fired = mon.fired /\ mon'.toWake = mon.toWake
         /\ mon'.quiet = mon.quiet /\ mon'.marked = mon.marked
<1> DEFINE status == IF wakeRun[KeyOf(w)].status # "none" THEN wakeRun[KeyOf(w)].status
                     ELSE IF agent = "moved" THEN "unmatched" ELSE "pending"
           run == [status |-> status, stop |-> mon.stop]
           to == IF status = "unmatched" THEN "attention" ELSE "record"
<1>1. /\ wakeRun' = IF wakeRun[KeyOf(w)].status # "none" THEN wakeRun
                    ELSE [wakeRun EXCEPT ![KeyOf(w)] = run]
      /\ mon' = [mon EXCEPT !.at = to, !.key = KeyOf(w)]
  BY DEF EnqueueWake, KeyOf
<1>2. KeyOf(w) \in WakeKeys /\ mon \in Monitor
  BY DEF KeyOf, WakeKeys, TypeOK, Monitor
<1>3. status \in RunStates \ {"none"} /\ mon.stop \in Levels
  BY <1>2 DEF TypeOK, Monitor, WakeRun, RunStates
<1>4. run \in WakeRun /\ run.status # "none"
  BY <1>3 DEF WakeRun
<1>5. to = "record" \/ to = "attention"
  OBVIOUS
<1> HIDE DEF run, to
<1>6. /\ wakeRun' \in [WakeKeys -> WakeRun]
      /\ \A k \in WakeKeys : k # KeyOf(w) \/ wakeRun[k].status # "none" => wakeRun'[k] = wakeRun[k]
      /\ wakeRun'[KeyOf(w)].status # "none"
  BY <1>1, <1>2, <1>4 DEF TypeOK
<1>7. mon' \in Monitor /\ mon'.at = to /\ mon'.key = KeyOf(w)
  BY <1>1, <1>2, <1>5 DEF Monitor
<1>8. /\ mon'.barsHeld = mon.barsHeld /\ mon'.lastBar = mon.lastBar /\ mon'.first = mon.first
      /\ mon'.durable = mon.durable /\ mon'.fired = mon.fired /\ mon'.toWake = mon.toWake
      /\ mon'.quiet = mon.quiet /\ mon'.marked = mon.marked
  BY <1>1, <1>2 DEF Monitor
<1>9. QED
  BY <1>2, <1>5, <1>6, <1>7, <1>8 DEF Sending

LEMMA EnqueueWakeRow ==
  ASSUME RowInv, NEW w \in Wires, EnqueueWake(w)
  PROVE  RowInv'
<1>1. /\ TypeOK /\ mon.at = "wakes"
      /\ UNCHANGED <<position, wakeEvents, agent, newest, judged, forgotten, faults>>
  BY DEF RowInv, EnqueueWake
<1>2. /\ wakeRun' \in [WakeKeys -> WakeRun] /\ mon' \in Monitor
      /\ mon'.barsHeld = mon.barsHeld /\ mon'.lastBar = mon.lastBar /\ mon'.first = mon.first
  BY <1>1, Enqueued
<1>3. TypeOK'
  BY <1>1, <1>2 DEF TypeOK
<1>4. QED
  BY <1>1, <1>2, <1>3, RowKept DEF Ticking, Late

LEMMA RaiseAttentionRow ==
  ASSUME RowInv, RaiseAttention, mon.key \in WakeKeys
  PROVE  RowInv'
<1>1. /\ TypeOK /\ mon.at = "attention" /\ position' = [position EXCEPT !.needsAttention = TRUE]
      /\ UNCHANGED <<wakeEvents, wakeRun, agent, newest, judged, forgotten, faults>>
  BY DEF RowInv, RaiseAttention
<1>2. PICK w \in Wires : mon' = WakeDone(mon, w, TRUE)
  <2>1. mon.key[1] \in Wires
    BY DEF WakeKeys
  <2>2. QED
    BY <2>1 DEF RaiseAttention
<1>3. mon' \in Monitor
  BY <1>1, <1>2, WakeDoneKeeps DEF TypeOK
<1>4. /\ position' \in PositionRow /\ position'.status = position.status
      /\ position'.barsHeld = position.barsHeld /\ position'.lastBar = position.lastBar
      /\ position'.needsAttention
  BY <1>1 DEF TypeOK, PositionRow
<1>5. TypeOK'
  BY <1>1, <1>3, <1>4 DEF TypeOK
<1>6. QED
  BY <1>1, <1>2, <1>4, <1>5, WakeDoneRow DEF Late

\* The event a record appends.
NewEvent == [key |-> mon.key, at |-> newest, barsHeld |-> mon.barsHeld, counted |-> FALSE]

LEMMA RecordWakeRow ==
  ASSUME RowInv, RecordWake, mon.key \in WakeKeys
  PROVE  RowInv'
<1>1. TypeOK /\ mon.at = "record" /\ UNCHANGED <<wakeRun, agent, newest, judged, forgotten, faults>>
  BY DEF RowInv, RecordWake
<1>2. PICK w \in Wires : mon' = WakeDone(mon, w, TRUE)
  <2>1. mon.key[1] \in Wires
    BY DEF WakeKeys
  <2>2. QED
    BY <2>1 DEF RecordWake
<1>3. \/ UNCHANGED <<position, wakeEvents>>
      \/ position' = [position EXCEPT !.wakes = @ + 1] /\ wakeEvents' = Append(wakeEvents, NewEvent)
  BY DEF RecordWake, NewEvent
<1>4. mon' \in Monitor
  BY <1>1, <1>2, WakeDoneKeeps DEF TypeOK
<1>5. NewEvent \in WakeEvent
  BY <1>1 DEF NewEvent, WakeEvent, TypeOK, Monitor
<1>6. wakeEvents' \in Seq(WakeEvent)
  <2>1. Append(wakeEvents, NewEvent) \in Seq(WakeEvent)
    BY <1>1, <1>5 DEF TypeOK
  <2>2. QED
    BY <1>1, <1>3, <2>1 DEF TypeOK
<1>7. /\ position' \in PositionRow /\ position'.status = position.status
      /\ position'.barsHeld = position.barsHeld /\ position'.lastBar = position.lastBar
      /\ position.needsAttention => position'.needsAttention
  <2>1. position \in PositionRow
    BY <1>1 DEF TypeOK
  <2>2. CASE position' = position
    BY <2>1, <2>2
  <2>3. CASE position' = [position EXCEPT !.wakes = @ + 1]
    BY <2>1, <2>3 DEF PositionRow
  <2>4. QED
    BY <1>3, <2>2, <2>3
<1>8. forgotten' \subseteq DOMAIN wakeEvents'
  <2>1. DOMAIN wakeEvents \subseteq DOMAIN Append(wakeEvents, NewEvent)
    BY <1>1, <1>5, Recorded DEF TypeOK
  <2>2. QED
    BY <1>1, <1>3, <2>1 DEF TypeOK
<1>9. TypeOK'
  BY <1>1, <1>4, <1>6, <1>7, <1>8 DEF TypeOK
<1>10. QED
  BY <1>1, <1>2, <1>7, <1>9, WakeDoneRow DEF Late

LEMMA SaveMarksRow == RowInv /\ SaveMarks => RowInv'
<1> SUFFICES ASSUME RowInv, SaveMarks PROVE RowInv'
  OBVIOUS
<1> USE DEF SaveMarks
<1> DEFINE m == [mon EXCEPT !.marked = FALSE]
<1>1. TypeOK
  BY DEF RowInv
<1>2. /\ m \in Monitor /\ m.barsHeld = mon.barsHeld /\ m.lastBar = mon.lastBar /\ m.first = mon.first
  BY <1>1 DEF TypeOK, Monitor
<1>3. mon' = Continue(m, FALSE)
  OBVIOUS
<1> HIDE DEF m
<1>4. /\ mon' \in Monitor
      /\ \/ mon'.at = "idle"
         \/ mon'.barsHeld = mon.barsHeld /\ mon'.lastBar = mon.lastBar /\ mon'.first = mon.first
  <2>1. mon' \in Monitor /\ (mon' = Idle \/ \E to \in {"mark", "wakes", "bars"} : mon' = [m EXCEPT !.at = to])
    BY <1>2, <1>3, Continued
  <2>2. ASSUME mon' = Idle PROVE mon'.at = "idle"
    <3>1. Idle.at = "idle"
      BY DEF Idle
    <3> HIDE DEF Idle
    <3>2. QED
      BY <2>2, <3>1
  <2>3. ASSUME NEW to, mon' = [m EXCEPT !.at = to]
        PROVE  mon'.barsHeld = mon.barsHeld /\ mon'.lastBar = mon.lastBar /\ mon'.first = mon.first
    BY <1>2, <2>3 DEF Monitor
  <2>4. QED
    BY <2>1, <2>2, <2>3
<1>5. /\ position' \in PositionRow /\ position'.status = position.status
      /\ position'.needsAttention = position.needsAttention
      /\ position'.barsHeld = position.barsHeld /\ position'.lastBar = position.lastBar
  <2>1. mon.stop \in Levels /\ mon.barsHeld \in Bars /\ mon.lastBar \in Bars /\ mon.durable \in Marks
    BY <1>1 DEF TypeOK, Monitor
  <2>2. position \in PositionRow /\ position.status \in {"open", "closed"}
    BY <1>1 DEF TypeOK, PositionRow
  <2>3. Open => mon.barsHeld = position.barsHeld /\ mon.lastBar = position.lastBar
    BY DEF RowInv, CopyCounts, Ticking
  <2>4. QED
    BY <2>1, <2>2, <2>3, SavedRow DEF Open
<1>6. TypeOK'
  BY <1>1, <1>4, <1>5 DEF TypeOK
<1>7. QED
  BY <1>4, <1>5, <1>6, RowKept DEF Ticking, Late

LEMMA ResolvedRuns ==
  ASSUME TypeOK, NEW k \in WakeKeys, NEW status \in RunStates, Resolve(k, status)
  PROVE  /\ wakeRun' \in [WakeKeys -> WakeRun]
         /\ wakeRun'[k].status = status
         /\ \A l \in WakeKeys \ {k} : wakeRun'[l] = wakeRun[l]
<1>1. wakeRun \in [WakeKeys -> WakeRun] /\ wakeRun' = [wakeRun EXCEPT ![k].status = status]
  BY DEF TypeOK, Resolve
<1>2. [wakeRun[k] EXCEPT !.status = status] \in WakeRun /\ [wakeRun[k] EXCEPT !.status = status].status = status
  BY <1>1 DEF WakeRun
<1>3. QED
  BY <1>1, <1>2

LEMMA AnswerRow ==
  ASSUME RowInv, NEW k \in WakeKeys, NEW answer \in Answers, NEW level \in Levels,
         NEW replaced \in SUBSET Wires, Answer(k, answer, level, replaced)
  PROVE  /\ RowInv'
         /\ position'.stop >= position.stop
         /\ position.status = "closed" => position'.status = "closed" /\ position'.stop = position.stop
         /\ position'.barsHeld = position.barsHeld /\ position'.lastBar = position.lastBar
         /\ \/ position'.lastFired = position.lastFired /\ forgotten' = forgotten
            \/ position'.lastFired = Unmarked /\ forgotten' = DOMAIN wakeEvents
         /\ position'.status = position.status \/ position'.status = "closed"
<1>1. TypeOK /\ position \in PositionRow
  BY DEF RowInv, TypeOK
<1> DEFINE heard == [position EXCEPT !.failedWakes = 0]
<1>2. /\ heard \in PositionRow /\ heard.status = position.status /\ heard.stop = position.stop
      /\ heard.barsHeld = position.barsHeld /\ heard.lastBar = position.lastBar
      /\ heard.needsAttention = position.needsAttention /\ heard.lastFired = position.lastFired
  BY <1>1 DEF PositionRow
<1>3. position' = IF position.status = "closed" THEN heard
                  ELSE CASE answer = "close" -> Closed(heard)
                         [] answer = "tighten_stop" -> [heard EXCEPT !.stop = Tighter(position.stop, level)]
                         [] answer = "set_tripwires" -> [heard EXCEPT !.wires = replaced, !.lastFired = Unmarked]
                         [] OTHER -> heard
  BY DEF Answer
<1> HIDE DEF heard
<1>4. \/ position' = heard /\ forgotten' = forgotten
      \/ position' = Closed(heard) /\ position.status # "closed" /\ forgotten' = forgotten
      \/ /\ position' = [heard EXCEPT !.stop = Tighter(position.stop, level)]
         /\ position.status # "closed" /\ forgotten' = forgotten
      \/ /\ position' = [heard EXCEPT !.wires = replaced, !.lastFired = Unmarked]
         /\ position.status # "closed" /\ forgotten' = DOMAIN wakeEvents
  <2>1. forgotten' = IF position.status = "open" /\ answer = "set_tripwires" THEN DOMAIN wakeEvents ELSE forgotten
    BY DEF Answer
  <2>2. position.status \in {"open", "closed"}
    BY <1>1 DEF PositionRow
  <2>3. QED
    BY <1>3, <2>1, <2>2
<1>5. Tighter(position.stop, level) \in Levels /\ Tighter(position.stop, level) >= position.stop
  BY <1>1, Tightened DEF PositionRow
<1>6. Unmarked \in Marks /\ position.stop \in Int
  <2>1. Unmarked \in Marks
    BY DEF Unmarked, Marks
  <2>2. position.stop \in Levels
    BY <1>1 DEF PositionRow
  <2>3. position.stop \in Int
    BY <2>2, LevelsAreNumbers
  <2>4. QED
    BY <2>1, <2>3
<1>7. /\ position' \in PositionRow
      /\ position'.status = position.status \/ position'.status = "closed"
      /\ position'.barsHeld = position.barsHeld /\ position'.lastBar = position.lastBar
      /\ position'.needsAttention = position.needsAttention
      /\ position'.stop >= position.stop
      /\ position.status = "closed" => position'.status = "closed" /\ position'.stop = position.stop
      /\ \/ position'.lastFired = position.lastFired /\ forgotten' = forgotten
         \/ position'.lastFired = Unmarked /\ forgotten' = DOMAIN wakeEvents
  <2>1. CASE position' = heard /\ forgotten' = forgotten
    BY <1>2, <1>6, <2>1
  <2>2. CASE position' = Closed(heard) /\ position.status # "closed" /\ forgotten' = forgotten
    BY <1>2, <1>6, <2>2 DEF PositionRow, Closed
  <2>3. CASE /\ position' = [heard EXCEPT !.stop = Tighter(position.stop, level)]
             /\ position.status # "closed" /\ forgotten' = forgotten
    BY <1>2, <1>5, <2>3 DEF PositionRow
  <2>4. CASE /\ position' = [heard EXCEPT !.wires = replaced, !.lastFired = Unmarked]
             /\ position.status # "closed" /\ forgotten' = DOMAIN wakeEvents
    <3>1. /\ position' \in PositionRow
          /\ position'.status = heard.status /\ position'.stop = heard.stop
          /\ position'.barsHeld = heard.barsHeld /\ position'.lastBar = heard.lastBar
          /\ position'.needsAttention = heard.needsAttention /\ position'.lastFired = Unmarked
      BY <1>2, <1>6, <2>4 DEF PositionRow
    <3>2. QED
      BY <1>2, <1>6, <2>4, <3>1
  <2>5. QED
    BY <1>4, <2>1, <2>2, <2>3, <2>4
<1>8. wakeRun' \in [WakeKeys -> WakeRun]
  BY <1>1, ResolvedRuns DEF RunStates, Answer
<1>9. TypeOK' /\ mon' = mon /\ judged' = judged
  BY <1>1, <1>7, <1>8 DEF TypeOK, Answer
<1>10. RowInv'
  BY <1>7, <1>9, RowKept DEF Ticking, Late
<1>11. QED
  BY <1>7, <1>10

LEMMA OthersRow ==
  ASSUME RowInv
  PROVE  /\ \A k \in WakeKeys, status \in {"rejected", "unanswered"} :
              EndWithoutEffect(k, status) => RowInv'
         /\ \A to \in {"on", "off", "moved"} : SwitchAgent(to) => RowInv'
         /\ CompleteBar => RowInv'
         /\ Crash => RowInv'
<1>1. TypeOK
  BY DEF RowInv
<1>2. ASSUME NEW k \in WakeKeys, NEW status \in {"rejected", "unanswered"}, EndWithoutEffect(k, status)
      PROVE  RowInv'
  <2>1. wakeRun' \in [WakeKeys -> WakeRun]
    BY <1>1, <1>2, ResolvedRuns DEF EndWithoutEffect, RunStates
  <2>2. TypeOK'
    BY <1>1, <1>2, <2>1 DEF EndWithoutEffect, TypeOK
  <2>3. QED
    BY <1>2, <2>2, RowKept DEF EndWithoutEffect, Ticking, Late
<1>3. ASSUME NEW to \in {"on", "off", "moved"}, SwitchAgent(to)
      PROVE  RowInv'
  <2>1. TypeOK'
    BY <1>1, <1>3 DEF SwitchAgent, TypeOK
  <2>2. QED
    BY <1>3, <2>1, RowKept DEF SwitchAgent, Ticking, Late
<1>4. ASSUME CompleteBar PROVE RowInv'
  <2>1. newest' \in Bars
    BY <1>1, <1>4, MonitorAssumption DEF CompleteBar, TypeOK, Bars
  <2>2. TypeOK'
    BY <1>1, <1>4, <2>1 DEF CompleteBar, TypeOK
  <2>3. QED
    BY <1>4, <2>2, RowKept DEF CompleteBar, Ticking, Late
<1>5. ASSUME Crash PROVE RowInv'
  <2>1. faults' \in 0..Faults
    BY <1>1, <1>5, MonitorAssumption DEF Crash, TypeOK
  <2>2. forgotten' \subseteq DOMAIN wakeEvents'
    BY <1>1, <1>5 DEF Crash, TypeOK, WithoutMark
  <2>3. TypeOK'
    BY <1>1, <1>5, <2>1, <2>2, IdleMonitor DEF Crash, TypeOK
  <2>4. QED
    BY <1>5, <2>3, IdleMonitor, RowKept DEF Crash
<1>6. QED
  BY <1>2, <1>3, <1>4, <1>5

LEMMA WakeFailsRow ==
  ASSUME RowInv, NEW w \in Wires, WakeFails(w)
  PROVE  RowInv'
<1>1. TypeOK
  BY DEF RowInv
<1>2. PICK ok \in BOOLEAN : mon' = WakeDone(mon, w, ok)
  BY DEF WakeFails
<1>3. mon' \in Monitor
  BY <1>1, <1>2, WakeDoneKeeps DEF TypeOK
<1>4. faults' \in 0..Faults
  BY <1>1, MonitorAssumption DEF WakeFails, TypeOK
<1>5. TypeOK' /\ Late(mon) /\ position' = position /\ judged' = judged
  BY <1>1, <1>3, <1>4 DEF WakeFails, TypeOK, Late
<1>6. QED
  BY <1>2, <1>5, WakeDoneRow

-----------------------------------------------------------------------------
(* The wakes: how many are in flight and how many a day has.               *)

LEMMA InitWakes == Init => WakeInv
<1> SUFFICES ASSUME Init PROVE WakeInv
  OBVIOUS
<1>1. DOMAIN wakeEvents = {} /\ mon.at = "idle"
  BY IdleMonitor DEF Init
<1>2. InFlight = {} /\ \A t \in Bars : WithinDay(t) = {}
  BY <1>1 DEF InFlight, WithinDay
<1>3. Cardinality({}) = 0 /\ MaxWakesPer24h \in Nat
  BY FS_EmptySet, MonitorAssumption
<1>4. OneWakeInFlight
  BY <1>2, <1>3 DEF OneWakeInFlight
<1>5. WakesPerDay
  BY <1>2, <1>3 DEF WakesPerDay
<1>6. QED
  BY <1>1, <1>4, <1>5 DEF WakeInv, RecordedWakes, AboutToRecord, KeyIsKnown, Sending

\* Both counts are of recorded wakes, so they are finite, and fewer wakes count
\* for less.
LEMMA CountsAreFinite ==
  ASSUME NEW s \in Seq(WakeEvent), NEW T \in SUBSET DOMAIN s, NEW S \in SUBSET T
  PROVE  /\ IsFiniteSet(T) /\ IsFiniteSet(S)
         /\ Cardinality(T) \in Nat /\ Cardinality(S) \in Nat
         /\ Cardinality(S) <= Cardinality(T)
<1>1. IsFiniteSet(DOMAIN s)
  BY Recorded
<1>2. IsFiniteSet(T)
  BY <1>1, FS_Subset
<1>3. IsFiniteSet(S) /\ Cardinality(S) <= Cardinality(T)
  BY <1>2, FS_Subset
<1>4. QED
  BY <1>2, <1>3, FS_CardinalityType

LEMMA CountedIndices ==
  /\ InFlight \subseteq DOMAIN wakeEvents
  /\ \A t : WithinDay(t) \subseteq DOMAIN wakeEvents
BY DEF InFlight, WithinDay

\* A run that ended is no longer in flight.
RunsOnlyEnd ==
  \A k \in WakeKeys :
    \/ wakeRun'[k].status = wakeRun[k].status
    \/ wakeRun'[k].status \notin {"none", "pending"}

\* A step that enqueues, records and completes nothing.
LEMMA WakesKept ==
  ASSUME TypeOK, WakeInv, RunsOnlyEnd, newest' = newest,
         DOMAIN wakeEvents' = DOMAIN wakeEvents,
         \A i \in DOMAIN wakeEvents : wakeEvents'[i].key = wakeEvents[i].key /\ wakeEvents'[i].at = wakeEvents[i].at,
         Sending' => mon'.at = mon.at /\ mon'.key = mon.key
  PROVE  WakeInv'
<1>1. \A i \in DOMAIN wakeEvents : wakeEvents[i].key \in WakeKeys
  BY Recorded DEF TypeOK, WakeEvent
<1>2. \A i \in DOMAIN wakeEvents : Status(i)' = Status(i) \/ Status(i)' \notin {"none", "pending"}
  BY <1>1 DEF Status, RunsOnlyEnd
<1>3. InFlight' \subseteq InFlight
  BY <1>2 DEF InFlight
<1>4. \A t : WithinDay(t)' = WithinDay(t)
  BY DEF WithinDay
<1>5. OneWakeInFlight'
  <2>1. Cardinality(InFlight') <= Cardinality(InFlight) /\ Cardinality(InFlight') \in Nat /\ Cardinality(InFlight) \in Nat
    BY <1>3, CountsAreFinite, CountedIndices DEF TypeOK
  <2>2. QED
    BY <2>1 DEF WakeInv, OneWakeInFlight
<1>6. WakesPerDay'
  BY <1>4 DEF WakeInv, WakesPerDay
<1>7. RecordedWakes'
  BY <1>2 DEF WakeInv, RecordedWakes
<1>8. AboutToRecord'
  <2> SUFFICES ASSUME mon'.at = "record" PROVE AboutToRecord'
    BY DEF AboutToRecord
  <2>1. /\ mon.key \in WakeKeys /\ mon'.key = mon.key
        /\ wakeRun[mon.key].status # "none" /\ InFlight = {}
        /\ Cardinality(WithinDay(newest)) < MaxWakesPer24h
    BY DEF WakeInv, AboutToRecord, KeyIsKnown, Sending
  <2>2. wakeRun'[mon.key].status # "none"
    BY <2>1 DEF RunsOnlyEnd
  <2>3. QED
    BY <1>3, <1>4, <2>1, <2>2 DEF AboutToRecord
<1>9. KeyIsKnown'
  BY DEF WakeInv, KeyIsKnown, Sending
<1>10. QED
  BY <1>5, <1>6, <1>7, <1>8, <1>9 DEF WakeInv

\* A minute passes: what was recorded stays in the past, and the day now ends
\* a bar later.
LEMMA CompleteBarWakes == IInv /\ CompleteBar => WakeInv'
<1> SUFFICES ASSUME IInv, CompleteBar PROVE WakeInv'
  OBVIOUS
<1> USE DEF CompleteBar
<1>1. TypeOK /\ newest \in Nat /\ newest' = newest + 1 /\ Day \in Nat
  BY MonitorAssumption DEF IInv, RowInv, TypeOK, Bars
<1>2. \A i \in DOMAIN wakeEvents : wakeEvents[i].at \in Nat /\ wakeEvents[i].at <= newest
  <2>1. \A i \in DOMAIN wakeEvents : wakeEvents[i] \in WakeEvent
    BY <1>1, Recorded DEF TypeOK
  <2>2. \A i \in DOMAIN wakeEvents : wakeEvents[i].at \in Nat
    BY <2>1, MonitorAssumption DEF WakeEvent, Bars
  <2>3. QED
    BY <2>2 DEF IInv, WakeInv, RecordedWakes
<1>3. InFlight' = InFlight /\ \A t : WithinDay(t)' = WithinDay(t)
  BY DEF InFlight, WithinDay, Status
<1>4. WithinDay(newest + 1) \subseteq WithinDay(newest)
  BY <1>1, <1>2 DEF WithinDay
<1>5. Cardinality(WithinDay(newest + 1)) <= Cardinality(WithinDay(newest))
      /\ Cardinality(WithinDay(newest + 1)) \in Nat /\ Cardinality(WithinDay(newest)) \in Nat
  BY <1>1, <1>4, CountsAreFinite, CountedIndices DEF TypeOK
<1>6. AboutToRecord'
  <2> SUFFICES ASSUME mon.at = "record" PROVE AboutToRecord'
    BY DEF AboutToRecord
  <2>1. Cardinality(WithinDay(newest)) < MaxWakesPer24h
    BY DEF IInv, WakeInv, AboutToRecord
  <2>2. Cardinality(WithinDay(newest + 1)) < MaxWakesPer24h
    BY <1>5, <2>1, MonitorAssumption
  <2>3. Cardinality(WithinDay(newest)') < MaxWakesPer24h
    BY <1>1, <1>3, <2>2
  <2>4. QED
    BY <1>3, <2>3 DEF IInv, WakeInv, AboutToRecord
<1>7. RecordedWakes'
  BY <1>1, <1>2 DEF IInv, WakeInv, RecordedWakes, Status
<1>8. KeyIsKnown'
  BY DEF IInv, WakeInv, KeyIsKnown, Sending
<1>9. QED
  BY <1>3, <1>6, <1>7, <1>8 DEF IInv, WakeInv, OneWakeInFlight, WakesPerDay

\* The checks come before the enqueue, and hold until the record.
LEMMA EnqueueWakeWakes ==
  ASSUME IInv, NEW w \in Wires, EnqueueWake(w)
  PROVE  WakeInv'
<1>1. TypeOK /\ MayWake /\ UNCHANGED <<wakeEvents, agent, newest, judged, faults>>
  BY DEF EnqueueWake, IInv, RowInv
<1>2. /\ KeyOf(w) \in WakeKeys
      /\ \A k \in WakeKeys : k # KeyOf(w) \/ wakeRun[k].status # "none" => wakeRun'[k] = wakeRun[k]
      /\ wakeRun'[KeyOf(w)].status # "none"
      /\ mon'.key = KeyOf(w)
  BY <1>1, Enqueued
<1>3. \A i \in DOMAIN wakeEvents : wakeEvents[i].key \in WakeKeys
  BY <1>1, Recorded DEF TypeOK, WakeEvent
<1>4. \A i \in DOMAIN wakeEvents : Status(i) # "none"
  BY DEF IInv, WakeInv, RecordedWakes
<1>5. \A i \in DOMAIN wakeEvents : Status(i)' = Status(i)
  BY <1>1, <1>2, <1>3, <1>4 DEF Status
<1>6. InFlight' = InFlight /\ \A t : WithinDay(t)' = WithinDay(t)
  BY <1>1, <1>5 DEF InFlight, WithinDay
<1>7. AboutToRecord'
  <2> SUFFICES ASSUME mon'.at = "record" PROVE AboutToRecord'
    BY DEF AboutToRecord
  <2>1. InFlight = {} /\ Cardinality(WithinDay(newest)) < MaxWakesPer24h
    BY <1>1 DEF MayWake
  <2>2. QED
    BY <1>1, <1>2, <1>6, <2>1 DEF AboutToRecord
<1>8. RecordedWakes'
  BY <1>1, <1>5 DEF IInv, WakeInv, RecordedWakes
<1>9. OneWakeInFlight' /\ WakesPerDay'
  BY <1>1, <1>6 DEF IInv, WakeInv, OneWakeInFlight, WakesPerDay
<1>10. KeyIsKnown'
  BY <1>2 DEF KeyIsKnown
<1>11. QED
  BY <1>7, <1>8, <1>9, <1>10 DEF WakeInv

\* The one wake that is recorded is the only one in flight, and the day had
\* room for it: a bar that passed since the check only took wakes out.
LEMMA RecordWakeWakes == IInv /\ RecordWake => WakeInv'
<1> SUFFICES ASSUME IInv, RecordWake PROVE WakeInv'
  OBVIOUS
<1>1. /\ TypeOK /\ mon.at = "record" /\ newest \in Nat /\ newest \in Bars /\ Day \in Nat \ {0}
      /\ newest' = newest /\ wakeRun' = wakeRun
  BY MonitorAssumption DEF RecordWake, IInv, RowInv, TypeOK, Bars
<1>2. /\ mon.key \in WakeKeys /\ wakeRun[mon.key].status # "none"
      /\ InFlight = {} /\ Cardinality(WithinDay(newest)) < MaxWakesPer24h
  BY <1>1 DEF IInv, WakeInv, AboutToRecord, KeyIsKnown, Sending
<1>3. ~Sending'
  <2>1. PICK w \in Wires : mon' = WakeDone(mon, w, TRUE)
    <3>1. mon.key[1] \in Wires
      BY <1>2 DEF WakeKeys
    <3>2. QED
      BY <3>1 DEF RecordWake
  <2>2. mon \in Monitor
    BY <1>1 DEF TypeOK
  <2>3. QED
    BY <2>1, <2>2, WakeDoneKeeps, IdleMonitor DEF Sending
<1>4. CASE wakeEvents' = wakeEvents
  <2>1. RunsOnlyEnd
    BY <1>1 DEF RunsOnlyEnd
  <2>2. QED
    BY <1>1, <1>3, <1>4, <2>1, WakesKept DEF IInv
<1>5. CASE wakeEvents' = Append(wakeEvents, NewEvent)
  <2>1. NewEvent \in WakeEvent /\ NewEvent.key = mon.key /\ NewEvent.at = newest
    BY <1>1, <1>2 DEF NewEvent, WakeEvent, TypeOK, Monitor
  <2>2. PICK n \in Nat :
        /\ DOMAIN wakeEvents' = DOMAIN wakeEvents \cup {n} /\ n \notin DOMAIN wakeEvents
        /\ \A i \in DOMAIN wakeEvents : wakeEvents'[i] = wakeEvents[i]
        /\ wakeEvents'[n] = NewEvent
    <3>1. Len(wakeEvents) + 1 \in Nat
      BY <1>1 DEF TypeOK
    <3>2. QED
      BY <1>1, <1>5, <2>1, <3>1, Recorded DEF TypeOK
  <2>3. \A i \in DOMAIN wakeEvents : wakeEvents[i].at \in Nat /\ wakeEvents[i].at <= newest
    <3>1. \A i \in DOMAIN wakeEvents : wakeEvents[i] \in WakeEvent
      BY <1>1, Recorded DEF TypeOK
    <3>2. \A i \in DOMAIN wakeEvents : wakeEvents[i].at \in Nat
      BY <3>1, MonitorAssumption DEF WakeEvent, Bars
    <3>3. QED
      BY <3>2 DEF IInv, WakeInv, RecordedWakes
  <2>4. \A i \in DOMAIN wakeEvents : Status(i)' = Status(i)
    BY <1>1, <2>2 DEF Status
  <2>5. Status(n)' = wakeRun[mon.key].status
    BY <1>1, <2>1, <2>2 DEF Status
  <2>6. RecordedWakes'
    BY <1>1, <1>2, <2>1, <2>2, <2>4, <2>5 DEF IInv, WakeInv, RecordedWakes
  <2>7. OneWakeInFlight'
    <3>1. InFlight' \subseteq {n}
      BY <1>2, <2>2, <2>4 DEF InFlight
    <3>2. IsFiniteSet({n}) /\ Cardinality({n}) = 1
      BY FS_Singleton
    <3>3. QED
      BY <3>1, <3>2, FS_Subset DEF OneWakeInFlight
  <2>8. WakesPerDay'
    <3> SUFFICES ASSUME NEW t \in Bars PROVE Cardinality(WithinDay(t)') <= MaxWakesPer24h
      BY DEF WakesPerDay
    <3>1. t \in Nat
      BY MonitorAssumption DEF Bars
    <3>2. CASE t < newest
      <4>1. WithinDay(t)' = WithinDay(t)
        BY <1>1, <2>1, <2>2, <3>1, <3>2 DEF WithinDay
      <4>2. QED
        BY <4>1 DEF IInv, WakeInv, WakesPerDay
    <3>3. CASE t >= newest
      <4>1. WithinDay(t)' \subseteq WithinDay(newest) \cup {n}
        BY <1>1, <2>2, <2>3, <3>1, <3>3 DEF WithinDay
      <4>2. IsFiniteSet(WithinDay(newest)) /\ Cardinality(WithinDay(newest)) \in Nat /\ n \notin WithinDay(newest)
        BY <1>1, <2>2, CountsAreFinite, CountedIndices DEF TypeOK
      <4>3. /\ IsFiniteSet(WithinDay(newest) \cup {n})
            /\ Cardinality(WithinDay(newest) \cup {n}) = Cardinality(WithinDay(newest)) + 1
        BY <4>2, FS_AddElement
      <4>4. Cardinality(WithinDay(t)') <= Cardinality(WithinDay(newest)) + 1 /\ Cardinality(WithinDay(t)') \in Nat
        BY <4>1, <4>3, FS_Subset, FS_CardinalityType
      <4>5. QED
        BY <1>2, <4>2, <4>4, MonitorAssumption
    <3>4. QED
      BY <1>1, <3>1, <3>2, <3>3
  <2>9. QED
    BY <1>3, <2>6, <2>7, <2>8 DEF WakeInv, AboutToRecord, KeyIsKnown, Sending
<1>6. QED
  BY <1>4, <1>5 DEF RecordWake, NewEvent

\* A step that leaves the recorded wakes and their runs alone.
LEMMA WakesUntouched ==
  ASSUME IInv, UNCHANGED <<wakeEvents, wakeRun, newest>>,
         Sending' => mon'.at = mon.at /\ mon'.key = mon.key
  PROVE  WakeInv'
<1>1. RunsOnlyEnd
  BY DEF RunsOnlyEnd
<1>2. QED
  BY <1>1, WakesKept DEF IInv, RowInv

LEMMA WakeDoneIsNoRecord ==
  ASSUME TypeOK, NEW w \in Wires, NEW ok \in BOOLEAN, mon' = WakeDone(mon, w, ok)
  PROVE  ~Sending'
<1>1. mon \in Monitor
  BY DEF TypeOK
<1>2. QED
  BY <1>1, WakeDoneKeeps, IdleMonitor DEF Sending

LEMMA TickInv == IInv /\ Tick => IInv'
<1> SUFFICES ASSUME IInv, Tick PROVE IInv'
  OBVIOUS
<1>1. RowInv /\ TypeOK /\ mon \in Monitor
  BY DEF IInv, RowInv, TypeOK
<1>2. CASE StartTick
  <2>1. mon'.at = "reconcile"
    BY <1>2, IdleMonitor DEF StartTick, Monitor
  <2>2. QED
    BY <1>1, <1>2, <2>1, StartTickRow, WakesUntouched DEF StartTick, Sending, IInv
<1>3. CASE ReconcileFailedWakes
  <2>1. mon'.at = "feed" /\ newest' = newest /\ wakeRun' = wakeRun
    BY <1>1, <1>3 DEF ReconcileFailedWakes, Monitor
  <2>2. /\ DOMAIN wakeEvents' = DOMAIN wakeEvents
        /\ \A i \in DOMAIN wakeEvents : wakeEvents'[i].key = wakeEvents[i].key /\ wakeEvents'[i].at = wakeEvents[i].at
    <3>1. wakeEvents' = [i \in DOMAIN wakeEvents |->
                           [wakeEvents[i] EXCEPT !.counted = @ \/ i \in Unanswered]]
      BY <1>3 DEF ReconcileFailedWakes
    <3>2. \A i \in DOMAIN wakeEvents : wakeEvents[i] \in WakeEvent
      BY <1>1, Recorded DEF TypeOK
    <3>3. ASSUME NEW i \in DOMAIN wakeEvents
          PROVE  wakeEvents'[i].key = wakeEvents[i].key /\ wakeEvents'[i].at = wakeEvents[i].at
      <4>1. wakeEvents[i] \in WakeEvent /\ wakeEvents'[i] = [wakeEvents[i] EXCEPT !.counted = @ \/ i \in Unanswered]
        BY <3>1, <3>2
      <4>2. QED
        BY <4>1 DEF WakeEvent
    <3>4. QED
      BY <3>1, <3>3
  <2>3. RunsOnlyEnd
    BY <2>1 DEF RunsOnlyEnd
  <2>4. WakeInv'
    BY <1>1, <2>1, <2>2, <2>3, WakesKept DEF Sending, IInv
  <2>5. QED
    BY <1>1, <1>3, <2>4, ReconcileRow DEF IInv
<1>4. CASE FeedFails
  BY <1>1, <1>4, FeedFailsRow, WakesUntouched, IdleMonitor DEF FeedFails, Sending, IInv
<1>5. CASE FeedAnswers
  <2>1. mon'.at = "bars" /\ UNCHANGED <<wakeEvents, wakeRun, newest>>
    BY <1>1, <1>5 DEF FeedAnswers, Monitor
  <2>2. QED
    BY <1>1, <1>5, <2>1, FeedAnswersRow, WakesUntouched DEF Sending, IInv
<1>6. CASE JudgeExit
  BY <1>1, <1>6, JudgeExitRow, WakesUntouched, IdleMonitor DEF JudgeExit, Sending, IInv
<1>7. ASSUME NEW stop \in Levels, NEW fires \in SUBSET (mon.wires \ StaleWires), JudgeHold(stop, fires)
      PROVE  IInv'
  <2>1. ~Sending'
    <3>1. CASE Open
      BY <1>1, <1>7, <3>1, HeldCopy DEF Sending
    <3>2. CASE ~Open
      BY <1>7, <3>2, IdleMonitor DEF JudgeHold, Open, Sending
    <3>3. QED
      BY <3>1, <3>2
  <2>2. QED
    BY <1>1, <1>7, <2>1, JudgeHoldRow, WakesUntouched DEF JudgeHold, IInv
<1>8. ASSUME NEW fires \in SUBSET (mon.wires \cap StaleWires), FinishBars(fires)
      PROVE  IInv'
  <2>1. ~Sending'
    BY <1>1, <1>8, IdleMonitor DEF FinishBars, Monitor, Sending
  <2>2. QED
    BY <1>1, <1>8, <2>1, FinishBarsRow, WakesUntouched DEF FinishBars, IInv
<1>9. CASE RecordWake
  <2>1. mon.key \in WakeKeys
    BY <1>9 DEF RecordWake, IInv, WakeInv, KeyIsKnown, Sending
  <2>2. QED
    BY <1>1, <1>9, <2>1, RecordWakeRow, RecordWakeWakes DEF IInv
<1>10. CASE SaveMarks
  <2>1. ~Sending'
    <3>1. [mon EXCEPT !.marked = FALSE] \in Monitor
      BY <1>1 DEF Monitor
    <3>2. QED
      BY <1>10, <3>1, Continued, IdleMonitor DEF SaveMarks, Sending
  <2>2. QED
    BY <1>1, <1>10, <2>1, SaveMarksRow, WakesUntouched DEF SaveMarks, IInv
<1>11. ASSUME NEW w \in Wires, SkipWake(w) PROVE IInv'
  BY <1>1, <1>11, SkipWakeRow, WakeDoneIsNoRecord, WakesUntouched DEF SkipWake, IInv
<1>12. ASSUME NEW w \in Wires, EnqueueWake(w) PROVE IInv'
  BY <1>1, <1>12, EnqueueWakeRow, EnqueueWakeWakes DEF IInv
<1>13. CASE RaiseAttention
  <2>1. mon.key \in WakeKeys
    BY <1>13 DEF RaiseAttention, IInv, WakeInv, KeyIsKnown, Sending
  <2>2. ~Sending'
    <3>1. mon.key[1] \in Wires
      BY <2>1 DEF WakeKeys
    <3>2. QED
      BY <1>1, <1>13, <3>1, WakeDoneIsNoRecord DEF RaiseAttention
  <2>3. QED
    BY <1>1, <1>13, <2>1, <2>2, RaiseAttentionRow, WakesUntouched DEF RaiseAttention, IInv
<1>14. QED
  BY <1>2, <1>3, <1>4, <1>5, <1>6, <1>7, <1>8, <1>9, <1>10, <1>11, <1>12, <1>13 DEF Tick, Judge, Wake

LEMMA OthersInv == IInv /\ Others => IInv'
<1> SUFFICES ASSUME IInv, Others PROVE IInv'
  OBVIOUS
<1>1. RowInv /\ TypeOK
  BY DEF IInv, RowInv
<1>2. ASSUME NEW k \in WakeKeys, NEW status \in {"answered", "rejected", "unanswered"}, Resolve(k, status),
             UNCHANGED <<wakeEvents, newest, mon>>
      PROVE  WakeInv'
  <2>1. RunsOnlyEnd
    BY <1>1, <1>2, ResolvedRuns DEF RunStates, RunsOnlyEnd
  <2>2. QED
    BY <1>1, <1>2, <2>1, WakesKept DEF IInv
<1>3. ASSUME NEW k \in WakeKeys, NEW answer \in Answers, NEW stop \in Levels, NEW wires \in SUBSET Wires,
             Answer(k, answer, stop, wires)
      PROVE  IInv'
  <2>1. WakeInv'
    BY <1>2, <1>3 DEF Answer
  <2>2. QED
    BY <1>1, <1>3, <2>1, AnswerRow DEF IInv
<1>4. ASSUME NEW k \in WakeKeys, NEW status \in {"rejected", "unanswered"}, EndWithoutEffect(k, status)
      PROVE  IInv'
  <2>1. WakeInv'
    BY <1>2, <1>4 DEF EndWithoutEffect
  <2>2. QED
    BY <1>1, <1>4, <2>1, OthersRow DEF IInv
<1>5. ASSUME NEW to \in {"on", "off", "moved"}, SwitchAgent(to) PROVE IInv'
  BY <1>1, <1>5, OthersRow, WakesUntouched DEF SwitchAgent, IInv
<1>6. CASE CompleteBar
  BY <1>1, <1>6, OthersRow, CompleteBarWakes DEF IInv
<1>7. CASE Crash
  BY <1>1, <1>7, OthersRow, WakesUntouched, IdleMonitor DEF Crash, Sending, IInv
<1>8. CASE ReconcileFails
  <2>1. mon'.at = "feed"
    BY <1>1, <1>8 DEF ReconcileFails, TypeOK, Monitor
  <2>2. QED
    BY <1>1, <1>8, <2>1, ReconcileRow, WakesUntouched DEF ReconcileFails, Sending, IInv
<1>9. ASSUME NEW w \in Wires, WakeFails(w) PROVE IInv'
  <2>1. PICK ok \in BOOLEAN : mon' = WakeDone(mon, w, ok)
    BY <1>9 DEF WakeFails
  <2>2. ~Sending'
    BY <1>1, <2>1, WakeDoneIsNoRecord
  <2>3. QED
    BY <1>1, <1>9, <2>2, WakeFailsRow, WakesUntouched DEF WakeFails, IInv
<1>10. QED
  BY <1>3, <1>4, <1>5, <1>6, <1>7, <1>8, <1>9 DEF Others

LEMMA StutterInv == IInv /\ UNCHANGED vars => IInv'
<1> SUFFICES ASSUME IInv, UNCHANGED vars PROVE IInv'
  OBVIOUS
<1> USE DEF vars
<1>1. TypeOK' /\ RowInv /\ WakeInv
  BY DEF IInv, RowInv, TypeOK
<1>2. RowInv'
  BY <1>1 DEF RowInv, CopyCounts, HeldBars, JudgedOnce, WindowReaches, GapsAreSeen, Open, Ticking, PrevBar
<1>3. WakeInv'
  BY <1>1, WakesUntouched
<1>4. QED
  BY <1>2, <1>3 DEF IInv

\* The inductive invariant.
THEOREM Inductive == Spec => []IInv
<1>1. Init => IInv
  BY InitRow, InitWakes DEF IInv
<1>2. IInv /\ [Next]_vars => IInv'
  BY TickInv, OthersInv, StutterInv DEF Next
<1>3. QED
  BY <1>1, <1>2, PTL DEF Spec

-----------------------------------------------------------------------------
(* The invariants the runs check.                                          *)

\* Type correctness.
THEOREM TypesHold == Spec => []TypeOK
<1>1. IInv => TypeOK
  BY DEF IInv, RowInv
<1>2. QED
  BY <1>1, Inductive, PTL

\* SavePosition and the replay of unseen bars: the counter of held bars is the
\* number of bars that were judged, whatever tick died half way and however old
\* its copy of the row was.
THEOREM BarsJudgedOnce == Spec => []JudgedOnce
<1>1. IInv => JudgedOnce
  BY DEF IInv, RowInv
<1>2. QED
  BY <1>1, Inductive, PTL

\* A bar after the entry's that was never judged has asked for attention.
THEOREM GapsAfterEntryAreSeen == Spec => []GapsAreSeen
<1>1. IInv => GapsAreSeen
  BY DEF IInv, RowInv
<1>2. QED
  BY <1>1, Inductive, PTL

\* When the entry falls before the first bar, no bar at all is passed silently.
\* With the entry on a bar's very open that bar may be.
THEOREM GapsAreNotSilent == EntryBar = 0 => (Spec => []NoSilentGap)
<1> SUFFICES ASSUME EntryBar = 0 PROVE Spec => []NoSilentGap
  OBVIOUS
<1>1. IInv => NoSilentGap
  BY DEF IInv, RowInv, GapsAreSeen, NoSilentGap
<1>2. QED
  BY <1>1, Inductive, PTL

\* RecordWake and WakeState: of the recorded wakes one at most is unanswered.
THEOREM WakesOneByOne == Spec => []OneWakeInFlight
<1>1. IInv => OneWakeInFlight
  BY DEF IInv, WakeInv
<1>2. QED
  BY <1>1, Inductive, PTL

\* No day of any length holds more recorded wakes than its budget, although the
\* check and the record are statements of their own.
THEOREM DayKeepsBudget == Spec => []WakesPerDay
<1>1. IInv => WakesPerDay
  BY DEF IInv, WakeInv
<1>2. QED
  BY <1>1, Inductive, PTL

-----------------------------------------------------------------------------
(* What a step may never do to the row.                                    *)

\* The fields an exit fixes, and the side the stop moves to.
RowStep ==
  /\ position'.stop >= position.stop
  /\ position.status = "closed" =>
       /\ position'.status = "closed"
       /\ position'.stop = position.stop
       /\ position'.barsHeld = position.barsHeld
       /\ position'.lastBar = position.lastBar

LEMMA SameRowStep ==
  ASSUME TypeOK, position'.stop = position.stop, position'.status = position.status,
         position'.barsHeld = position.barsHeld, position'.lastBar = position.lastBar
  PROVE  RowStep
<1>1. position.stop \in Levels
  BY DEF TypeOK, PositionRow
<1>2. position.stop \in Int
  BY <1>1, LevelsAreNumbers
<1>3. QED
  BY <1>2 DEF RowStep

LEMMA SavedRowStep ==
  ASSUME TypeOK, NEW m, m.stop \in Levels, m.barsHeld \in Bars, m.lastBar \in Bars, m.durable \in Marks,
         position' = Saved(position, m)
  PROVE  RowStep
<1>1. position \in PositionRow
  BY DEF TypeOK
<1>2. position'.stop >= position.stop /\ (position.status = "closed" => position' = position)
  BY <1>1, SavedRow
<1>3. QED
  BY <1>2 DEF RowStep

LEMMA TickRowStep == IInv /\ Tick => RowStep
<1> SUFFICES ASSUME IInv, Tick PROVE RowStep
  OBVIOUS
<1>1. TypeOK /\ RowInv /\ mon \in Monitor /\ position \in PositionRow
  BY DEF IInv, RowInv, TypeOK
<1>2. position' = position => RowStep
  BY <1>1, SameRowStep
<1>3. CASE ReconcileFailedWakes
  <2>1. \E n, b : position' = [position EXCEPT !.failedWakes = n, !.needsAttention = b]
    BY <1>3 DEF ReconcileFailedWakes
  <2>2. /\ position'.stop = position.stop /\ position'.status = position.status
        /\ position'.barsHeld = position.barsHeld /\ position'.lastBar = position.lastBar
    BY <1>1, <2>1 DEF PositionRow
  <2>3. QED
    BY <1>1, <2>2, SameRowStep
<1>4. CASE FeedAnswers
  <2>1. \E b : position' = [position EXCEPT !.needsAttention = b]
    BY <1>4 DEF FeedAnswers
  <2>2. /\ position'.stop = position.stop /\ position'.status = position.status
        /\ position'.barsHeld = position.barsHeld /\ position'.lastBar = position.lastBar
    BY <1>1, <2>1 DEF PositionRow
  <2>3. QED
    BY <1>1, <2>2, SameRowStep
<1>5. CASE JudgeExit
  <2>1. /\ position'.stop = position.stop /\ position'.status = "closed"
        /\ position'.barsHeld = position.barsHeld /\ position'.lastBar = position.lastBar
    BY <1>1, <1>5 DEF JudgeExit, Closed, PositionRow
  <2>2. position.stop \in Levels
    BY <1>1 DEF PositionRow
  <2>3. position.stop \in Int
    BY <2>2, LevelsAreNumbers
  <2>4. QED
    BY <2>1, <2>3 DEF RowStep
<1>6. ASSUME NEW stop \in Levels, NEW fires \in SUBSET (mon.wires \ StaleWires), JudgeHold(stop, fires)
      PROVE  RowStep
  <2>1. CASE Open
    <3> DEFINE held == mon.barsHeld + 1
               marks == [w \in Wires |-> IF w \in fires THEN held ELSE mon.fired[w]]
               copy == [[mon EXCEPT
                 !.at = IF fires = {} THEN "bars" ELSE "wakes",
                 !.stop = Tighter(position.stop, stop), !.barsHeld = held, !.lastBar = NextBar,
                 !.fired = marks, !.newBars = TRUE, !.toWake = fires] EXCEPT !.stop = stop]
    <3>1. position' = Saved(position, copy)
      BY <1>6 DEF JudgeHold
    <3>2. held \in Bars /\ NextBar \in Bars
      BY <1>1, <1>6, <2>1, NextBarIsNew DEF JudgeHold, Bars
    <3> HIDE DEF held, marks
    <3>3. copy.stop \in Levels /\ copy.barsHeld \in Bars /\ copy.lastBar \in Bars /\ copy.durable \in Marks
      BY <1>1, <3>2 DEF Monitor
    <3> HIDE DEF copy
    <3>4. QED
      BY <1>1, <3>1, <3>3, SavedRowStep
  <2>2. CASE ~Open
    <3>1. position' = position
      BY <1>6, <2>2 DEF JudgeHold, Saved, Open
    <3>2. QED
      BY <1>2, <3>1
  <2>3. QED
    BY <2>1, <2>2
<1>7. CASE SaveMarks
  <2>1. mon.stop \in Levels /\ mon.barsHeld \in Bars /\ mon.lastBar \in Bars /\ mon.durable \in Marks
    BY <1>1 DEF Monitor
  <2>2. QED
    BY <1>1, <1>7, <2>1, SavedRowStep DEF SaveMarks
<1>8. CASE RecordWake
  <2>1. position' = position \/ \E n : position' = [position EXCEPT !.wakes = n]
    BY <1>8 DEF RecordWake
  <2>2. /\ position'.stop = position.stop /\ position'.status = position.status
        /\ position'.barsHeld = position.barsHeld /\ position'.lastBar = position.lastBar
    BY <1>1, <2>1 DEF PositionRow
  <2>3. QED
    BY <1>1, <2>2, SameRowStep
<1>9. CASE RaiseAttention
  <2>1. position' = [position EXCEPT !.needsAttention = TRUE]
    BY <1>9 DEF RaiseAttention
  <2>2. /\ position'.stop = position.stop /\ position'.status = position.status
        /\ position'.barsHeld = position.barsHeld /\ position'.lastBar = position.lastBar
    BY <1>1, <2>1 DEF PositionRow
  <2>3. QED
    BY <1>1, <2>2, SameRowStep
<1>10. (StartTick \/ FeedFails \/ (\E w \in Wires : SkipWake(w) \/ EnqueueWake(w))
         \/ \E fires \in SUBSET (mon.wires \cap StaleWires) : FinishBars(fires)) => position' = position
  BY DEF StartTick, FeedFails, SkipWake, EnqueueWake, FinishBars
<1>11. QED
  BY <1>2, <1>3, <1>4, <1>5, <1>6, <1>7, <1>8, <1>9, <1>10 DEF Tick, Judge, Wake

LEMMA RowSteps == IInv /\ [Next]_vars => RowStep
<1> SUFFICES ASSUME IInv, [Next]_vars PROVE RowStep
  OBVIOUS
<1>1. TypeOK /\ RowInv
  BY DEF IInv, RowInv
<1>2. position' = position => RowStep
  BY <1>1, SameRowStep
<1>3. ASSUME NEW k \in WakeKeys, NEW answer \in Answers, NEW stop \in Levels, NEW wires \in SUBSET Wires,
             Answer(k, answer, stop, wires)
      PROVE  RowStep
  BY <1>1, <1>3, AnswerRow DEF RowStep
<1>4. CASE Others
  <2>1. CASE \E k \in WakeKeys, answer \in Answers, stop \in Levels, wires \in SUBSET Wires :
               Answer(k, answer, stop, wires)
    BY <1>3, <2>1
  <2>2. CASE \/ \E k \in WakeKeys, status \in {"rejected", "unanswered"} : EndWithoutEffect(k, status)
             \/ \E to \in {"on", "off", "moved"} : SwitchAgent(to)
             \/ CompleteBar \/ Crash \/ ReconcileFails \/ \E w \in Wires : WakeFails(w)
    BY <1>2, <2>2 DEF EndWithoutEffect, SwitchAgent, CompleteBar, Crash, ReconcileFails, WakeFails
  <2>3. QED
    BY <1>4, <2>1, <2>2 DEF Others
<1>5. QED
  BY <1>2, <1>4, TickRowStep DEF Next, vars

\* The stop moves towards price only.
THEOREM StopTightens == Spec => StopOnlyTightens
<1>1. IInv /\ [Next]_vars => [position'.stop >= position.stop]_vars
  BY RowSteps DEF RowStep
<1>2. QED
  BY <1>1, Inductive, PTL DEF Spec, StopOnlyTightens

\* What a tick still holds in memory is not written over an exit.
THEOREM ExitIsFinal == Spec => ClosedIsFinal
<1> DEFINE kept == position.status = "closed" =>
             /\ position'.status = "closed"
             /\ position'.stop = position.stop
             /\ position'.barsHeld = position.barsHeld
             /\ position'.lastBar = position.lastBar
<1>1. IInv /\ [Next]_vars => [kept]_vars
  BY RowSteps DEF RowStep
<1>2. QED
  BY <1>1, Inductive, PTL DEF Spec, ClosedIsFinal

-----------------------------------------------------------------------------
(* The cooldowns.                                                          *)

LEMMA MarkTypes ==
  ASSUME TypeOK
  PROVE  /\ \A w \in Wires : position.lastFired[w] \in Int /\ mon.durable[w] \in Int /\ mon.fired[w] \in Int
         /\ \A i \in DOMAIN wakeEvents : WireOf(i) \in Wires /\ HeldAt(i) \in Nat
         /\ position.barsHeld \in Nat /\ mon.barsHeld \in Nat
         /\ mon.quiet \in BOOLEAN /\ mon.marked \in BOOLEAN
         /\ CooldownBars \in Nat \ {0} /\ Never = -1
<1>1. (\A b \in Bars : b \in Nat) /\ Never \in Int /\ Never = -1
  BY DEF Bars, Never
<1>2. ASSUME NEW marks \in Marks, NEW w \in Wires PROVE marks[w] \in Int
  <2>1. marks[w] \in Bars \cup {Never}
    BY DEF Marks
  <2>2. QED
    BY <1>1, <2>1
<1>3. position.lastFired \in Marks /\ mon.durable \in Marks /\ mon.fired \in Marks
  BY DEF TypeOK, PositionRow, Monitor
<1>4. \A i \in DOMAIN wakeEvents : wakeEvents[i] \in WakeEvent
  BY Recorded DEF TypeOK
<1>5. \A i \in DOMAIN wakeEvents : WireOf(i) \in Wires /\ HeldAt(i) \in Nat
  BY <1>1, <1>4 DEF WireOf, HeldAt, WakeEvent, WakeKeys
<1>6. position.barsHeld \in Nat /\ mon.barsHeld \in Nat /\ mon.quiet \in BOOLEAN /\ mon.marked \in BOOLEAN
  BY <1>1 DEF TypeOK, PositionRow, Monitor
<1>7. QED
  BY <1>1, <1>2, <1>3, <1>5, <1>6, MonitorAssumption

LEMMA InitCooldowns == Init => Cooldowns
<1> SUFFICES ASSUME Init PROVE Cooldowns
  OBVIOUS
<1>1. DOMAIN wakeEvents = {} /\ mon = Idle /\ position.lastFired = Unmarked /\ position.barsHeld = 0
  BY DEF Init
<1>2. \A w \in Wires : position.lastFired[w] <= position.barsHeld
  BY <1>1 DEF Unmarked, Never
<1>3. mon.at = "idle" /\ ~mon.marked /\ ~mon.quiet
  BY <1>1, IdleMonitor
<1>4. QED
  BY <1>1, <1>2, <1>3 DEF Cooldowns, MarksAreReached, MarksHoldWakes, FiredHoldsWakes,
     LeftToWake, KeyIsLeft, Sending, WakesApart, Remembered, Ticking, Looping

\* A step that records nothing.
SameWakes ==
  /\ DOMAIN wakeEvents' = DOMAIN wakeEvents
  /\ \A i \in DOMAIN wakeEvents :
       wakeEvents'[i].key = wakeEvents[i].key /\ wakeEvents'[i].barsHeld = wakeEvents[i].barsHeld
  /\ forgotten \subseteq forgotten'

LEMMA SameWakesKeep ==
  ASSUME SameWakes
  PROVE  /\ \A i \in DOMAIN wakeEvents : WireOf(i)' = WireOf(i) /\ HeldAt(i)' = HeldAt(i)
         /\ Remembered' \subseteq Remembered /\ Remembered \subseteq DOMAIN wakeEvents
         /\ WakesApart => WakesApart'
<1>1. \A i \in DOMAIN wakeEvents : WireOf(i)' = WireOf(i) /\ HeldAt(i)' = HeldAt(i)
  BY DEF SameWakes, WireOf, HeldAt
<1>2. Remembered' \subseteq Remembered /\ Remembered \subseteq DOMAIN wakeEvents
  BY DEF SameWakes, Remembered
<1>3. WakesApart => WakesApart'
  BY <1>1, <1>2 DEF SameWakes, WakesApart
<1>4. QED
  BY <1>1, <1>2, <1>3

\* A step that writes no mark, here or in the row.
LEMMA MarksKept ==
  ASSUME TypeOK, Cooldowns, SameWakes, Open' => Open,
         position'.barsHeld = position.barsHeld, position'.lastFired = position.lastFired,
         Ticking' <=> Ticking, Looping' <=> Looping, mon'.at = "mark" => mon.at = "mark",
         Sending' => mon'.key[1] \in mon.toWake,
         mon'.barsHeld = mon.barsHeld, mon'.durable = mon.durable, mon'.fired = mon.fired,
         mon'.toWake = mon.toWake, mon'.quiet = mon.quiet, mon'.marked = mon.marked
  PROVE  Cooldowns'
<1>1. /\ \A i \in DOMAIN wakeEvents : WireOf(i)' = WireOf(i) /\ HeldAt(i)' = HeldAt(i)
      /\ DOMAIN wakeEvents' = DOMAIN wakeEvents
      /\ Remembered' \subseteq Remembered /\ Remembered \subseteq DOMAIN wakeEvents
      /\ WakesApart'
  BY SameWakesKeep DEF SameWakes, Cooldowns
<1>2. MarksAreReached'
  BY <1>1 DEF Cooldowns, MarksAreReached
<1>3. MarksHoldWakes'
  BY <1>1 DEF Cooldowns, MarksHoldWakes
<1>4. FiredHoldsWakes'
  BY <1>1 DEF Cooldowns, FiredHoldsWakes
<1>5. LeftToWake' /\ KeyIsLeft'
  BY <1>1 DEF Cooldowns, LeftToWake, KeyIsLeft
<1>6. QED
  BY <1>1, <1>2, <1>3, <1>4, <1>5 DEF Cooldowns

\* The tick ends with every mark stored, or with the position closed.
LEMMA TickEnds ==
  ASSUME TypeOK, Cooldowns, SameWakes, mon' = Idle,
         Open' => /\ Open /\ (~Looping \/ ~mon.marked)
                  /\ position'.barsHeld = position.barsHeld /\ position'.lastFired = position.lastFired
  PROVE  Cooldowns'
<1>1. /\ \A i \in DOMAIN wakeEvents : WireOf(i)' = WireOf(i) /\ HeldAt(i)' = HeldAt(i)
      /\ DOMAIN wakeEvents' = DOMAIN wakeEvents
      /\ Remembered' \subseteq Remembered /\ Remembered \subseteq DOMAIN wakeEvents
      /\ WakesApart'
  BY SameWakesKeep DEF SameWakes, Cooldowns
<1>2. mon'.at = "idle" /\ ~mon'.marked /\ ~mon'.quiet /\ ~Ticking' /\ ~Looping'
  BY IdleMonitor DEF Ticking, Looping
<1>3. MarksAreReached'
  BY <1>1, <1>2 DEF Cooldowns, MarksAreReached
<1>4. MarksHoldWakes'
  BY <1>1, <1>2 DEF Cooldowns, MarksHoldWakes
<1>5. FiredHoldsWakes' /\ LeftToWake' /\ KeyIsLeft'
  BY <1>2 DEF FiredHoldsWakes, LeftToWake, KeyIsLeft, Sending, Looping
<1>6. QED
  BY <1>1, <1>3, <1>4, <1>5 DEF Cooldowns

LEMMA StartTickCooldowns == TypeOK /\ Cooldowns /\ StartTick => Cooldowns'
<1> SUFFICES ASSUME TypeOK, Cooldowns, StartTick PROVE Cooldowns'
  OBVIOUS
<1>1. /\ mon.at = "idle" /\ Open /\ Open' /\ SameWakes
      /\ position' = position /\ wakeEvents' = wakeEvents
  BY DEF StartTick, Open, SameWakes
<1>2. /\ mon'.at = "reconcile" /\ mon'.barsHeld = position.barsHeld
      /\ mon'.durable = position.lastFired /\ mon'.fired = position.lastFired
      /\ ~mon'.marked /\ ~mon'.quiet
  BY IdleMonitor DEF StartTick, Monitor
<1>3. /\ \A i \in DOMAIN wakeEvents : WireOf(i)' = WireOf(i) /\ HeldAt(i)' = HeldAt(i)
      /\ DOMAIN wakeEvents' = DOMAIN wakeEvents /\ WakesApart'
      /\ Remembered' \subseteq Remembered /\ Remembered \subseteq DOMAIN wakeEvents
  BY <1>1, SameWakesKeep DEF Cooldowns
<1>4. ~Ticking /\ Ticking' /\ ~Looping'
  BY <1>1, <1>2 DEF Ticking, Looping
<1>5. /\ \A w \in Wires : position.lastFired[w] <= position.barsHeld
      /\ \A i \in DOMAIN wakeEvents : HeldAt(i) <= position.barsHeld
      /\ \A i \in Remembered : HeldAt(i) <= position.lastFired[WireOf(i)]
  BY <1>1, <1>4 DEF Cooldowns, MarksAreReached, MarksHoldWakes
<1>6. \A w \in Wires : position.lastFired[w] <= position.lastFired[w]
  BY MarkTypes
<1>7. MarksAreReached'
  BY <1>1, <1>2, <1>3, <1>5 DEF MarksAreReached
<1>8. MarksHoldWakes'
  BY <1>1, <1>2, <1>3, <1>5, <1>6 DEF MarksHoldWakes
<1>9. FiredHoldsWakes' /\ LeftToWake' /\ KeyIsLeft'
  BY <1>2, <1>3, <1>4, <1>5 DEF FiredHoldsWakes, LeftToWake, KeyIsLeft, Sending
<1>10. QED
  BY <1>3, <1>7, <1>8, <1>9 DEF Cooldowns

\* What a save of the marks in memory leaves in an open row.
LEMMA SavedMarks ==
  ASSUME TypeOK, Cooldowns, Open, Ticking,
         position'.lastFired =
           [w \in Wires |-> IF mon.durable[w] = Never THEN position.lastFired[w] ELSE mon.durable[w]]
  PROVE  /\ \A w \in Wires : position'.lastFired[w] <= mon.durable[w]
         /\ \A w \in Wires : position'.lastFired[w] <= mon.barsHeld
         /\ \A i \in Remembered : HeldAt(i) <= position'.lastFired[WireOf(i)]
<1>1. /\ \A w \in Wires : position.lastFired[w] <= mon.durable[w] /\ mon.durable[w] <= mon.barsHeld
      /\ \A i \in Remembered : HeldAt(i) <= mon.durable[WireOf(i)]
  BY DEF Cooldowns, MarksHoldWakes, MarksAreReached
<1>2. \A w \in Wires : position'.lastFired[w] = IF mon.durable[w] = Never THEN position.lastFired[w] ELSE mon.durable[w]
  OBVIOUS
<1>3. \A w \in Wires : position'.lastFired[w] <= mon.durable[w] /\ position'.lastFired[w] <= mon.barsHeld
  BY <1>1, <1>2, MarkTypes
<1>4. \A i \in Remembered : HeldAt(i) <= position'.lastFired[WireOf(i)]
  <2> SUFFICES ASSUME NEW i \in Remembered PROVE HeldAt(i) <= position'.lastFired[WireOf(i)]
    OBVIOUS
  <2>1. WireOf(i) \in Wires /\ HeldAt(i) \in Nat /\ Never = -1
    BY MarkTypes DEF Remembered
  <2>2. HeldAt(i) <= mon.durable[WireOf(i)]
    BY <1>1
  <2>3. mon.durable[WireOf(i)] # Never
    BY <2>1, <2>2
  <2>4. QED
    BY <1>2, <2>1, <2>2, <2>3
<1>5. QED
  BY <1>3, <1>4

\* A wire that is not cooling down is a cooldown away from its remembered wakes.
LEMMA FreshFires ==
  ASSUME TypeOK, Cooldowns, Ticking, ~mon.quiet, NEW held \in Nat, mon.barsHeld <= held,
         NEW i \in Remembered, ~CoolingDown(mon.fired, WireOf(i), held)
  PROVE  held - HeldAt(i) >= CooldownBars /\ WireOf(i) \notin OnceWires
<1>1. /\ WireOf(i) \in Wires /\ HeldAt(i) \in Nat /\ Never = -1 /\ CooldownBars \in Nat
      /\ mon.fired[WireOf(i)] \in Int
  BY MarkTypes DEF Remembered
<1>2. HeldAt(i) <= mon.fired[WireOf(i)]
  BY DEF Cooldowns, FiredHoldsWakes
<1>3. mon.fired[WireOf(i)] # Never
  BY <1>1, <1>2
<1>4. WireOf(i) \notin OnceWires /\ ~(held - mon.fired[WireOf(i)] < CooldownBars)
  BY <1>3 DEF CoolingDown
<1>5. QED
  BY <1>1, <1>2, <1>4

LEMMA JudgeHoldCooldowns ==
  ASSUME RowInv, Cooldowns, NEW stop \in Levels, NEW fires \in SUBSET (mon.wires \ StaleWires),
         JudgeHold(stop, fires)
  PROVE  Cooldowns'
<1>1. /\ TypeOK /\ mon.at = "bars" /\ Ticking /\ ~Looping /\ SameWakes
      /\ wakeEvents' = wakeEvents
  BY DEF RowInv, JudgeHold, Ticking, Looping, SameWakes
<1>2. ~mon.quiet /\ ~mon.marked
  BY <1>1 DEF Cooldowns, FiredHoldsWakes, MarksHoldWakes
<1>3. CASE ~Open
  <2>1. position' = position /\ mon' = Idle
    BY <1>3 DEF JudgeHold, Saved, Open
  <2>2. QED
    BY <1>1, <1>3, <2>1, TickEnds DEF Open
<1>4. CASE Open
  <2>1. /\ mon'.at = IF fires = {} THEN "bars" ELSE "wakes"
        /\ mon'.barsHeld = mon.barsHeld + 1
        /\ mon'.durable = mon.durable /\ mon'.toWake = fires
        /\ mon'.fired = [w \in Wires |-> IF w \in fires THEN mon.barsHeld + 1 ELSE mon.fired[w]]
        /\ ~mon'.quiet /\ ~mon'.marked
        /\ position'.status = "open" /\ position'.barsHeld = mon.barsHeld + 1
        /\ position'.lastFired =
             [w \in Wires |-> IF mon.durable[w] = Never THEN position.lastFired[w] ELSE mon.durable[w]]
    BY <1>1, <1>2, <1>4, HeldCopy
  <2>2. /\ \A i \in DOMAIN wakeEvents : WireOf(i)' = WireOf(i) /\ HeldAt(i)' = HeldAt(i)
        /\ DOMAIN wakeEvents' = DOMAIN wakeEvents /\ WakesApart'
        /\ Remembered' \subseteq Remembered /\ Remembered \subseteq DOMAIN wakeEvents
    BY <1>1, SameWakesKeep DEF Cooldowns
  <2>3. /\ \A w \in Wires : position'.lastFired[w] <= mon.durable[w]
        /\ \A w \in Wires : position'.lastFired[w] <= mon.barsHeld
        /\ \A i \in Remembered : HeldAt(i) <= position'.lastFired[WireOf(i)]
    BY <1>1, <1>4, <2>1, SavedMarks
  <2>4. /\ \A w \in Wires : mon.durable[w] <= mon.barsHeld
        /\ \A i \in DOMAIN wakeEvents : HeldAt(i) <= mon.barsHeld
        /\ \A i \in Remembered : HeldAt(i) <= mon.durable[WireOf(i)]
    BY <1>1, <1>4 DEF Cooldowns, MarksAreReached, MarksHoldWakes
  <2>5. MarksAreReached'
    <3>1. \A w \in Wires : position'.lastFired[w] <= mon.barsHeld + 1 /\ mon.durable[w] <= mon.barsHeld + 1
      <4>1. \A w \in Wires : position'.lastFired[w] \in Int
        BY <1>1, <2>1, MarkTypes
      <4>2. QED
        BY <1>1, <2>3, <2>4, <4>1, MarkTypes
    <3>2. \A i \in DOMAIN wakeEvents : HeldAt(i) <= mon.barsHeld + 1
      BY <1>1, <2>4, MarkTypes
    <3>3. QED
      BY <2>1, <2>2, <3>1, <3>2 DEF MarksAreReached
  <2>6. MarksHoldWakes'
    BY <2>1, <2>2, <2>3, <2>4 DEF MarksHoldWakes, Looping
  <2>7. FiredHoldsWakes'
    <3>1. \A i \in Remembered : HeldAt(i) <= mon'.fired[WireOf(i)]
      <4> SUFFICES ASSUME NEW i \in Remembered PROVE HeldAt(i) <= mon'.fired[WireOf(i)]
        OBVIOUS
      <4>1. WireOf(i) \in Wires /\ HeldAt(i) \in Nat /\ mon.barsHeld \in Nat
        BY <1>1, MarkTypes DEF Remembered
      <4>2. HeldAt(i) <= mon.barsHeld /\ HeldAt(i) <= mon.fired[WireOf(i)]
        BY <1>1, <1>2, <2>2, <2>4 DEF Cooldowns, FiredHoldsWakes
      <4>3. QED
        BY <2>1, <4>1, <4>2
    <3>2. \A w \in fires : w \in Wires
      BY <1>1 DEF TypeOK, Monitor
    <3>3. \A w \in fires : mon'.fired[w] = mon.barsHeld + 1
      BY <2>1, <3>2
    <3>4. QED
      BY <2>1, <2>2, <3>1, <3>3 DEF FiredHoldsWakes
  <2>8. LeftToWake'
    <3>1. PICK held \in Nat : held = mon.barsHeld + 1
      BY <1>1, MarkTypes
    <3>2. mon.barsHeld <= held
      BY <1>1, <3>1, MarkTypes
    <3>3. ASSUME NEW i \in Remembered, WireOf(i) \in fires
          PROVE  held - HeldAt(i) >= CooldownBars /\ WireOf(i) \notin OnceWires
      <4>1. ~CoolingDown(mon.fired, WireOf(i), held)
        BY <3>1, <3>3 DEF JudgeHold
      <4>2. QED
        BY <1>1, <1>2, <3>2, <4>1, FreshFires
    <3>4. mon'.barsHeld = held
      BY <2>1, <3>1
    <3>5. QED
      BY <2>1, <2>2, <3>3, <3>4 DEF LeftToWake
  <2>9. QED
    BY <2>1, <2>2, <2>5, <2>6, <2>7, <2>8 DEF Cooldowns, KeyIsLeft, Sending
<1>5. QED
  BY <1>3, <1>4

LEMMA FinishBarsCooldowns ==
  ASSUME TypeOK, Cooldowns, NEW fires \in SUBSET (mon.wires \cap StaleWires), FinishBars(fires)
  PROVE  Cooldowns'
<1>1. /\ mon.at = "bars" /\ Ticking /\ ~Looping /\ SameWakes
      /\ wakeEvents' = wakeEvents /\ position' = position
  BY DEF FinishBars, Ticking, Looping, SameWakes
<1>2. ~mon.quiet /\ ~mon.marked
  BY <1>1 DEF Cooldowns, FiredHoldsWakes, MarksHoldWakes
<1>3. CASE mon' = Idle
  BY <1>1, <1>3, TickEnds DEF Open
<1>4. CASE mon' = [mon EXCEPT !.at = "wakes", !.quiet = TRUE, !.toWake = fires]
  <2>1. /\ mon'.at = "wakes" /\ mon'.barsHeld = mon.barsHeld
        /\ mon'.durable = mon.durable /\ mon'.toWake = fires /\ mon'.quiet /\ ~mon'.marked
    BY <1>2, <1>4 DEF TypeOK, Monitor
  <2>2. /\ \A i \in DOMAIN wakeEvents : WireOf(i)' = WireOf(i) /\ HeldAt(i)' = HeldAt(i)
        /\ DOMAIN wakeEvents' = DOMAIN wakeEvents /\ WakesApart'
        /\ Remembered' \subseteq Remembered /\ Remembered \subseteq DOMAIN wakeEvents
    BY <1>1, SameWakesKeep DEF Cooldowns
  <2>3. Ticking' /\ Looping' /\ (Open' <=> Open)
    BY <1>1, <2>1 DEF Ticking, Looping, Open
  <2>4. MarksAreReached'
    BY <1>1, <2>1, <2>2, <2>3 DEF Cooldowns, MarksAreReached
  <2>5. MarksHoldWakes'
    BY <1>1, <1>2, <2>1, <2>2, <2>3 DEF Cooldowns, MarksHoldWakes
  <2>6. FiredHoldsWakes'
    BY <2>1, <2>3 DEF FiredHoldsWakes
  <2>7. LeftToWake'
    <3>1. ASSUME NEW i \in Remembered, WireOf(i) \in fires
          PROVE  mon.barsHeld - HeldAt(i) >= CooldownBars /\ WireOf(i) \notin OnceWires
      <4>1. ~CoolingDown(mon.fired, WireOf(i), mon.barsHeld)
        BY <3>1 DEF FinishBars
      <4>2. mon.barsHeld \in Nat /\ mon.barsHeld <= mon.barsHeld
        BY MarkTypes
      <4>3. QED
        BY <1>1, <1>2, <4>1, <4>2, FreshFires
    <3>2. QED
      BY <2>1, <2>2, <3>1 DEF LeftToWake
  <2>8. QED
    BY <2>1, <2>2, <2>4, <2>5, <2>6, <2>7 DEF Cooldowns, KeyIsLeft, Sending
<1>5. QED
  BY <1>3, <1>4 DEF FinishBars

\* A wake that leaves its mark, with the event it may have recorded: the wire
\* was a cooldown away from every other.
LEMMA WakeDoneCooldowns ==
  ASSUME RowInv, Cooldowns, Looping, NEW w \in mon.toWake, mon' = WakeDone(mon, w, TRUE),
         position'.status = position.status, position'.barsHeld = position.barsHeld,
         position'.lastFired = position.lastFired, forgotten' = forgotten,
         \/ SameWakes
         \/ \E e \in WakeEvent : /\ e.key[1] = w /\ e.barsHeld = mon.barsHeld
                                 /\ wakeEvents' = Append(wakeEvents, e)
  PROVE  Cooldowns'
<1>1. TypeOK /\ mon \in Monitor /\ w \in Wires /\ Ticking
  BY DEF RowInv, TypeOK, Monitor, Ticking, Looping
<1>2. /\ mon'.at \in {"mark", "wakes"} /\ mon'.marked
      /\ mon'.barsHeld = mon.barsHeld /\ mon'.fired = mon.fired /\ mon'.quiet = mon.quiet
      /\ mon'.toWake = mon.toWake \ {w}
      /\ mon'.durable = [v \in Wires |-> IF v = w THEN mon.barsHeld ELSE mon.durable[v]]
  <2>1. MarkLeft(mon', mon, w)
    BY <1>1, WakeMarks
  <2>2. QED
    BY <2>1 DEF MarkLeft
<1>3. Ticking' /\ Looping' /\ (Open' <=> Open)
  BY <1>2 DEF Ticking, Looping, Open
<1>4. /\ Open => mon.barsHeld = position.barsHeld
      /\ Open => \A v \in Wires : position.lastFired[v] <= mon.barsHeld /\ position.lastFired[v] <= mon.durable[v]
      /\ \A v \in Wires : mon.durable[v] <= mon.barsHeld
      /\ \A i \in DOMAIN wakeEvents : HeldAt(i) <= mon.barsHeld
      /\ Open => \A i \in Remembered : HeldAt(i) <= mon.durable[WireOf(i)]
      /\ ~mon.quiet => \A i \in Remembered : HeldAt(i) <= mon.fired[WireOf(i)]
      /\ ~mon.quiet => \A v \in mon.toWake : mon.fired[v] = mon.barsHeld
      /\ \A i \in Remembered : WireOf(i) \in mon.toWake =>
           mon.barsHeld - HeldAt(i) >= CooldownBars /\ WireOf(i) \notin OnceWires
  BY <1>1 DEF RowInv, CopyCounts, Cooldowns, MarksAreReached, MarksHoldWakes, FiredHoldsWakes, LeftToWake
<1>5. mon.barsHeld <= mon.barsHeld
  BY <1>1, MarkTypes
<1>6. \A v \in Wires : mon'.durable[v] = IF v = w THEN mon.barsHeld ELSE mon.durable[v]
  <2>1. mon'.durable = [v \in Wires |-> IF v = w THEN mon.barsHeld ELSE mon.durable[v]]
    BY <1>2
  <2>2. QED
    BY <2>1
\* What is recorded now: the wakes of before, and one of w.
<1>7. \A i \in DOMAIN wakeEvents' :
        \/ i \in DOMAIN wakeEvents /\ WireOf(i)' = WireOf(i) /\ HeldAt(i)' = HeldAt(i)
        \/ /\ i \notin DOMAIN wakeEvents /\ WireOf(i)' = w /\ HeldAt(i)' = mon.barsHeld
           /\ \A j \in DOMAIN wakeEvents' : j <= i
  <2>1. CASE SameWakes
    BY <2>1, SameWakesKeep DEF SameWakes
  <2>2. ASSUME NEW e \in WakeEvent, e.key[1] = w, e.barsHeld = mon.barsHeld, wakeEvents' = Append(wakeEvents, e)
        PROVE  \A i \in DOMAIN wakeEvents' :
                 \/ i \in DOMAIN wakeEvents /\ WireOf(i)' = WireOf(i) /\ HeldAt(i)' = HeldAt(i)
                 \/ /\ i \notin DOMAIN wakeEvents /\ WireOf(i)' = w /\ HeldAt(i)' = mon.barsHeld
                    /\ \A j \in DOMAIN wakeEvents' : j <= i
    <3>1. wakeEvents \in Seq(WakeEvent) /\ Len(wakeEvents) \in Nat
      BY <1>1, Recorded DEF TypeOK
    <3>2. PICK n \in Nat :
            /\ n = Len(wakeEvents) + 1
            /\ DOMAIN wakeEvents' = DOMAIN wakeEvents \cup {n} /\ n \notin DOMAIN wakeEvents
            /\ \A i \in DOMAIN wakeEvents : wakeEvents'[i] = wakeEvents[i] /\ i < n
            /\ wakeEvents'[n] = e
      BY <2>2, <3>1, Recorded
    <3>3. \A i \in DOMAIN wakeEvents : WireOf(i)' = WireOf(i) /\ HeldAt(i)' = HeldAt(i)
      BY <3>2 DEF WireOf, HeldAt
    <3>4. WireOf(n)' = w /\ HeldAt(n)' = mon.barsHeld
      BY <2>2, <3>2 DEF WireOf, HeldAt
    <3>5. \A j \in DOMAIN wakeEvents' : j <= n
      <4>1. DOMAIN wakeEvents = 1..Len(wakeEvents)
        BY <3>1, Recorded
      <4>2. QED
        BY <3>1, <3>2, <4>1
    <3>6. QED
      BY <3>2, <3>3, <3>4, <3>5
  <2>3. QED
    BY <2>1, <2>2
<1>8. \A i \in Remembered' : i \in DOMAIN wakeEvents' /\ (i \in DOMAIN wakeEvents => i \in Remembered)
  BY DEF Remembered
<1>9. MarksAreReached'
  <2>1. \A v \in Wires : mon'.durable[v] <= mon.barsHeld
    BY <1>4, <1>5, <1>6
  <2>2. \A i \in DOMAIN wakeEvents' : HeldAt(i)' <= mon.barsHeld
    BY <1>4, <1>5, <1>7
  <2>3. QED
    BY <1>2, <1>3, <1>4, <2>1, <2>2 DEF MarksAreReached
<1>10. MarksHoldWakes'
  <2>1. Open => \A v \in Wires : position.lastFired[v] <= mon'.durable[v]
    BY <1>4, <1>6
  <2>2. ASSUME Open, NEW i \in Remembered' PROVE HeldAt(i)' <= mon'.durable[WireOf(i)']
    <3>1. CASE i \in DOMAIN wakeEvents /\ WireOf(i)' = WireOf(i) /\ HeldAt(i)' = HeldAt(i)
      <4>1. WireOf(i) \in Wires
        BY <1>1, <3>1, MarkTypes
      <4>2. QED
        <5>1. HeldAt(i) <= mon.durable[WireOf(i)] /\ HeldAt(i) <= mon.barsHeld
          BY <1>4, <1>8, <2>2, <3>1
        <5>2. mon'.durable[WireOf(i)] = IF WireOf(i) = w THEN mon.barsHeld ELSE mon.durable[WireOf(i)]
          BY <1>6, <4>1
        <5>3. HeldAt(i) <= mon'.durable[WireOf(i)]
          BY <5>1, <5>2
        <5>4. QED
          BY <3>1, <5>3
    <3>2. CASE WireOf(i)' = w /\ HeldAt(i)' = mon.barsHeld
      BY <1>1, <1>5, <1>6, <3>2
    <3>3. QED
      BY <1>7, <1>8, <3>1, <3>2
  <2>3. QED
    BY <1>2, <1>3, <2>1, <2>2 DEF MarksHoldWakes
<1>11. FiredHoldsWakes'
  <2>1. ASSUME ~mon.quiet, NEW i \in Remembered' PROVE HeldAt(i)' <= mon.fired[WireOf(i)']
    BY <1>4, <1>5, <1>7, <1>8, <2>1
  <2>2. ~mon.quiet => \A i \in Remembered' : HeldAt(i)' <= mon'.fired[WireOf(i)']
    BY <1>2, <2>1
  <2>3. mon'.quiet => Looping
    BY <1>1, <1>2 DEF RowInv, FiredHoldsWakes
  <2>4. ~mon.quiet => \A v \in mon'.toWake : mon'.fired[v] = mon'.barsHeld
    <3>1. mon'.toWake = mon.toWake \ {w} /\ mon'.fired = mon.fired /\ mon'.barsHeld = mon.barsHeld
      BY <1>2
    <3>2. ~mon.quiet => \A v \in mon.toWake : mon.fired[v] = mon.barsHeld
      BY <1>4
    <3>3. QED
      BY <3>1, <3>2
  <2>5. mon'.quiet = mon.quiet
    BY <1>2
  <2>6. QED
    BY <1>3, <2>2, <2>3, <2>4, <2>5 DEF FiredHoldsWakes
<1>12. LeftToWake'
  <2>1. ASSUME NEW i \in Remembered', WireOf(i)' \in mon.toWake, WireOf(i)' # w
        PROVE  mon.barsHeld - HeldAt(i)' >= CooldownBars /\ WireOf(i)' \notin OnceWires
    <3>1. i \in Remembered /\ WireOf(i)' = WireOf(i) /\ HeldAt(i)' = HeldAt(i)
      BY <1>7, <1>8, <2>1
    <3>2. QED
      BY <1>4, <2>1, <3>1
  <2>2. QED
    BY <1>2, <2>1 DEF LeftToWake
<1>13. WakesApart'
  <2> SUFFICES ASSUME NEW i \in Remembered', NEW j \in DOMAIN wakeEvents', i < j, WireOf(i)' = WireOf(j)'
               PROVE  HeldAt(j)' - HeldAt(i)' >= CooldownBars /\ WireOf(i)' \notin OnceWires
    BY DEF WakesApart
  <2>1. i \in Remembered /\ WireOf(i)' = WireOf(i) /\ HeldAt(i)' = HeldAt(i)
    <3>1. ~(j <= i)
      <4>1. i \in Nat /\ j \in Nat
        <5>1. \E s \in Seq(WakeEvent) : DOMAIN wakeEvents' = DOMAIN s
          <6>1. CASE SameWakes
            BY <1>1, <6>1 DEF SameWakes, TypeOK
          <6>2. CASE \E e \in WakeEvent : wakeEvents' = Append(wakeEvents, e)
            BY <1>1, <6>2, Recorded DEF TypeOK
          <6>3. QED
            BY <6>1, <6>2
        <5>2. QED
          BY <1>8, <5>1, Recorded
      <4>2. QED
        BY <4>1
    <3>2. QED
      BY <1>7, <1>8, <3>1
  <2>2. CASE j \in DOMAIN wakeEvents /\ WireOf(j)' = WireOf(j) /\ HeldAt(j)' = HeldAt(j)
    BY <2>1, <2>2 DEF Cooldowns, WakesApart
  <2>3. CASE WireOf(j)' = w /\ HeldAt(j)' = mon.barsHeld
    BY <1>4, <2>1, <2>3
  <2>4. QED
    BY <1>7, <2>2, <2>3
<1>14. QED
  BY <1>2, <1>9, <1>10, <1>11, <1>12, <1>13 DEF Cooldowns, KeyIsLeft, Sending

LEMMA SaveMarksCooldowns == RowInv /\ Cooldowns /\ SaveMarks => Cooldowns'
<1> SUFFICES ASSUME RowInv, Cooldowns, SaveMarks PROVE Cooldowns'
  OBVIOUS
<1> DEFINE m == [mon EXCEPT !.marked = FALSE]
<1>1. /\ TypeOK /\ mon \in Monitor /\ position \in PositionRow /\ mon.at = "mark" /\ Ticking /\ Looping
      /\ SameWakes /\ wakeEvents' = wakeEvents
  BY DEF RowInv, TypeOK, SaveMarks, Ticking, Looping, SameWakes
<1>2. /\ m \in Monitor /\ m.barsHeld = mon.barsHeld /\ m.durable = mon.durable /\ m.fired = mon.fired
      /\ m.toWake = mon.toWake /\ m.quiet = mon.quiet /\ ~m.marked
  BY <1>1 DEF Monitor
<1>3. mon' = Continue(m, FALSE) /\ position' = Saved(position, mon)
  BY DEF SaveMarks
<1> HIDE DEF m
<1>4. /\ Open => mon.barsHeld = position.barsHeld
      /\ mon.stop \in Levels /\ mon.barsHeld \in Bars /\ mon.lastBar \in Bars /\ mon.durable \in Marks
  BY <1>1 DEF RowInv, CopyCounts, Monitor
<1>5. /\ (Open' <=> Open)
      /\ Open => /\ position'.barsHeld = mon.barsHeld
                 /\ position'.lastFired =
                      [w \in Wires |-> IF mon.durable[w] = Never THEN position.lastFired[w] ELSE mon.durable[w]]
  BY <1>1, <1>3, <1>4, SavedRow DEF Open
<1>6. /\ \A i \in DOMAIN wakeEvents : WireOf(i)' = WireOf(i) /\ HeldAt(i)' = HeldAt(i)
      /\ DOMAIN wakeEvents' = DOMAIN wakeEvents /\ WakesApart'
      /\ Remembered' \subseteq Remembered /\ Remembered \subseteq DOMAIN wakeEvents
  BY <1>1, SameWakesKeep DEF Cooldowns
<1>7. Open =>
        /\ \A w \in Wires : position'.lastFired[w] <= mon.durable[w] /\ position'.lastFired[w] <= mon.barsHeld
        /\ \A i \in Remembered : HeldAt(i) <= position'.lastFired[WireOf(i)]
  BY <1>1, <1>5, SavedMarks
<1>8. /\ \A w \in Wires : mon.durable[w] <= mon.barsHeld
      /\ \A i \in DOMAIN wakeEvents : HeldAt(i) <= mon.barsHeld
      /\ Open => \A i \in Remembered : HeldAt(i) <= mon.durable[WireOf(i)]
  BY <1>1 DEF Cooldowns, MarksAreReached, MarksHoldWakes
<1>9. CASE mon' = Idle
  <2>1. mon'.at = "idle" /\ ~mon'.marked /\ ~mon'.quiet /\ ~Ticking' /\ ~Looping'
    BY <1>9, IdleMonitor DEF Ticking, Looping
  <2>2. MarksAreReached' /\ MarksHoldWakes'
    BY <1>5, <1>6, <1>7, <1>8, <2>1 DEF MarksAreReached, MarksHoldWakes
  <2>3. QED
    BY <1>6, <2>1, <2>2 DEF Cooldowns, FiredHoldsWakes, LeftToWake, KeyIsLeft, Sending, Looping
<1>10. ASSUME NEW to \in {"wakes", "bars"}, mon' = [m EXCEPT !.at = to], to = "bars" => ~m.quiet
       PROVE  Cooldowns'
  <2>1. /\ mon'.at = to /\ mon'.barsHeld = mon.barsHeld /\ mon'.durable = mon.durable
        /\ mon'.fired = mon.fired /\ mon'.toWake = mon.toWake /\ mon'.quiet = mon.quiet /\ ~mon'.marked
    BY <1>2, <1>10 DEF Monitor
  <2>2. Ticking' /\ (mon'.quiet => Looping')
    BY <1>2, <1>10, <2>1 DEF Ticking, Looping
  <2>3. MarksAreReached'
    BY <1>5, <1>6, <1>7, <1>8, <2>1, <2>2 DEF MarksAreReached
  <2>4. MarksHoldWakes'
    BY <1>5, <1>6, <1>7, <1>8, <2>1, <2>2 DEF MarksHoldWakes
  <2>5. FiredHoldsWakes' /\ LeftToWake'
    BY <1>1, <1>6, <2>1, <2>2 DEF Cooldowns, FiredHoldsWakes, LeftToWake
  <2>6. QED
    BY <1>6, <2>1, <2>3, <2>4, <2>5 DEF Cooldowns, KeyIsLeft, Sending
<1>11. QED
  BY <1>3, <1>9, <1>10 DEF Continue

\* A wake that failed leaves no mark, and the rest of the tick goes on: when
\* nothing else is to be marked the row holds every remembered wake already.
MarkMissed(n, m, w) ==
  \/ n = Idle /\ ~m.marked
  \/ /\ n.at \in {"mark", "wakes", "bars"}
     /\ n.at = "mark" => m.marked
     /\ n.at = "bars" => ~m.marked /\ ~m.quiet
     /\ n.barsHeld = m.barsHeld /\ n.fired = m.fired /\ n.quiet = m.quiet /\ n.marked = m.marked
     /\ n.toWake = m.toWake \ {w} /\ n.durable = m.durable

LEMMA WakeMisses ==
  ASSUME NEW m \in Monitor, NEW w \in Wires
  PROVE  MarkMissed(WakeDone(m, w, FALSE), m, w)
<1> DEFINE marks == [v \in Wires |-> IF FALSE /\ v = w THEN m.barsHeld ELSE m.durable[v]]
           done == [m EXCEPT !.toWake = m.toWake \ {w}, !.key = NoKey, !.marked = m.marked \/ FALSE,
                             !.durable = marks]
           n == WakeDone(m, w, FALSE)
<1>1. marks = m.durable /\ m.durable \in Marks /\ m.marked \in BOOLEAN /\ m.quiet \in BOOLEAN
  BY DEF Monitor, Marks
<1> HIDE DEF marks
<1>2. done \in Monitor
  BY <1>1 DEF Monitor
<1>3. /\ done.barsHeld = m.barsHeld /\ done.fired = m.fired /\ done.quiet = m.quiet /\ done.marked = m.marked
      /\ done.toWake = m.toWake \ {w} /\ done.durable = m.durable
  BY <1>1 DEF Monitor
<1>4. n = Continue(done, done.marked)
  BY DEF WakeDone, marks
<1> HIDE DEF done, n
<1>5. \/ n = Idle /\ ~done.marked
      \/ \E to \in {"mark", "wakes", "bars"} :
           /\ n = [done EXCEPT !.at = to]
           /\ to = "mark" => done.marked
           /\ to = "bars" => ~done.marked /\ ~done.quiet
  BY <1>4 DEF Continue
<1>6. ASSUME NEW to \in {"mark", "wakes", "bars"}, n = [done EXCEPT !.at = to]
      PROVE  /\ n.at = to /\ n.barsHeld = done.barsHeld /\ n.fired = done.fired /\ n.quiet = done.quiet
             /\ n.marked = done.marked /\ n.toWake = done.toWake /\ n.durable = done.durable
  BY <1>2, <1>6 DEF Monitor
<1>7. QED
  BY <1>3, <1>5, <1>6 DEF MarkMissed, n

LEMMA WakeMissedCooldowns ==
  ASSUME TypeOK, Cooldowns, Looping, NEW w \in Wires, mon' = WakeDone(mon, w, FALSE), SameWakes,
         position' = position
  PROVE  Cooldowns'
<1>1. mon \in Monitor /\ Ticking /\ (Open' <=> Open)
  BY DEF TypeOK, Ticking, Looping, Open
<1>2. MarkMissed(mon', mon, w)
  BY <1>1, WakeMisses
<1>3. /\ \A i \in DOMAIN wakeEvents : WireOf(i)' = WireOf(i) /\ HeldAt(i)' = HeldAt(i)
      /\ DOMAIN wakeEvents' = DOMAIN wakeEvents
      /\ Remembered' \subseteq Remembered /\ Remembered \subseteq DOMAIN wakeEvents
      /\ WakesApart'
  BY SameWakesKeep DEF SameWakes, Cooldowns
<1>4. CASE mon' = Idle /\ ~mon.marked
  BY <1>1, <1>4, TickEnds
<1>5. CASE /\ mon'.at \in {"mark", "wakes", "bars"}
           /\ mon'.at = "mark" => mon.marked
           /\ mon'.at = "bars" => ~mon.marked /\ ~mon.quiet
           /\ mon'.barsHeld = mon.barsHeld /\ mon'.fired = mon.fired /\ mon'.quiet = mon.quiet
           /\ mon'.marked = mon.marked
           /\ mon'.toWake = mon.toWake \ {w} /\ mon'.durable = mon.durable
  <2>1. /\ Ticking' /\ (Looping' => Looping) /\ ~Sending'
        /\ mon'.marked => Looping'
        /\ mon'.quiet => Looping'
    BY <1>5 DEF Ticking, Looping, Sending
  <2>2. MarksAreReached'
    <3>1. MarksAreReached
      BY DEF Cooldowns
    <3>2. mon'.durable = mon.durable /\ mon'.barsHeld = mon.barsHeld
      BY <1>5
    <3>3. Open' => \A x \in Wires : position'.lastFired[x] <= position'.barsHeld
      BY <1>1, <3>1 DEF MarksAreReached
    <3>4. Open' => \A i \in DOMAIN wakeEvents' : HeldAt(i)' <= position'.barsHeld
      BY <1>1, <1>3, <3>1 DEF MarksAreReached
    <3>5. \A x \in Wires : mon'.durable[x] <= mon'.barsHeld
      BY <1>1, <3>1, <3>2 DEF MarksAreReached
    <3>6. \A i \in DOMAIN wakeEvents' : HeldAt(i)' <= mon'.barsHeld
      BY <1>1, <1>3, <3>1, <3>2 DEF MarksAreReached
    <3>7. QED
      BY <3>3, <3>4, <3>5, <3>6 DEF MarksAreReached
  <2>3. MarksHoldWakes'
    BY <1>1, <1>3, <1>5, <2>1 DEF Cooldowns, MarksHoldWakes
  <2>4. FiredHoldsWakes'
    BY <1>1, <1>3, <1>5, <2>1 DEF Cooldowns, FiredHoldsWakes
  <2>5. LeftToWake' /\ KeyIsLeft'
    BY <1>1, <1>3, <1>5, <2>1 DEF Cooldowns, LeftToWake, KeyIsLeft
  <2>6. QED
    BY <1>3, <2>2, <2>3, <2>4, <2>5 DEF Cooldowns
<1>6. QED
  BY <1>2, <1>4, <1>5 DEF MarkMissed

\* A restart takes the marks in memory with it: the wakes whose mark the row does
\* not hold are forgotten.
LEMMA CrashCooldowns == TypeOK /\ Cooldowns /\ Crash => Cooldowns'
<1> SUFFICES ASSUME TypeOK, Cooldowns, Crash PROVE Cooldowns'
  OBVIOUS
<1>1. /\ SameWakes /\ position' = position /\ wakeEvents' = wakeEvents /\ mon' = Idle
      /\ forgotten' = forgotten \cup WithoutMark
  BY DEF Crash, SameWakes
<1>2. mon'.at = "idle" /\ ~mon'.marked /\ ~mon'.quiet /\ ~Ticking' /\ ~Looping'
  BY <1>1, IdleMonitor DEF Ticking, Looping
<1>3. /\ \A i \in DOMAIN wakeEvents : WireOf(i)' = WireOf(i) /\ HeldAt(i)' = HeldAt(i)
      /\ WakesApart'
  BY <1>1, SameWakesKeep DEF Cooldowns
<1>4. \A i \in Remembered' : HeldAt(i)' <= position'.lastFired[WireOf(i)']
  <2> SUFFICES ASSUME NEW i \in Remembered' PROVE HeldAt(i) <= position.lastFired[WireOf(i)]
    BY <1>1, <1>3 DEF Remembered
  <2>1. i \in DOMAIN wakeEvents /\ ~(position.lastFired[WireOf(i)] < HeldAt(i))
    BY <1>1 DEF Remembered, WithoutMark, WireOf, HeldAt
  <2>2. WireOf(i) \in Wires /\ HeldAt(i) \in Nat
    BY <2>1, MarkTypes
  <2>3. position.lastFired[WireOf(i)] \in Int
    BY <2>2, MarkTypes
  <2>4. QED
    BY <2>1, <2>2, <2>3
<1>5. MarksAreReached'
  BY <1>1, <1>2, <1>3 DEF Cooldowns, MarksAreReached, Open
<1>6. MarksHoldWakes'
  BY <1>2, <1>4 DEF MarksHoldWakes
<1>7. FiredHoldsWakes' /\ LeftToWake' /\ KeyIsLeft'
  BY <1>2 DEF FiredHoldsWakes, LeftToWake, KeyIsLeft, Sending, Looping
<1>8. QED
  BY <1>3, <1>5, <1>6, <1>7 DEF Cooldowns

\* New tripwires start without cooldowns, and nothing is left to remember.
LEMMA RearmedCooldowns ==
  ASSUME TypeOK, Cooldowns, mon' = mon, wakeEvents' = wakeEvents, forgotten' = DOMAIN wakeEvents,
         Open' => Open, position'.barsHeld = position.barsHeld, position'.lastFired = Unmarked
  PROVE  Cooldowns'
<1>1. Remembered' = {} /\ (Ticking' <=> Ticking) /\ (Looping' <=> Looping) /\ (Sending' <=> Sending)
  BY DEF Remembered, Ticking, Looping, Sending
<1>2. ASSUME NEW v \in Wires
      PROVE  position'.lastFired[v] <= position.barsHeld /\ position'.lastFired[v] <= mon.durable[v]
  <2>1. position'.lastFired[v] = Never /\ Never = -1
    BY DEF Unmarked, Never
  <2>2. position.barsHeld \in Nat
    BY MarkTypes
  <2>3. mon.durable[v] \in Bars \cup {Never}
    BY DEF TypeOK, Monitor, Marks
  <2>4. Never <= mon.durable[v]
    BY <2>1, <2>3 DEF Bars
  <2>5. QED
    BY <2>1, <2>2, <2>4
<1>3. MarksAreReached'
  BY <1>1, <1>2 DEF Cooldowns, MarksAreReached, HeldAt
<1>4. MarksHoldWakes'
  BY <1>1, <1>2 DEF Cooldowns, MarksHoldWakes
<1>5. FiredHoldsWakes' /\ LeftToWake' /\ WakesApart'
  BY <1>1 DEF Cooldowns, FiredHoldsWakes, LeftToWake, WakesApart
<1>6. KeyIsLeft'
  BY DEF Cooldowns, KeyIsLeft, Sending
<1>7. QED
  BY <1>3, <1>4, <1>5, <1>6 DEF Cooldowns

\* Every wake that is recorded leaves a mark, in memory or in the row, until an
\* answer replaces the tripwires or the tick ends before the mark is stored.
LEMMA NextCooldowns ==
  ASSUME IInv, Cooldowns, Next
  PROVE  Cooldowns'
<1>1. RowInv /\ TypeOK /\ mon \in Monitor /\ position \in PositionRow
  BY DEF IInv, RowInv, TypeOK
<1>3. CASE StartTick
  BY <1>1, <1>3, StartTickCooldowns
<1>4. CASE ReconcileFailedWakes
  <2>1. /\ mon.at = "reconcile" /\ mon' = [mon EXCEPT !.at = "feed"]
        /\ \E n, b : position' = [position EXCEPT !.failedWakes = n, !.needsAttention = b]
        /\ wakeEvents' = [i \in DOMAIN wakeEvents |-> [wakeEvents[i] EXCEPT !.counted = @ \/ i \in Unanswered]]
    BY <1>4 DEF ReconcileFailedWakes
  <2>2. /\ mon'.at = "feed" /\ mon'.barsHeld = mon.barsHeld /\ mon'.durable = mon.durable
        /\ mon'.fired = mon.fired /\ mon'.toWake = mon.toWake /\ mon'.quiet = mon.quiet
        /\ mon'.marked = mon.marked
    BY <1>1, <2>1 DEF Monitor
  <2>3. /\ position'.status = position.status /\ position'.barsHeld = position.barsHeld
        /\ position'.lastFired = position.lastFired
    BY <1>1, <2>1 DEF PositionRow
  <2>4. SameWakes
    <3>0. forgotten' = forgotten
      BY <1>4 DEF ReconcileFailedWakes
    <3>1. \A i \in DOMAIN wakeEvents : wakeEvents[i] \in WakeEvent
      BY <1>1, Recorded DEF TypeOK
    <3>2. ASSUME NEW i \in DOMAIN wakeEvents
          PROVE  wakeEvents'[i].key = wakeEvents[i].key /\ wakeEvents'[i].barsHeld = wakeEvents[i].barsHeld
      <4>1. wakeEvents[i] \in WakeEvent /\ wakeEvents'[i] = [wakeEvents[i] EXCEPT !.counted = @ \/ i \in Unanswered]
        BY <2>1, <3>1
      <4>2. QED
        BY <4>1 DEF WakeEvent
    <3>3. QED
      BY <2>1, <3>0, <3>2 DEF SameWakes
  <2>5. QED
    BY <1>1, <2>1, <2>2, <2>3, <2>4, MarksKept DEF Ticking, Looping, Sending, Open
<1>5. CASE FeedFails
  BY <1>1, <1>5, TickEnds DEF FeedFails, SameWakes, Open, Looping
<1>6. CASE FeedAnswers
  <2>1. /\ mon.at = "feed" /\ SameWakes
        /\ \E f : mon' = [mon EXCEPT !.at = "bars", !.first = f, !.last = newest]
        /\ \E b : position' = [position EXCEPT !.needsAttention = b]
    BY <1>6 DEF FeedAnswers, SameWakes
  <2>2. /\ mon'.at = "bars" /\ mon'.barsHeld = mon.barsHeld /\ mon'.durable = mon.durable
        /\ mon'.fired = mon.fired /\ mon'.toWake = mon.toWake /\ mon'.quiet = mon.quiet
        /\ mon'.marked = mon.marked
    BY <1>1, <2>1 DEF Monitor
  <2>3. /\ position'.status = position.status /\ position'.barsHeld = position.barsHeld
        /\ position'.lastFired = position.lastFired
    BY <1>1, <2>1 DEF PositionRow
  <2>4. QED
    BY <1>1, <2>1, <2>2, <2>3, MarksKept DEF Ticking, Looping, Sending, Open
<1>7. CASE JudgeExit
  <2>1. position'.status = "closed"
    BY <1>1, <1>7 DEF JudgeExit, Closed, PositionRow
  <2>2. QED
    BY <1>1, <1>7, <2>1, TickEnds DEF JudgeExit, SameWakes, Open
<1>8. ASSUME NEW stop \in Levels, NEW fires \in SUBSET (mon.wires \ StaleWires), JudgeHold(stop, fires)
      PROVE  Cooldowns'
  BY <1>1, <1>8, JudgeHoldCooldowns
<1>9. ASSUME NEW fires \in SUBSET (mon.wires \cap StaleWires), FinishBars(fires)
      PROVE  Cooldowns'
  BY <1>1, <1>9, FinishBarsCooldowns
<1>10. CASE RecordWake
  <2>1. mon.at = "record" /\ mon.key \in WakeKeys /\ Looping
    BY <1>10 DEF RecordWake, IInv, WakeInv, KeyIsKnown, Sending, Looping
  <2>2. mon.key[1] \in mon.toWake
    BY <2>1 DEF Cooldowns, KeyIsLeft, Sending
  <2>3. mon' = WakeDone(mon, mon.key[1], TRUE) /\ forgotten' = forgotten
    BY <1>10 DEF RecordWake
  <2>4. \/ position' = position /\ wakeEvents' = wakeEvents
        \/ /\ position' = [position EXCEPT !.wakes = @ + 1]
           /\ wakeEvents' = Append(wakeEvents, NewEvent)
    BY <1>10 DEF RecordWake, NewEvent
  <2>5. NewEvent \in WakeEvent /\ NewEvent.key = mon.key /\ NewEvent.barsHeld = mon.barsHeld
    BY <1>1, <2>1 DEF NewEvent, WakeEvent, TypeOK, Monitor
  <2>6. /\ position'.status = position.status /\ position'.barsHeld = position.barsHeld
        /\ position'.lastFired = position.lastFired
    BY <1>1, <2>4 DEF PositionRow
  <2>7. \/ SameWakes
        \/ \E e \in WakeEvent : /\ e.key[1] = mon.key[1] /\ e.barsHeld = mon.barsHeld
                                /\ wakeEvents' = Append(wakeEvents, e)
    BY <2>3, <2>4, <2>5 DEF SameWakes
  <2>8. QED
    BY <1>1, <2>1, <2>2, <2>3, <2>6, <2>7, WakeDoneCooldowns
<1>11. CASE SaveMarks
  BY <1>1, <1>11, SaveMarksCooldowns
<1>12. ASSUME NEW w \in Wires, SkipWake(w) PROVE Cooldowns'
  <2>1. /\ Looping /\ w \in mon.toWake /\ SameWakes
        /\ mon' = WakeDone(mon, w, TRUE) /\ position' = position /\ forgotten' = forgotten
    BY <1>12 DEF SkipWake, Looping, SameWakes
  <2>2. QED
    BY <1>1, <2>1, WakeDoneCooldowns
<1>13. ASSUME NEW w \in Wires, EnqueueWake(w) PROVE Cooldowns'
  <2>1. mon.at = "wakes" /\ Looping /\ w \in mon.toWake /\ SameWakes /\ position' = position
    BY <1>13 DEF EnqueueWake, Looping, SameWakes
  <2>2. /\ Sending' /\ mon'.key = KeyOf(w)
        /\ mon'.barsHeld = mon.barsHeld /\ mon'.durable = mon.durable
        /\ mon'.fired = mon.fired /\ mon'.toWake = mon.toWake /\ mon'.quiet = mon.quiet
        /\ mon'.marked = mon.marked
    BY <1>1, <1>13, Enqueued
  <2>3. mon'.key[1] \in mon.toWake
    BY <2>1, <2>2 DEF KeyOf
  <2>4. (Ticking' <=> Ticking) /\ (Looping' <=> Looping) /\ mon'.at # "mark"
    BY <2>1, <2>2 DEF Ticking, Looping, Sending
  <2>5. QED
    BY <1>1, <2>1, <2>2, <2>3, <2>4, MarksKept DEF Open
<1>14. CASE RaiseAttention
  <2>1. /\ Looping /\ SameWakes /\ forgotten' = forgotten /\ mon.key[1] \in mon.toWake
        /\ mon' = WakeDone(mon, mon.key[1], TRUE)
        /\ position' = [position EXCEPT !.needsAttention = TRUE]
    BY <1>14 DEF RaiseAttention, Looping, SameWakes, Cooldowns, KeyIsLeft, Sending
  <2>2. /\ position'.status = position.status /\ position'.barsHeld = position.barsHeld
        /\ position'.lastFired = position.lastFired
    BY <1>1, <2>1 DEF PositionRow
  <2>3. QED
    BY <1>1, <2>1, <2>2, WakeDoneCooldowns
\* The agent, the operator and the clock write no mark.
<1>15. ASSUME mon' = mon, wakeEvents' = wakeEvents, forgotten' = forgotten,
              position'.status = position.status \/ position'.status = "closed",
              position'.barsHeld = position.barsHeld, position'.lastFired = position.lastFired
       PROVE  Cooldowns'
  <2>1. SameWakes
    BY <1>15 DEF SameWakes
  <2>2. position.status \in {"open", "closed"}
    BY <1>1 DEF PositionRow
  <2>3. Open' => Open
    BY <1>15, <2>2 DEF Open
  <2>4. Sending' => mon'.key[1] \in mon.toWake
    BY <1>15 DEF Cooldowns, KeyIsLeft, Sending
  <2>5. (Ticking' <=> Ticking) /\ (Looping' <=> Looping)
    BY <1>15 DEF Ticking, Looping
  <2>6. QED
    BY <1>1, <1>15, <2>1, <2>3, <2>4, <2>5, MarksKept
<1>16. ASSUME NEW k \in WakeKeys, NEW answer \in Answers, NEW stop \in Levels, NEW wires \in SUBSET Wires,
              Answer(k, answer, stop, wires)
       PROVE  Cooldowns'
  <2>1. mon' = mon /\ wakeEvents' = wakeEvents
    BY <1>16 DEF Answer
  <2>2. /\ position'.barsHeld = position.barsHeld
        /\ position'.status = position.status \/ position'.status = "closed"
        /\ \/ position'.lastFired = position.lastFired /\ forgotten' = forgotten
           \/ position'.lastFired = Unmarked /\ forgotten' = DOMAIN wakeEvents
    BY <1>1, <1>16, AnswerRow
  <2>3. Open' => Open
    BY <1>1, <2>2 DEF PositionRow, Open
  <2>4. QED
    BY <1>1, <1>15, <2>1, <2>2, <2>3, RearmedCooldowns
<1>17. CASE \/ \E k \in WakeKeys, status \in {"rejected", "unanswered"} : EndWithoutEffect(k, status)
            \/ \E to \in {"on", "off", "moved"} : SwitchAgent(to)
            \/ CompleteBar
  BY <1>15, <1>17 DEF EndWithoutEffect, SwitchAgent, CompleteBar
<1>18. CASE ReconcileFails
  <2>1. mon.at = "reconcile" /\ mon' = [mon EXCEPT !.at = "feed"] /\ position' = position /\ SameWakes
    BY <1>18 DEF ReconcileFails, SameWakes
  <2>2. /\ mon'.at = "feed" /\ mon'.barsHeld = mon.barsHeld /\ mon'.durable = mon.durable
        /\ mon'.fired = mon.fired /\ mon'.toWake = mon.toWake /\ mon'.quiet = mon.quiet
        /\ mon'.marked = mon.marked
    BY <1>1, <2>1 DEF Monitor
  <2>3. QED
    BY <1>1, <2>1, <2>2, MarksKept DEF Ticking, Looping, Sending, Open
<1>19. ASSUME NEW w \in Wires, WakeFails(w) PROVE Cooldowns'
  <2>1. SameWakes /\ forgotten' = forgotten /\ position' = position /\ Looping /\ w \in mon.toWake
    BY <1>19 DEF WakeFails, SameWakes, Looping, Cooldowns, KeyIsLeft, Sending
  <2>2. PICK ok \in BOOLEAN : mon' = WakeDone(mon, w, ok)
    BY <1>19 DEF WakeFails
  <2>3. CASE mon' = WakeDone(mon, w, TRUE)
    BY <1>1, <2>1, <2>3, WakeDoneCooldowns
  <2>4. CASE mon' = WakeDone(mon, w, FALSE)
    BY <1>1, <2>1, <2>4, WakeMissedCooldowns
  <2>5. QED
    BY <2>2, <2>3, <2>4
<1>20. CASE Tick
  BY <1>3, <1>4, <1>5, <1>6, <1>7, <1>8, <1>9, <1>10, <1>11, <1>12, <1>13, <1>14, <1>20 DEF Tick, Judge, Wake
<1>21. CASE Others
  BY <1>1, <1>16, <1>17, <1>18, <1>19, <1>21, CrashCooldowns DEF Others
<1>22. QED
  BY <1>20, <1>21 DEF Next

\* Two recorded wakes of one tripwire are a cooldown apart, and a tripwire that
\* fires once wakes once, whatever fails and whatever the agent answers, unless
\* the tripwires were replaced or a tick ended before it stored the mark.
THEOREM CooldownsAreKept == Spec => []CooldownKept
<1>1. Init => Cooldowns
  BY InitCooldowns
<1>2. IInv /\ Cooldowns /\ [Next]_vars => Cooldowns'
  <2> SUFFICES ASSUME IInv, Cooldowns, [Next]_vars PROVE Cooldowns'
    OBVIOUS
  <2>1. CASE Next
    BY <2>1, NextCooldowns
  <2>2. CASE UNCHANGED vars
    <3>1. TypeOK /\ SameWakes
      BY <2>2 DEF vars, SameWakes, IInv, RowInv
    <3>2. mon' = mon /\ position' = position
      BY <2>2 DEF vars
    <3>3. Sending' => mon'.key[1] \in mon.toWake
      BY <3>2 DEF Cooldowns, KeyIsLeft, Sending
    <3>4. QED
      BY <3>1, <3>2, <3>3, MarksKept DEF Ticking, Looping, Open
  <2>3. QED
    BY <2>1, <2>2
<1>3. Cooldowns => CooldownKept
  BY DEF Cooldowns, WakesApart, Remembered, CooldownKept, WireOf, HeldAt
<1>4. QED
  BY <1>1, <1>2, <1>3, Inductive, PTL DEF Spec
=============================================================================
