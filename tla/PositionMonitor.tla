--------------------------- MODULE PositionMonitor ---------------------------
(***************************************************************************)
(* The position monitor of the control plane (platform/internal/monitor    *)
(* with queue/positions.go): every tick it reads an open shadow position,  *)
(* replays the completed bars the position has not seen, and wakes the     *)
(* owning agent when a tripwire fires.  It works on a copy of the row and  *)
(* holds no lock, while a woken agent may tighten the stop, replace the    *)
(* tripwires or close the position, and an operator may switch the agent.  *)
(* One statement or transaction on the database is one action.             *)
(*                                                                         *)
(* Positions do not share rows, so the module follows one position.  Its   *)
(* minute bars are numbered by the time they open: bar 1 is the first to   *)
(* be judged, and 0 as the last bar is the NULL of a new position.  Stops  *)
(* are levels that grow towards price, which is GREATEST for a long and    *)
(* LEAST for a short.  What one bar does to the position (Step in eval.go) *)
(* is a choice among the results Step can have.                            *)
(***************************************************************************)
EXTENDS Integers, Sequences, FiniteSets

CONSTANTS
  Wires,          \* tripwires, by the key that tells them apart
  StaleWires,     \* those of kind feed_stale
  OnceWires,      \* those of kind no_progress, which fire once
  PlanWires,      \* the tripwires of the entry's plan
  Levels,         \* stop levels
  FirstStop,      \* the stop of the entry
  EntryBar,       \* 1 when the entry falls on the very open of bar 1, 0 when it falls before it
  LastBar,        \* bound: how many bars complete
  Window,         \* how many of the newest bars the feed serves
  CooldownBars, MaxWakesPer24h, MaxWakesPerTrade, MaxFailedWakes,
  Day,            \* 24 hours, in bars
  Answers,        \* what a woken agent may propose
  Faults          \* bound: restarts and failed database calls

Never == -1
Bars == 0..LastBar
Marks == [Wires -> Bars \cup {Never}]
\* The idempotency key of a wake names the position, the tripwire and the bar.
WakeKeys == Wires \X Bars
NoKey == <<>>

ASSUME MonitorAssumption ==
  /\ StaleWires \subseteq Wires /\ OnceWires \subseteq Wires /\ PlanWires \subseteq Wires
  /\ Levels \subseteq Nat /\ FirstStop \in Levels
  /\ EntryBar \in {0, 1}
  /\ LastBar \in Nat /\ Faults \in Nat
  /\ Window \in Nat \ {0} /\ Day \in Nat \ {0} /\ CooldownBars \in Nat \ {0}
  /\ MaxWakesPer24h \in Nat \ {0} /\ MaxWakesPerTrade \in Nat \ {0} /\ MaxFailedWakes \in Nat \ {0}
  /\ Answers \subseteq {"hold", "close", "tighten_stop", "set_tripwires"}

VARIABLES
  position,    \* the row of shadow_positions
  wakeEvents,  \* the "wake" rows of position_events; counted when a wake_failed row names it
  wakeRun,     \* the run enqueued under each key, with the stop its snapshot froze
  agent,       \* "on", "off", or "moved" to another market
  newest,      \* the newest completed bar
  judged,      \* history: the bars that were judged and whose result was stored
  forgotten,   \* history: the recorded wakes that no cooldown need remember any more
  mon,         \* the local state of the monitor's tick
  faults

vars == <<position, wakeEvents, wakeRun, agent, newest, judged, forgotten, mon, faults>>

-----------------------------------------------------------------------------
PositionRow ==
  [status : {"open", "closed"}, stop : Levels, barsHeld : Bars, lastBar : Bars, lastFired : Marks,
   wires : SUBSET Wires, wakes : Nat, failedWakes : Nat, needsAttention : BOOLEAN]

RunStates == {"none", "unmatched", "pending", "answered", "rejected", "unanswered"}
WakeRun == [status : RunStates, stop : Levels]
WakeEvent == [key : WakeKeys, at : Bars, barsHeld : Bars, counted : BOOLEAN]

\* at is the next statement of the tick.  durable holds the marks that are
\* stored, fired those of the in-memory position; quiet is the loop over the
\* feed_stale tripwires.
Monitor ==
  [at : {"idle", "reconcile", "feed", "bars", "wakes", "record", "attention", "mark"},
   stop : Levels, barsHeld : Bars, lastBar : Bars, durable : Marks, fired : Marks,
   wires : SUBSET Wires, wakes : Nat, first : Int, last : Bars, newBars : BOOLEAN,
   quiet : BOOLEAN, toWake : SUBSET Wires, key : WakeKeys \cup {NoKey}, marked : BOOLEAN]

Unmarked == [w \in Wires |-> Never]

Idle ==
  [at |-> "idle", stop |-> FirstStop, barsHeld |-> 0, lastBar |-> 0, durable |-> Unmarked,
   fired |-> Unmarked, wires |-> {}, wakes |-> 0, first |-> 0, last |-> 0, newBars |-> FALSE,
   quiet |-> FALSE, toWake |-> {}, key |-> NoKey, marked |-> FALSE]

Tighter(a, b) == IF a > b THEN a ELSE b

-----------------------------------------------------------------------------
(* The queries of positions.go.                                            *)

\* Fault: the monitor's copy of the stop replaces the stored one.
SavedOverwrites(p, m) ==
  IF p.status = "open"
  THEN [p EXCEPT !.stop = m.stop, !.barsHeld = m.barsHeld, !.lastBar = m.lastBar,
                 !.lastFired = [w \in Wires |-> IF m.durable[w] = Never THEN p.lastFired[w] ELSE m.durable[w]]]
  ELSE p

\* Fault: the write also touches a closed position.
SavedAnyStatus(p, m) ==
  [p EXCEPT !.stop = Tighter(p.stop, m.stop), !.barsHeld = m.barsHeld, !.lastBar = m.lastBar,
            !.lastFired = [w \in Wires |-> IF m.durable[w] = Never THEN p.lastFired[w] ELSE m.durable[w]]]

\* Fault: last_bar_time is left out of the write.
SavedForgetsBar(p, m) ==
  IF p.status = "open"
  THEN [p EXCEPT !.stop = Tighter(p.stop, m.stop), !.barsHeld = m.barsHeld,
                 !.lastFired = [w \in Wires |-> IF m.durable[w] = Never THEN p.lastFired[w] ELSE m.durable[w]]]
  ELSE p

\* SavePosition: only an open row, the stop only towards price, the cooldown
\* marks merged, the plan untouched.
Saved(p, m) ==
  IF p.status = "open"
  THEN [p EXCEPT !.stop = Tighter(p.stop, m.stop), !.barsHeld = m.barsHeld, !.lastBar = m.lastBar,
                 !.lastFired = [w \in Wires |-> IF m.durable[w] = Never THEN p.lastFired[w] ELSE m.durable[w]]]
  ELSE p

Closed(p) == [p EXCEPT !.status = "closed"]

Status(i) == wakeRun[wakeEvents[i].key].status

\* WakeState: the recorded wakes whose run has not finished, and the recorded
\* wakes of the last 24 hours.
InFlight == {i \in DOMAIN wakeEvents : Status(i) = "pending"}

WithinDay(t) == {i \in DOMAIN wakeEvents : wakeEvents[i].at > t - Day /\ wakeEvents[i].at <= t}

-----------------------------------------------------------------------------
(* The tick.                                                               *)

\* Fault: the positions of a switched-off agent are left out.
StartTickOfEnabled ==
  /\ agent = "on"
  /\ mon.at = "idle"
  /\ position.status = "open"
  /\ mon' = [Idle EXCEPT !.at = "reconcile", !.stop = position.stop, !.barsHeld = position.barsHeld,
                         !.lastBar = position.lastBar, !.durable = position.lastFired,
                         !.fired = position.lastFired, !.wires = position.wires,
                         !.wakes = position.wakes]
  /\ UNCHANGED <<position, wakeEvents, wakeRun, agent, newest, judged, forgotten, faults>>

\* ListPositions: the tick works on this copy of the row from here on.
StartTick ==
  /\ mon.at = "idle"
  /\ position.status = "open"
  /\ mon' = [Idle EXCEPT !.at = "reconcile", !.stop = position.stop, !.barsHeld = position.barsHeld,
                         !.lastBar = position.lastBar, !.durable = position.lastFired,
                         !.fired = position.lastFired, !.wires = position.wires,
                         !.wakes = position.wakes]
  /\ UNCHANGED <<position, wakeEvents, wakeRun, agent, newest, judged, forgotten, faults>>

Unanswered == {i \in DOMAIN wakeEvents : Status(i) = "unanswered" /\ ~wakeEvents[i].counted}

\* Each wake run that ended without an answer is counted once.
ReconcileFailedWakes ==
  /\ mon.at = "reconcile"
  /\ LET failed == position.failedWakes + Cardinality(Unanswered)
     IN position' = [position EXCEPT !.failedWakes = failed,
          !.needsAttention = @ \/ (Unanswered # {} /\ failed >= MaxFailedWakes)]
  /\ wakeEvents' = [i \in DOMAIN wakeEvents |->
                      [wakeEvents[i] EXCEPT !.counted = @ \/ i \in Unanswered]]
  /\ mon' = [mon EXCEPT !.at = "feed"]
  /\ UNCHANGED <<wakeRun, agent, newest, judged, forgotten, faults>>

FeedFails ==
  /\ mon.at = "feed"
  /\ mon' = Idle
  /\ UNCHANGED <<position, wakeEvents, wakeRun, agent, newest, judged, forgotten, faults>>

PrevBar == IF mon.lastBar = 0 THEN EntryBar ELSE mon.lastBar

\* Fault: a gap of one bar passes.
GapBeforeOneMore(first) == first > PrevBar + 2

\* The feed's oldest bar is later than the next bar this position needs.
GapBefore(first) == first > PrevBar + 1

\* The feed serves the newest bars, and a gap before them asks for attention.
FeedAnswers ==
  /\ mon.at = "feed"
  /\ LET first == newest - Window + 1
     IN /\ mon' = [mon EXCEPT !.at = "bars", !.first = first, !.last = newest]
        /\ position' = [position EXCEPT !.needsAttention = @ \/ GapBefore(first)]
  /\ UNCHANGED <<wakeEvents, wakeRun, agent, newest, judged, forgotten, faults>>

\* Fault: the last judged bar is judged again.
NextBarAgain == IF mon.first > mon.lastBar THEN mon.first ELSE Tighter(mon.lastBar, 1)

\* The oldest bar of the window that was not judged.
NextBar == IF mon.first > mon.lastBar + 1 THEN mon.first ELSE mon.lastBar + 1

\* The bar touches the stop or the target, or the kill switch, the
\* invalidation or the time stop closes the position.
JudgeExit ==
  /\ mon.at = "bars"
  /\ NextBar <= mon.last
  /\ position' = Closed(position)
  /\ judged' = IF position.status = "open" THEN judged \cup {NextBar} ELSE judged
  /\ mon' = Idle
  /\ UNCHANGED <<wakeEvents, wakeRun, agent, newest, forgotten, faults>>

CoolingDown(marks, w, held) ==
  marks[w] # Never /\ (w \in OnceWires \/ held - marks[w] < CooldownBars)

\* The bar is held: it may trail the stop and fire tripwires, each on its own
\* cooldown.  The trail needs the indicators, which only the newest bar gets.
JudgeHold(stop, fires) ==
  LET held == mon.barsHeld + 1
      stepped == [mon EXCEPT
        !.at = IF fires = {} THEN "bars" ELSE "wakes",
        !.stop = Tighter(position.stop, stop), !.barsHeld = held, !.lastBar = NextBar,
        !.fired = [w \in Wires |-> IF w \in fires THEN held ELSE mon.fired[w]],
        !.newBars = TRUE, !.toWake = fires]
  IN /\ mon.at = "bars"
     /\ NextBar <= mon.last
     /\ stop = mon.stop \/ (stop > mon.stop /\ NextBar = mon.last)
     /\ \A w \in fires : ~CoolingDown(mon.fired, w, held)
     /\ position' = Saved(position, [stepped EXCEPT !.stop = stop])
     /\ IF position.status = "open"
        THEN judged' = judged \cup {NextBar} /\ mon' = stepped
        ELSE judged' = judged /\ mon' = Idle
     /\ UNCHANGED <<wakeEvents, wakeRun, agent, newest, forgotten, faults>>

\* Every bar was judged; a silent feed fires its own tripwires.
FinishBars(fires) ==
  /\ mon.at = "bars"
  /\ NextBar > mon.last
  /\ fires # {} => ~mon.newBars
  /\ \A w \in fires : ~CoolingDown(mon.fired, w, mon.barsHeld)
  /\ mon' = IF fires = {} THEN Idle
            ELSE [mon EXCEPT !.at = "wakes", !.quiet = TRUE, !.toWake = fires]
  /\ UNCHANGED <<position, wakeEvents, wakeRun, agent, newest, judged, forgotten, faults>>

-----------------------------------------------------------------------------
(* A wake.                                                                 *)

\* Where the tick goes on after a wake, or after the marks were stored: the
\* loop over silent-feed tripwires stores each mark, the loop over bars
\* stores those of one bar together.
Continue(m, marked) ==
  IF marked /\ (m.quiet \/ m.toWake = {}) THEN [m EXCEPT !.at = "mark"]
  ELSE IF m.toWake # {} THEN [m EXCEPT !.at = "wakes"]
  ELSE IF m.quiet THEN Idle ELSE [m EXCEPT !.at = "bars"]

\* Fault: the cooldown of a wake that was sent is not kept.
WakeDoneUnmarked(m, w, ok) ==
  LET done == [m EXCEPT !.toWake = m.toWake \ {w}, !.key = NoKey, !.marked = m.marked \/ ok]
  IN Continue(done, done.marked)

\* wake returned: true leaves a cooldown mark, false lets a later bar retry.
WakeDone(m, w, ok) ==
  LET done == [m EXCEPT
        !.toWake = m.toWake \ {w}, !.key = NoKey, !.marked = m.marked \/ ok,
        !.durable = [v \in Wires |-> IF ok /\ v = w THEN m.barsHeld ELSE m.durable[v]]]
  IN Continue(done, done.marked)

\* Fault: the in-flight check is left out.
MayWakeTwice ==
  /\ agent # "off"
  /\ Cardinality(WithinDay(newest)) < MaxWakesPer24h
  /\ mon.wakes < MaxWakesPerTrade

\* Fault: one wake more than the budget of the day.
MayWakeOneMore ==
  /\ agent # "off"
  /\ InFlight = {}
  /\ Cardinality(WithinDay(newest)) <= MaxWakesPer24h
  /\ mon.wakes < MaxWakesPerTrade

\* An enabled agent, no recorded wake in flight, and both budgets.  The trade's
\* budget is compared with the count read when the tick began.
MayWake ==
  /\ agent # "off"
  /\ InFlight = {}
  /\ Cardinality(WithinDay(newest)) < MaxWakesPer24h
  /\ mon.wakes < MaxWakesPerTrade

SkipWake(w) ==
  /\ mon.at = "wakes"
  /\ w \in mon.toWake
  /\ ~MayWake
  /\ mon' = WakeDone(mon, w, TRUE)
  /\ UNCHANGED <<position, wakeEvents, wakeRun, agent, newest, judged, forgotten, faults>>

\* Ingest under the wake's key.  A key that is stored returns the run it has;
\* a key stored for an agent on another market has none.
EnqueueWake(w) ==
  LET k == <<w, IF mon.quiet THEN mon.last ELSE mon.lastBar>>
      status == IF wakeRun[k].status # "none" THEN wakeRun[k].status
                ELSE IF agent = "moved" THEN "unmatched" ELSE "pending"
  IN /\ mon.at = "wakes"
     /\ w \in mon.toWake
     /\ MayWake
     /\ wakeRun' = IF wakeRun[k].status # "none" THEN wakeRun
                   ELSE [wakeRun EXCEPT ![k] = [status |-> status, stop |-> mon.stop]]
     /\ mon' = [mon EXCEPT !.at = IF status = "unmatched" THEN "attention" ELSE "record", !.key = k]
     /\ UNCHANGED <<position, wakeEvents, agent, newest, judged, forgotten, faults>>

\* A wake without a run asks for attention and is not tried again.
RaiseAttention ==
  /\ mon.at = "attention"
  /\ position' = [position EXCEPT !.needsAttention = TRUE]
  /\ mon' = WakeDone(mon, mon.key[1], TRUE)
  /\ UNCHANGED <<wakeEvents, wakeRun, agent, newest, judged, forgotten, faults>>

\* RecordWake ignores a run it has noted.
RecordWake ==
  /\ mon.at = "record"
  /\ IF \E i \in DOMAIN wakeEvents : wakeEvents[i].key = mon.key
     THEN UNCHANGED <<position, wakeEvents>>
     ELSE /\ position' = [position EXCEPT !.wakes = @ + 1]
          /\ wakeEvents' = Append(wakeEvents, [key |-> mon.key, at |-> newest,
                                               barsHeld |-> mon.barsHeld, counted |-> FALSE])
  /\ mon' = WakeDone(mon, mon.key[1], TRUE)
  /\ UNCHANGED <<wakeRun, agent, newest, judged, forgotten, faults>>

\* The cooldown marks are stored once their wakes are enqueued and recorded.
SaveMarks ==
  /\ mon.at = "mark"
  /\ position' = Saved(position, mon)
  /\ mon' = Continue([mon EXCEPT !.marked = FALSE], FALSE)
  /\ UNCHANGED <<wakeEvents, wakeRun, agent, newest, judged, forgotten, faults>>

-----------------------------------------------------------------------------
(* The agent that was woken, the operator and the clock.                   *)

Resolve(k, status) == wakeRun' = [wakeRun EXCEPT ![k].status = status]

\* applyWakeTx for a valid answer, checked again against the row of now.  New
\* tripwires start without cooldowns.
Answer(k, answer, stop, wires) ==
  /\ wakeRun[k].status = "pending"
  /\ answer \in Answers
  /\ answer = "tighten_stop" => stop > wakeRun[k].stop
  /\ LET heard == [position EXCEPT !.failedWakes = 0]
     IN position' = IF position.status = "closed" THEN heard
                    ELSE CASE answer = "close" -> Closed(heard)
                           [] answer = "tighten_stop" -> [heard EXCEPT !.stop = Tighter(position.stop, stop)]
                           [] answer = "set_tripwires" -> [heard EXCEPT !.wires = wires, !.lastFired = Unmarked]
                           [] OTHER -> heard
  /\ forgotten' = IF position.status = "open" /\ answer = "set_tripwires"
                  THEN DOMAIN wakeEvents ELSE forgotten
  /\ Resolve(k, "answered")
  /\ UNCHANGED <<wakeEvents, agent, newest, judged, mon, faults>>

\* A rejected answer touches nothing but the record of events; a run that
\* failed, expired or was cancelled leaves no answer.
EndWithoutEffect(k, status) ==
  /\ wakeRun[k].status = "pending"
  /\ status \in {"rejected", "unanswered"}
  /\ Resolve(k, status)
  /\ UNCHANGED <<position, wakeEvents, agent, newest, judged, forgotten, mon, faults>>

SwitchAgent(to) ==
  /\ agent' = to
  /\ UNCHANGED <<position, wakeEvents, wakeRun, newest, judged, forgotten, mon, faults>>

CompleteBar ==
  /\ newest < LastBar
  /\ newest' = newest + 1
  /\ UNCHANGED <<position, wakeEvents, wakeRun, agent, judged, forgotten, mon, faults>>

-----------------------------------------------------------------------------
(* What goes wrong.  A failed write ends the tick as a restart does.       *)

\* The recorded wakes whose cooldown mark is not stored.
WithoutMark ==
  {i \in DOMAIN wakeEvents : position.lastFired[wakeEvents[i].key[1]] < wakeEvents[i].barsHeld}

Crash ==
  /\ faults < Faults
  /\ mon.at # "idle"
  /\ faults' = faults + 1
  /\ mon' = Idle
  /\ forgotten' = forgotten \cup WithoutMark
  /\ UNCHANGED <<position, wakeEvents, wakeRun, agent, newest, judged>>

\* The failures are counted by a later tick.
ReconcileFails ==
  /\ faults < Faults
  /\ mon.at = "reconcile"
  /\ faults' = faults + 1
  /\ mon' = [mon EXCEPT !.at = "feed"]
  /\ UNCHANGED <<position, wakeEvents, wakeRun, agent, newest, judged, forgotten>>

\* The wake's own queries fail and the tick goes on.  An agent that cannot be
\* read counts as switched off, and a flag that cannot be raised is only logged;
\* after any other failure no mark is left.
WakeFails(w) ==
  /\ faults < Faults
  /\ \/ /\ mon.at = "wakes"
        /\ w \in mon.toWake
        /\ \E agentRead \in BOOLEAN : mon' = WakeDone(mon, w, ~agentRead)
     \/ /\ mon.at = "record"
        /\ w = mon.key[1]
        /\ mon' = WakeDone(mon, w, FALSE)
     \/ /\ mon.at = "attention"
        /\ w = mon.key[1]
        /\ mon' = WakeDone(mon, w, TRUE)
  /\ faults' = faults + 1
  /\ UNCHANGED <<position, wakeEvents, wakeRun, agent, newest, judged, forgotten>>

-----------------------------------------------------------------------------
Init ==
  /\ position = [status |-> "open", stop |-> FirstStop, barsHeld |-> 0, lastBar |-> 0,
                 lastFired |-> Unmarked, wires |-> PlanWires, wakes |-> 0, failedWakes |-> 0,
                 needsAttention |-> FALSE]
  /\ wakeEvents = <<>>
  /\ wakeRun = [k \in WakeKeys |-> [status |-> "none", stop |-> FirstStop]]
  /\ agent = "on"
  /\ newest = 0
  /\ judged = {}
  /\ forgotten = {}
  /\ mon = Idle
  /\ faults = 0

Judge ==
  \/ JudgeExit
  \/ \E stop \in Levels, fires \in SUBSET (mon.wires \ StaleWires) : JudgeHold(stop, fires)
  \/ \E fires \in SUBSET (mon.wires \cap StaleWires) : FinishBars(fires)

Wake == RecordWake \/ RaiseAttention \/ SaveMarks \/ \E w \in Wires : SkipWake(w) \/ EnqueueWake(w)

Tick == StartTick \/ ReconcileFailedWakes \/ FeedFails \/ FeedAnswers \/ Judge \/ Wake

Others ==
  \/ \E k \in WakeKeys :
       \/ \E answer \in Answers, stop \in Levels, wires \in SUBSET Wires : Answer(k, answer, stop, wires)
       \/ \E status \in {"rejected", "unanswered"} : EndWithoutEffect(k, status)
  \/ \E to \in {"on", "off", "moved"} : SwitchAgent(to)
  \/ CompleteBar
  \/ Crash \/ ReconcileFails
  \/ \E w \in Wires : WakeFails(w)

Next == Tick \/ Others

Spec == Init /\ [][Next]_vars

\* The ticker of the API process runs on, and the engine that failed to answer
\* a tick answers some later one.
Fairness == WF_vars(Tick) /\ SF_vars(FeedAnswers)

FairSpec == Spec /\ Fairness

-----------------------------------------------------------------------------
TypeOK ==
  /\ position \in PositionRow
  /\ wakeEvents \in Seq(WakeEvent)
  /\ wakeRun \in [WakeKeys -> WakeRun]
  /\ agent \in {"on", "off", "moved"}
  /\ newest \in Bars
  /\ judged \subseteq 1..LastBar
  /\ forgotten \subseteq DOMAIN wakeEvents
  /\ mon \in Monitor
  /\ faults \in 0..Faults

\* No bar is judged twice, after a tick that died half way or one whose
\* position was read long before: the time stop and the cooldowns count bars.
JudgedOnce ==
  position.status = "open" =>
    /\ position.barsHeld = Cardinality(judged)
    /\ \A b \in judged : b <= position.lastBar

\* A bar that no tick judged is never passed over silently: the exit plan
\* was not applied to it and the operator is asked to look.
NoSilentGap ==
  (1..position.lastBar) \subseteq judged \/ position.needsAttention

\* One wake of a position at a time, of those that were recorded.
OneWakeInFlight == Cardinality(InFlight) <= 1

\* The budget of wakes per day.
WakesPerDay == \A t \in Bars : Cardinality(WithinDay(t)) <= MaxWakesPer24h

\* Two recorded wakes of one tripwire are a cooldown apart, and one that fires
\* once is recorded once, whatever calls fail and wakes are tried again.  Two
\* things end the cooldown of a wake: an answer that replaces the tripwires, and
\* a tick that ends between the record of the wake and the store of its mark.
CooldownKept ==
  \A i, j \in DOMAIN wakeEvents :
    i < j /\ i \notin forgotten /\ wakeEvents[i].key[1] = wakeEvents[j].key[1] =>
      /\ wakeEvents[j].barsHeld - wakeEvents[i].barsHeld >= CooldownBars
      /\ wakeEvents[i].key[1] \notin OnceWires

\* The stop moves towards price only, although the monitor writes a copy that
\* may be older than the agent's.
StopOnlyTightens == [][position'.stop >= position.stop]_vars

\* A closed position takes no more bars: what the monitor still holds in
\* memory is not written over the exit.
ClosedIsFinal ==
  [][position.status = "closed" =>
       /\ position'.status = "closed"
       /\ position'.stop = position.stop
       /\ position'.barsHeld = position.barsHeld
       /\ position'.lastBar = position.lastBar]_vars

\* Whatever the agent does and however often the process restarts, every
\* completed bar is passed by an open position.
BarsAreJudged ==
  \A b \in 1..LastBar : (newest >= b) ~> (position.status = "closed" \/ position.lastBar >= b)

-----------------------------------------------------------------------------
(* What the code's comments say and its steps do not keep.                 *)

\* service.go: "a crash between the enqueue and this call must not leave a
\* wake the counters and the in-flight check cannot see".  A wake of a bar is
\* enqueued when the bar is already stored as judged, so no later tick comes back
\* to its key; the key of a silent feed comes back until the next bar.
WakesAreSeen ==
  \A k \in WakeKeys : position.status = "open" /\ wakeRun[k].status = "pending" =>
    \/ \E i \in DOMAIN wakeEvents : wakeEvents[i].key = k
    \/ mon.at = "record" /\ mon.key = k
    \/ k[2] > position.lastBar
    \/ k[1] \in StaleWires /\ k[2] = newest

\* redesign.md: "a budget of wakes per position and per day".
WakesPerTrade == position.wakes <= MaxWakesPerTrade
=============================================================================
