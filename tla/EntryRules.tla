----------------------------- MODULE EntryRules -----------------------------
(***************************************************************************)
(* Which signals of a recorded history become trades: the offline loops of *)
(* the research registry.  Each of them reads the whole history at once.   *)
(*                                                                         *)
(* A bar is [side, day, open, signal, life]: the trend, the trading day,   *)
(* whether the day's volatility gate is open, whether the rules want an    *)
(* entry at its close (confirmed, the spread small enough), and when the   *)
(* trade it would start ends (bar i + life).                               *)
(***************************************************************************)
EXTENDS Integers, SequencesExt

CONSTANTS
    Window,       \* W: the bars of an episode that may enter
    MaxLife,      \* H: the longest trade
    MaxAttempts   \* MAX_ATT: trades per session of wave23

ASSUME RulesAssumption == Window \in Nat \ {0} /\ MaxLife \in Nat \ {0} /\ MaxAttempts \in Nat \ {0}

Ordered(S) == SetToSortSeq(S, LAMBDA a, b : a < b)
Resolved(bars, i) == i + bars[i].life <= Len(bars)
SignalBars(bars) == {i \in DOMAIN bars : bars[i].signal}

-----------------------------------------------------------------------------
(* de_v2: one entry per episode of one trend in one day with the gate open *)

Active(bars, i) == bars[i].open /\ Resolved(bars, i)

PrevSame(bars, i) ==
    /\ i > 1 /\ Active(bars, i) /\ Active(bars, i - 1)
    /\ bars[i].side = bars[i - 1].side /\ bars[i].day = bars[i - 1].day

\* The first bar of each episode.
Discoveries(bars) == {i \in DOMAIN bars : Active(bars, i) /\ ~PrevSame(bars, i)}
Episode(bars, f) == {i \in f..Len(bars) : \A k \in (f + 1)..i : PrevSame(bars, k)}
Candidates(bars, f) == {i \in Episode(bars, f) \cap SignalBars(bars) : i < f + Window}

Enter_Fault(bars, acc, f) ==
    LET free == Candidates(bars, f)
    IN  IF free = {} THEN acc
        ELSE LET i == Min(free) IN [exit |-> i + bars[i].life, entries |-> acc.entries \cup {i}]
Enter(bars, acc, f) ==
    LET free == {i \in Candidates(bars, f) : i >= acc.exit}
    IN  IF free = {} THEN acc
        ELSE LET i == Min(free) IN [exit |-> i + bars[i].life, entries |-> acc.entries \cup {i}]

Replay(bars) ==
    FoldLeft(LAMBDA acc, f : Enter(bars, acc, f), [exit |-> 0, entries |-> {}], Ordered(Discoveries(bars))).entries

-----------------------------------------------------------------------------
(* Signals in time order, one trade after the other                        *)

\* fade31 (vol33 has the same loop): the entry bar comes after the last exit
\* bar; a trade the data does not resolve blocks for the longest time.
OneAtATime(bars) ==
    LET exit(i) == i + (IF Resolved(bars, i) THEN bars[i].life ELSE MaxLife)
        step(acc, i) == IF i + 1 > acc.last THEN [last |-> exit(i), kept |-> acc.kept \cup {i}] ELSE acc
    IN  {i \in FoldLeft(step, [last |-> 0, kept |-> {}], Ordered(SignalBars(bars))).kept : Resolved(bars, i)}

\* pairs16: the exit is decided at the close of bar i + life and made at the
\* next open; a trade without an exit ends the search.
FindTrades(bars) ==
    LET step(acc, i) ==
            IF acc.stop \/ i < acc.next THEN acc
            ELSE IF i + bars[i].life + 1 > Len(bars) THEN [acc EXCEPT !.stop = TRUE]
            ELSE [acc EXCEPT !.next = i + bars[i].life + 1, !.kept = @ \cup {i}]
    IN  FoldLeft(step, [stop |-> FALSE, next |-> 0, kept |-> {}], Ordered(SignalBars(bars))).kept

\* swing43: entry at the close of a setup, exit at a later close, the next
\* entry after that close.
SwingTrades(bars) ==
    LET step(acc, i) ==
            IF acc.stop \/ i < acc.free THEN acc
            ELSE IF ~Resolved(bars, i) THEN [acc EXCEPT !.stop = TRUE]
            ELSE [acc EXCEPT !.free = i + bars[i].life + 1, !.kept = @ \cup {i}]
    IN  FoldLeft(step, [stop |-> FALSE, free |-> 0, kept |-> {}], Ordered(SignalBars(bars))).kept

\* swing45 runs the same exits on a setup mask of its own.
TradesFrom(bars) ==
    LET next(free) == {i \in SignalBars(bars) : i >= free}
        taken[free \in 1..(Len(bars) + 1)] ==
            IF next(free) = {} THEN {}
            ELSE LET i == Min(next(free))
                 IN  IF Resolved(bars, i) THEN {i} \cup taken[i + bars[i].life + 1] ELSE {}
    IN  taken[1]

\* wave23: some trades per session, the next signal at the last exit bar or
\* later.  Every session starts free.
RunPolicy(bars) ==
    LET step(acc, i) ==
            IF acc.stop \/ acc.attempts >= MaxAttempts \/ i < acc.free THEN acc
            ELSE IF ~Resolved(bars, i) THEN [acc EXCEPT !.stop = TRUE]
            ELSE [acc EXCEPT !.free = i + bars[i].life, !.attempts = @ + 1, !.kept = @ \cup {i}]
        session(d) == FoldLeft(step, [stop |-> FALSE, free |-> 0, attempts |-> 0, kept |-> {}],
                               Ordered({i \in SignalBars(bars) : bars[i].day = d})).kept
    IN  UNION {session(bars[i].day) : i \in DOMAIN bars}
=============================================================================
