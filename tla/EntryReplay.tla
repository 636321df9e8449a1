----------------------------- MODULE EntryReplay -----------------------------
(***************************************************************************)
(* A history that grows bar by bar, followed by traders who know only the  *)
(* bars so far, and judged again and again by the offline loops.  What an  *)
(* offline loop says of the settled past must be what its trader did.      *)
(***************************************************************************)
EXTENDS EntryRules

CONSTANTS Bars   \* the length of the history

Rules == {"replay", "fade", "pairs", "swing", "wave"}

VARIABLES
    gate,      \* the volatility gate of the replay: "none", "armed" or "fired"
    bars,      \* the history, oldest bar first
    books      \* per rule: the position held, the trades made

historyVars == <<gate, bars, books>>

\* A trader's book: the bar whose signal it holds (0: flat), the trades made,
\* the first bar of the current episode or session, the trades in it.
Book == [held |-> 0, taken |-> {}, since |-> 0, count |-> 0]

HistoryInit ==
    /\ gate \in {"none", "armed", "fired"}
    /\ bars = <<>>
    /\ books = [r \in Rules |-> Book]

\* The gate of a bar: open all day, for whole days, or from some bar of the
\* day on (gate_states: the rank of the day's open, the latched checkpoints).
GateLaw(prev, day, open) ==
    /\ gate = "none" => open
    /\ gate = "armed" /\ bars # <<>> /\ prev.day = day => open = prev.open
    /\ gate = "fired" /\ prev.open /\ prev.day = day => open

\* When a position taken at bar k no longer holds back a decision at the
\* close of bar i.
Released(r, h, k, i) == IF r \in {"pairs", "swing"} THEN i > k + h[k].life ELSE i >= k + h[k].life

\* What a trader does at the close of the last bar of h.  The wave trader's
\* session begins with no attempt and nothing held, whatever is still open.
Decided(r, b, h) ==
    LET i == Len(h)
        x == h[i]
        new == i = 1 \/ CASE r = "replay" -> \/ x.day # h[i - 1].day \/ x.side # h[i - 1].side
                                             \/ ~h[i - 1].open
                          [] r = "wave" -> x.day # h[i - 1].day
                          [] OTHER -> FALSE
        since == IF new THEN i ELSE b.since
        count == IF new THEN 0 ELSE b.count
        held == CASE b.held = 0 -> 0
                  [] b.held # 0 /\ Released(r, h, b.held, i) -> 0
                  [] r = "wave" /\ new -> 0
                  [] OTHER -> b.held
        allowed == CASE r = "replay" -> x.open /\ i < since + Window /\ count = 0
                     [] r = "wave" -> count < MaxAttempts
                     [] OTHER -> TRUE
        take == x.signal /\ held = 0 /\ allowed
    IN  [held |-> IF take THEN i ELSE held,
         taken |-> IF take THEN b.taken \cup {i} ELSE b.taken,
         since |-> since,
         count |-> IF take THEN count + 1 ELSE count]

\* The next bar closes: the trend goes on, turns, or a new day begins.  A bar
\* without a signal starts no trade; its life only says when its label is known.
Bar ==
    /\ Len(bars) < Bars
    /\ \E turn \in {"same", "flip", "day"}, open, signal \in BOOLEAN, life \in 1..MaxLife :
         LET prev == IF bars = <<>> THEN [side |-> 1, day |-> 1, open |-> FALSE] ELSE bars[Len(bars)]
             day == IF turn = "day" THEN prev.day + 1 ELSE prev.day
             bar == [side |-> IF turn = "flip" THEN -prev.side ELSE prev.side,
                     day |-> day, open |-> open, signal |-> signal, life |-> life]
         IN  /\ bars = <<>> => turn = "same"
             /\ ~signal => life = MaxLife
             /\ GateLaw(prev, day, open)
             /\ bars' = Append(bars, bar)
             /\ books' = [r \in Rules |-> Decided(r, books[r], bars')]
    /\ UNCHANGED gate

HistoryNext == Bar
HistorySpec == HistoryInit /\ [][HistoryNext]_historyVars

-----------------------------------------------------------------------------
(* The offline loops against their traders *)

\* Every trade up to here is over, whatever its length.
Settled(S) == {i \in S : i + MaxLife <= Len(bars)}
\* The same for exits made at the open after the bar that decides them.
SettledAtOpen(S) == {i \in S : i + MaxLife < Len(bars)}

\* A loop that reads the whole history enters where a trader who saw one bar
\* after the other would have entered, and learns nothing from later bars.  The
\* replay: the first permitted bar of the episode, one entry per episode, none
\* while the last position is open.  Fade, pairs and swing: none while the last
\* position is open.  Wave: none while a position of the same session is open,
\* and no more than the attempts of a session.
LoopsAreCausal ==
    /\ Settled(Replay(bars)) = Settled(books["replay"].taken)
    /\ Settled(OneAtATime(bars)) = Settled(books["fade"].taken)
    /\ SettledAtOpen(FindTrades(bars)) = SettledAtOpen(books["pairs"].taken)
    /\ Settled(SwingTrades(bars)) = Settled(books["swing"].taken)
    /\ Settled(TradesFrom(bars)) = Settled(books["swing"].taken)
    /\ Settled(RunPolicy(bars)) = Settled(books["wave"].taken)
=============================================================================
