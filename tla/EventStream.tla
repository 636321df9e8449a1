----------------------------- MODULE EventStream -----------------------------
(***************************************************************************)
(* The live event stream of the control plane: transactions of the queue   *)
(* append to run_events, the handler of /api/v1/stream                     *)
(* (platform/internal/api/server.go) polls that log for one browser, and   *)
(* the page (platform/web/lib/live.ts) loads its state again when a frame  *)
(* tells it to.                                                            *)
(*                                                                         *)
(* An event gets its id at INSERT and becomes visible at COMMIT, so ids    *)
(* become visible out of order and some never do.  The handler's queries   *)
(* and its writes of single frames are steps of their own, so events       *)
(* commit, and the connection breaks, between any two of them.  Frames     *)
(* that were written and not yet received are lost with their connection.  *)
(*                                                                         *)
(* An event is identified with the state change committed with it: a page  *)
(* is up to date with an event once it has read the database after its     *)
(* commit.  The answers of two loads may overtake one another, so which    *)
(* state the page shows at a moment is not modelled, only which events it  *)
(* has been shown at some time.                                            *)
(***************************************************************************)
EXTENDS Integers, Sequences, FiniteSets, Functions

CONSTANTS
  LastId,     \* bound: how many event ids the sequence hands out
  Writers,    \* transactions that append events at the same time
  Lookback,   \* streamLookback
  Extra,      \* a query reads at most Lookback + Extra events
  Faults      \* bound: broken connections, failed queries and loads, reloads of the page

ASSUME StreamAssumption ==
  /\ LastId \in Nat
  /\ Lookback \in Nat
  /\ Extra \in Nat \ {0}
  /\ Faults \in Nat
  /\ Writers \cap {"free", "visible", "rolledback"} = {}

Ids == 1..LastId

VARIABLES
  row,      \* an id is "free", held by an open transaction, "visible" or "rolledback"
  at,       \* where the handler is, "off" without one, "refused" when the browser gave up
  after,    \* the cursor of the handler
  sent,     \* ids the handler will not send
  evs,      \* what its last query returned and it has not sent yet
  frames,   \* ids it sent on this connection, in order
  due,      \* events committed on this connection while no committed id was Lookback ahead
  open,     \* the browser has the headers of this connection
  got,      \* how many frames of this connection it received
  lastId,   \* the id of the last frame it received on any connection, 0 for none
  opened,   \* the page has seen the stream open before
  bump,     \* the page is about to load
  read,     \* history: the events that loads of this page had read, if they succeeded
  failed,   \* history: the events that loads of this page had read, if they failed
  faults

streamVars == <<at, after, sent, evs, frames, due>>
pageVars == <<open, got, lastId, opened, bump, read, failed>>
vars == <<row, streamVars, pageVars, faults>>

Visible == {e \in Ids : row[e] = "visible"}
Streaming == at \in {"polling", "sending"}

\* EventsAfter: ids above floor in order, cut at a limit.
EventsAfter(floor) ==
  {e \in Visible : e > floor /\ Cardinality({d \in Visible : floor < d /\ d <= e}) <= Lookback + Extra}

-----------------------------------------------------------------------------
(* The log.                                                                *)

Insert(w) ==
  \E e \in Ids :
    /\ row[e] = "free"
    /\ \A d \in Ids : d < e => row[d] # "free"
    /\ row' = [row EXCEPT ![e] = w]
    /\ UNCHANGED <<streamVars, pageVars, faults>>

Appended(w) == {e \in Ids : row[e] = w}

\* due is the history of what the handler owes to this connection.
Commit(w) ==
  /\ Appended(w) # {}
  /\ row' = [e \in Ids |-> IF e \in Appended(w) THEN "visible" ELSE row[e]]
  /\ due' = IF Streaming
            THEN due \cup {e \in Appended(w) : \A d \in Ids : row'[d] = "visible" => d < e + Lookback}
            ELSE due
  /\ UNCHANGED <<at, after, sent, evs, frames, pageVars, faults>>

Rollback(w) ==
  /\ Appended(w) # {}
  /\ row' = [e \in Ids |-> IF e \in Appended(w) THEN "rolledback" ELSE row[e]]
  /\ UNCHANGED <<streamVars, pageVars, faults>>

-----------------------------------------------------------------------------
(* The handler.                                                            *)

\* Fault: the received frames are counted over all connections.
ConnectKeepsGot ==
  /\ at = "off"
  /\ at' = IF lastId = 0 THEN "latest" ELSE "seen"
  /\ after' = lastId
  /\ sent' = {} /\ evs' = {} /\ frames' = <<>> /\ due' = {}
  /\ open' = FALSE /\ got' = got
  /\ UNCHANGED <<row, lastId, opened, bump, read, failed, faults>>

\* The browser connects and sends the id of the last frame it received.
Connect ==
  /\ at = "off"
  /\ at' = IF lastId = 0 THEN "latest" ELSE "seen"
  /\ after' = lastId
  /\ sent' = {} /\ evs' = {} /\ frames' = <<>> /\ due' = {}
  /\ open' = FALSE /\ got' = 0
  /\ UNCHANGED <<row, lastId, opened, bump, read, failed, faults>>

\* Without a cursor the stream starts from the newest event.
ReadLatest ==
  /\ at = "latest"
  /\ at' = "seen"
  /\ \/ Visible = {} /\ after' = 0
     \/ after' \in Visible /\ \A e \in Visible : e <= after'
  /\ UNCHANGED <<row, sent, evs, frames, due, pageVars, faults>>

\* Status 500: an EventSource does not come back after that.
LatestFails ==
  /\ at = "latest" /\ faults < Faults
  /\ at' = "refused"
  /\ faults' = faults + 1
  /\ UNCHANGED <<row, after, sent, evs, frames, due, pageVars>>

\* Fault: every id up to the cursor counts as sent, committed or not.
ReadSeenAll ==
  /\ at = "seen"
  /\ at' = "polling"
  /\ sent' = {e \in Ids : e <= after}
  /\ UNCHANGED <<row, after, evs, frames, due, pageVars, faults>>

\* What is visible at or below the cursor counts as sent, then the headers go out.
ReadSeen ==
  /\ at = "seen"
  /\ at' = "polling"
  /\ sent' = {e \in EventsAfter(after - Lookback) : e <= after}
  /\ UNCHANGED <<row, after, evs, frames, due, pageVars, faults>>

\* When that query fails, nothing counts as sent.
SeenFails ==
  /\ at = "seen" /\ faults < Faults
  /\ at' = "polling"
  /\ sent' = {}
  /\ faults' = faults + 1
  /\ UNCHANGED <<row, after, evs, frames, due, pageVars>>

Poll ==
  /\ at = "polling"
  /\ at' = "sending"
  /\ evs' = EventsAfter(after - Lookback) \ sent
  /\ UNCHANGED <<row, after, sent, frames, due, pageVars, faults>>

Send ==
  /\ at = "sending"
  /\ \E e \in evs :
       /\ \A d \in evs : e <= d
       /\ evs' = evs \ {e}
       /\ sent' = sent \cup {e}
       /\ frames' = Append(frames, e)
       /\ after' = IF e > after THEN e ELSE after
  /\ UNCHANGED <<row, at, due, pageVars, faults>>

\* Fault: every id up to the cursor is forgotten.
FinishPollForgets ==
  /\ at = "sending" /\ evs = {}
  /\ at' = "polling"
  /\ sent' = {e \in sent : e > after}
  /\ UNCHANGED <<row, after, evs, frames, due, pageVars, faults>>

\* Ids the next query cannot return are forgotten.
FinishPoll ==
  /\ at = "sending" /\ evs = {}
  /\ at' = "polling"
  /\ sent' = {e \in sent : e > after - Lookback}
  /\ UNCHANGED <<row, after, evs, frames, due, pageVars, faults>>

\* The connection breaks, or the handler returns after a failed poll.
Disconnect ==
  /\ at \notin {"off", "refused"} /\ faults < Faults
  /\ at' = "off"
  /\ faults' = faults + 1
  /\ UNCHANGED <<row, after, sent, evs, frames, due, pageVars>>

-----------------------------------------------------------------------------
(* The page.                                                               *)

\* Fault: a reopened stream loads nothing.
OnOpenNoLoad ==
  /\ Streaming /\ ~open
  /\ open' = TRUE
  /\ opened' = TRUE
  /\ UNCHANGED <<row, streamVars, got, lastId, bump, read, failed, faults>>

\* The first open loads nothing: the page loaded when it was mounted.
OnOpen ==
  /\ Streaming /\ ~open
  /\ open' = TRUE
  /\ opened' = TRUE
  /\ bump' = (bump \/ opened)
  /\ UNCHANGED <<row, streamVars, got, lastId, read, failed, faults>>

Receive ==
  /\ Streaming /\ open /\ got < Len(frames)
  /\ got' = got + 1
  /\ lastId' = frames[got + 1]
  /\ bump' = TRUE
  /\ UNCHANGED <<row, streamVars, open, opened, read, failed, faults>>

\* A load reads the database some time after the page asked for it.
Load ==
  /\ bump
  /\ bump' = FALSE
  /\ read' = read \cup Visible
  /\ UNCHANGED <<row, streamVars, open, got, lastId, opened, failed, faults>>

\* The page shows the error of a load that failed and does not repeat it.
LoadFails ==
  /\ bump /\ faults < Faults
  /\ bump' = FALSE
  /\ failed' = failed \cup Visible
  /\ faults' = faults + 1
  /\ UNCHANGED <<row, streamVars, open, got, lastId, opened, read>>

\* The user opens the page anew: no cursor, and the load of the mount.
Reload ==
  /\ faults < Faults
  /\ at' = "off"
  /\ lastId' = 0 /\ opened' = FALSE
  /\ bump' = TRUE /\ read' = {} /\ failed' = {}
  /\ faults' = faults + 1
  /\ UNCHANGED <<row, after, sent, evs, frames, due, open, got>>

-----------------------------------------------------------------------------
Init ==
  /\ row = [e \in Ids |-> "free"]
  /\ at = "off" /\ after = 0 /\ sent = {} /\ evs = {} /\ frames = <<>> /\ due = {}
  /\ open = FALSE /\ got = 0 /\ lastId = 0 /\ opened = FALSE
  /\ bump = TRUE /\ read = {} /\ failed = {}
  /\ faults = 0

Log == \E w \in Writers : Insert(w) \/ Commit(w) \/ Rollback(w)
Handler ==
  \/ Connect \/ ReadLatest \/ ReadSeen \/ Poll \/ Send \/ FinishPoll
  \/ LatestFails \/ SeenFails \/ Disconnect
Page == OnOpen \/ Receive \/ Load \/ LoadFails \/ Reload

Next == Log \/ Handler \/ Page

Spec == Init /\ [][Next]_vars

\* The browser reconnects, the handler goes on while the connection stands, the
\* browser delivers what arrived and loads when it should; transactions need not end.
Fairness ==
  /\ WF_vars(Connect \/ ReadLatest \/ ReadSeen \/ Poll \/ Send \/ FinishPoll)
  /\ WF_vars(OnOpen) /\ WF_vars(Receive) /\ WF_vars(Load)

FairSpec == Spec /\ Fairness

-----------------------------------------------------------------------------
(* Properties.                                                             *)

\* Types, and what was received was sent on this connection.
TypeOK ==
  /\ row \in [Ids -> Writers \cup {"free", "visible", "rolledback"}]
  /\ at \in {"off", "latest", "seen", "polling", "sending", "refused"}
  /\ after \in 0..LastId
  /\ sent \subseteq Ids /\ evs \subseteq Ids /\ due \subseteq Ids
  /\ frames \in Seq(Ids)
  /\ got \in 0..Len(frames)
  /\ lastId \in 0..LastId
  /\ open \in BOOLEAN /\ opened \in BOOLEAN /\ bump \in BOOLEAN
  /\ read \subseteq Ids /\ failed \subseteq Ids
  /\ faults \in 0..Faults

\* One connection never carries an id twice, although every poll reads the
\* window again and the handler forgets the ids it sent.
SentOnce == IsInjective(frames)

\* What the next query reads.
Query == EventsAfter(after - Lookback)

\* An event that commits on a connection, with no committed id Lookback ahead
\* of it, is on that connection's wire, or it will be: it is not counted as
\* sent, what the handler still has to send leaves it inside the window, and
\* the next query returns it unless that query is full of earlier ids, some of
\* which are not sent yet.  So neither the cursor that passed it, nor the set of
\* sent ids, nor the limit of a query can hide it.
NothingDueIsMissed ==
  Streaming => \A e \in due :
    \/ e \in Range(frames)
    \/ e \in evs
    \/ /\ e \in Visible \ sent
       /\ \A d \in evs \cup {after} : e > d - Lookback
       /\ at = "polling" => \/ e \in Query
                            \/ Query \ sent # {} /\ \A d \in Query : d < e

\* A page that has seen its stream open reads the database after every such
\* commit, across lost frames and reconnects, unless its stream is refused or
\* the load that would have brought the event failed.
DueIsLoaded ==
  \A e \in Ids : (e \in due /\ opened) ~> (e \in read \/ at = "refused" \/ e \in failed)
=============================================================================
