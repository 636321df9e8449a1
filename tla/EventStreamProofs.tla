-------------------------- MODULE EventStreamProofs --------------------------
(***************************************************************************)
(* Safety of the event stream for every number of events and transactions  *)
(* and every size of the window: no connection carries an id twice, and no *)
(* event inside the window is missed.                                      *)
(***************************************************************************)
EXTENDS EventStream, FiniteSetTheorems, WellFoundedInduction, TLAPS

\* A cursor is the id of a committed event, the handler's as well as the page's.
Cursors ==
  /\ after \in Visible \cup {0}
  /\ lastId \in Visible \cup {0}
  /\ sent \subseteq Visible /\ evs \subseteq Visible
  /\ \A i \in 1..Len(frames) : frames[i] \in Visible

\* A frame stays in the set of sent ids until no query can return it.
Wire ==
  Streaming =>
    /\ evs \cap sent = {}
    /\ at = "polling" => evs = {}
    /\ \A e \in sent : e <= after
    /\ \A i \in 1..Len(frames) :
         /\ frames[i] \notin evs
         /\ frames[i] \in sent \/ frames[i] <= after - Lookback

\* Before the headers go out nothing was sent and nothing is owed.
Opening == at \in {"latest", "seen"} => frames = <<>> /\ evs = {} /\ due = {}

\* What is owed is sent, about to be sent, or ahead of the window even when the
\* rest of the query has moved the cursor.
Owed(e) ==
  \/ \E i \in 1..Len(frames) : frames[i] = e
  \/ e \in evs
  \/ e \in Visible \ sent /\ \A d \in evs \cup {after} : d < e + Lookback

DueIsOwed == Streaming => \A e \in due : Owed(e)

NoFrameTwice == \A i, j \in 1..Len(frames) : frames[i] = frames[j] => i = j

IInv == TypeOK /\ Cursors /\ Wire /\ Opening /\ DueIsOwed /\ NoFrameTwice

-----------------------------------------------------------------------------
\* A query that leaves out a visible id above its floor returns lower ids only.
LEMMA EventsInOrder ==
  ASSUME NEW floor \in Int, NEW e \in Visible, floor < e, NEW d \in EventsAfter(floor), e <= d
  PROVE  e \in EventsAfter(floor)
<1> DEFINE upTo(x) == {c \in Visible : floor < c /\ c <= x}
<1>1. d \in Visible /\ Cardinality(upTo(d)) <= Lookback + Extra
  BY DEF EventsAfter
<1>2. Visible \subseteq 1..LastId /\ LastId \in Int
  BY StreamAssumption DEF Visible, Ids
<1>3. IsFiniteSet(1..LastId)
  BY <1>2, FS_Interval
<1>4. IsFiniteSet(upTo(d))
  BY <1>2, <1>3, FS_Subset
<1>5. upTo(e) \subseteq upTo(d)
  <2>1. \A c \in Visible : c \in Int
    BY <1>2
  <2>2. ASSUME NEW c \in Visible, c <= e PROVE c <= d
    BY <1>1, <2>1, <2>2
  <2>3. QED
    BY <2>2
<1>6. Cardinality(upTo(e)) <= Cardinality(upTo(d)) /\ Cardinality(upTo(e)) \in Nat /\ Cardinality(upTo(d)) \in Nat
  BY <1>4, <1>5, FS_Subset, FS_CardinalityType
<1>7. Cardinality(upTo(e)) <= Lookback + Extra
  BY <1>1, <1>6, StreamAssumption
<1>8. QED
  BY <1>7 DEF EventsAfter

LEMMA EventsAreVisible ==
  ASSUME NEW floor \in Int
  PROVE  EventsAfter(floor) \subseteq Visible /\ \A e \in EventsAfter(floor) : e > floor
BY DEF EventsAfter

\* Appending one frame.
LEMMA AppendFrame ==
  ASSUME NEW s \in Seq(Ids), NEW e \in Ids
  PROVE  /\ Append(s, e) \in Seq(Ids)
         /\ Len(s) \in Nat
         /\ Len(Append(s, e)) = Len(s) + 1
         /\ \A i \in 1..Len(s) : Append(s, e)[i] = s[i]
         /\ Append(s, e)[Len(s) + 1] = e
OBVIOUS

-----------------------------------------------------------------------------
LEMMA NoFrames == <<>> \in Seq(Ids) /\ Len(<<>>) = 0 /\ 0 \in 0..Len(<<>>) /\ 1..Len(<<>>) = {}
OBVIOUS

LEMMA InitInv == Init => IInv
<1> SUFFICES ASSUME Init PROVE IInv
  OBVIOUS
<1> USE DEF Init
<1>1. TypeOK
  <2>1. row \in [Ids -> Writers \cup {"free", "visible", "rolledback"}]
    OBVIOUS
  <2>2. 0 \in 0..LastId /\ 0 \in 0..Faults
    BY StreamAssumption
  <2>3. QED
    BY <2>1, <2>2, NoFrames DEF TypeOK
<1>2. QED
  BY <1>1, NoFrames DEF IInv, Cursors, Wire, Opening, DueIsOwed, NoFrameTwice, Streaming

\* Ids never become invisible, and a step of the log moves no cursor.
LEMMA InsertInv ==
  ASSUME IInv, NEW w \in Writers, Insert(w)
  PROVE  IInv'
<1>1. Visible' = Visible
  BY StreamAssumption DEF IInv, TypeOK, Insert, Visible
<1>2. TypeOK'
  BY DEF IInv, TypeOK, Insert, streamVars, pageVars
<1>3. QED
  BY <1>1, <1>2 DEF IInv, Insert, streamVars, pageVars, Cursors, Wire, Opening, DueIsOwed, Owed,
     NoFrameTwice, Streaming

LEMMA RollbackInv ==
  ASSUME IInv, NEW w \in Writers, Rollback(w)
  PROVE  IInv'
<1>1. Visible' = Visible
  BY StreamAssumption DEF IInv, TypeOK, Rollback, Visible, Appended
<1>2. TypeOK'
  BY DEF IInv, TypeOK, Rollback, streamVars, pageVars
<1>3. QED
  BY <1>1, <1>2 DEF IInv, Rollback, streamVars, pageVars, Cursors, Wire, Opening, DueIsOwed, Owed,
     NoFrameTwice, Streaming

LEMMA CommitInv ==
  ASSUME IInv, NEW w \in Writers, Commit(w)
  PROVE  IInv'
<1> USE DEF Commit, pageVars
<1>1. Visible' = Visible \cup Appended(w) /\ Visible \cap Appended(w) = {}
  BY StreamAssumption DEF Visible, Appended
<1>2. TypeOK'
  BY DEF IInv, TypeOK, Appended
<1>3. Cursors' /\ Wire' /\ Opening' /\ NoFrameTwice'
  BY <1>1 DEF IInv, Cursors, Wire, Opening, NoFrameTwice, Streaming
<1>4. DueIsOwed'
  <2> SUFFICES ASSUME Streaming, NEW e \in due' PROVE Owed(e)'
    BY DEF DueIsOwed, Streaming
  <2>1. CASE e \in due
    BY <1>1, <2>1 DEF IInv, DueIsOwed, Owed
  <2>2. CASE e \notin due
    <3>1. e \in Appended(w) /\ \A d \in Visible' : d < e + Lookback
      BY <2>2 DEF Visible
    <3>2. e \in Visible' \ sent
      BY <1>1, <3>1 DEF IInv, Cursors
    <3>3. 0 < e + Lookback
      BY <3>1, StreamAssumption DEF Appended, Ids
    <3>4. \A d \in evs \cup {after} : d < e + Lookback
      BY <1>1, <3>1, <3>3 DEF IInv, Cursors
    <3>5. QED
      BY <3>2, <3>4 DEF Owed
  <2>3. QED
    BY <2>1, <2>2
<1>5. QED
  BY <1>2, <1>3, <1>4 DEF IInv

LEMMA ConnectInv == IInv /\ Connect => IInv'
<1> SUFFICES ASSUME IInv, Connect PROVE IInv'
  OBVIOUS
<1>1. TypeOK'
  BY NoFrames DEF IInv, TypeOK, Connect
<1>2. QED
  BY <1>1, NoFrames DEF IInv, Connect, Cursors, Wire, Opening, DueIsOwed, NoFrameTwice, Streaming, Visible

LEMMA ReadLatestInv == IInv /\ ReadLatest => IInv'
<1> SUFFICES ASSUME IInv, ReadLatest PROVE IInv'
  OBVIOUS
<1>1. after' \in Visible \cup {0} /\ after' \in 0..LastId
  BY StreamAssumption DEF ReadLatest, Visible, Ids
<1>2. TypeOK'
  BY <1>1 DEF IInv, TypeOK, ReadLatest, pageVars
<1>3. QED
  BY <1>1, <1>2 DEF IInv, ReadLatest, pageVars, Cursors, Wire, Opening, DueIsOwed, NoFrameTwice, Streaming,
     Visible

\* Opening the stream: nothing was sent, and what counts as sent is committed.
LEMMA ReadSeenInv == IInv /\ (ReadSeen \/ SeenFails) => IInv'
<1> SUFFICES ASSUME IInv, ReadSeen \/ SeenFails PROVE IInv'
  OBVIOUS
<1> USE DEF ReadSeen, SeenFails
<1>1. after - Lookback \in Int
  BY StreamAssumption DEF IInv, TypeOK
<1>2. sent' \subseteq Visible /\ Visible \subseteq Ids
  BY <1>1, EventsAreVisible DEF Visible
<1>3. frames = <<>> /\ evs = {} /\ due = {}
  BY DEF IInv, Opening
<1>4. TypeOK'
  BY <1>2, StreamAssumption DEF IInv, TypeOK, pageVars
<1>5. QED
  BY <1>2, <1>3, <1>4 DEF IInv, pageVars, Cursors, Wire, Opening, DueIsOwed, NoFrameTwice, Streaming, Visible

\* A poll: an owed id is returned, or the query was cut below it.
LEMMA PollInv == IInv /\ Poll => IInv'
<1> SUFFICES ASSUME IInv, Poll PROVE IInv'
  OBVIOUS
<1> USE DEF Poll, pageVars
<1>1. after \in Int /\ Lookback \in Int /\ after - Lookback \in Int /\ LastId \in Int
  BY StreamAssumption DEF IInv, TypeOK
<1>2. /\ evs' \subseteq Visible /\ evs' \cap sent = {} /\ evs = {}
      /\ \A e \in evs' : e > after - Lookback
  BY <1>1, EventsAreVisible DEF IInv, Wire, Streaming
<1>3. TypeOK'
  BY <1>2 DEF IInv, TypeOK, Visible
<1>4. Cursors' /\ Opening' /\ NoFrameTwice'
  BY <1>2 DEF IInv, Cursors, Opening, NoFrameTwice, Visible
<1>5. \A i \in 1..Len(frames) : frames[i] \in Ids
  BY DEF IInv, TypeOK
<1>6. Wire'
  <2> SUFFICES ASSUME NEW i \in 1..Len(frames)
               PROVE  frames[i] \notin evs' /\ (frames[i] \in sent \/ frames[i] <= after - Lookback)
    BY <1>2 DEF IInv, Wire, Streaming
  <2>1. frames[i] \in sent \/ frames[i] <= after - Lookback
    BY DEF IInv, Wire, Streaming
  <2>2. QED
    BY <2>1, <1>1, <1>2, <1>5 DEF Ids
<1>7. DueIsOwed'
  <2> SUFFICES ASSUME NEW e \in due PROVE Owed(e)'
    BY DEF DueIsOwed
  <2>1. Owed(e)
    BY DEF IInv, DueIsOwed, Streaming
  <2>2. CASE \E i \in 1..Len(frames) : frames[i] = e
    BY <2>2 DEF Owed
  <2>3. CASE e \in Visible \ sent /\ after < e + Lookback
    <3>1. e \in Int /\ after - Lookback < e
      BY <2>3, <1>1 DEF Visible, Ids
    <3>2. CASE e \in EventsAfter(after - Lookback)
      BY <2>3, <3>2 DEF Owed
    <3>3. CASE e \notin EventsAfter(after - Lookback)
      <4>1. ASSUME NEW d \in evs' PROVE d < e + Lookback
        <5>1. d \in EventsAfter(after - Lookback) /\ d \in Int
          BY <1>2 DEF Visible, Ids
        <5>2. ~(e <= d)
          BY <5>1, <3>1, <3>3, <2>3, <1>1, EventsInOrder
        <5>3. QED
          BY <5>1, <5>2, <3>1, StreamAssumption
      <4>2. QED
        BY <4>1, <2>3 DEF Owed, Visible
    <3>4. QED
      BY <3>2, <3>3
  <2>4. QED
    BY <2>1, <2>2, <2>3, <1>2 DEF Owed
<1>8. QED
  BY <1>3, <1>4, <1>6, <1>7 DEF IInv

\* One frame is written.
LEMMA SendInv == IInv /\ Send => IInv'
<1> SUFFICES ASSUME IInv, Send PROVE IInv'
  OBVIOUS
<1> USE DEF pageVars
<1>1. PICK e \in evs : /\ \A d \in evs : e <= d
                       /\ evs' = evs \ {e}
                       /\ sent' = sent \cup {e}
                       /\ frames' = Append(frames, e)
                       /\ after' = IF e > after THEN e ELSE after
  BY DEF Send
<1>2. /\ at = "sending" /\ at' = "sending"
      /\ UNCHANGED <<row, due, open, got, lastId, opened, bump, read, failed, faults>>
  BY DEF Send
<1>3. /\ e \in Visible /\ e \in Ids /\ e \in Int /\ after \in Int /\ Lookback \in Int
      /\ after <= after' /\ after' \in Int /\ after' \in Visible \cup {0} /\ after' \in 0..LastId
  BY <1>1, StreamAssumption DEF IInv, TypeOK, Cursors, Visible, Ids
<1>4. /\ frames' \in Seq(Ids) /\ Len(frames) \in Nat /\ Len(frames') = Len(frames) + 1
      /\ \A i \in 1..Len(frames) : frames'[i] = frames[i]
      /\ frames'[Len(frames) + 1] = e
  BY <1>1, <1>3, AppendFrame DEF IInv, TypeOK
<1>5. \A i \in 1..Len(frames) : frames[i] \in Ids /\ frames[i] \in Int
  <2>1. \A i \in 1..Len(frames) : frames[i] \in Ids
    BY DEF IInv, TypeOK
  <2>2. QED
    BY <2>1 DEF Ids
<1>6. TypeOK'
  <2>1. got \in 0..Len(frames')
    BY <1>4 DEF IInv, TypeOK
  <2>2. sent' \subseteq Ids /\ evs' \subseteq Ids
    BY <1>1, <1>3 DEF IInv, TypeOK
  <2>3. QED
    BY <2>1, <2>2, <1>2, <1>3, <1>4 DEF IInv, TypeOK
<1>7. \A i \in 1..Len(frames') : i \in 1..Len(frames) \/ i = Len(frames) + 1
  BY <1>4
<1>8. Cursors'
  BY <1>1, <1>2, <1>3, <1>4, <1>7 DEF IInv, Cursors, Visible
<1>9. Wire'
  <2>1. evs' \cap sent' = {} /\ e \notin evs'
    BY <1>1, <1>2 DEF IInv, Wire, Streaming
  <2>2. ASSUME NEW i \in 1..Len(frames)
        PROVE  /\ frames[i] \notin evs'
               /\ frames[i] \in sent' \/ frames[i] <= after' - Lookback
    BY <1>1, <1>2, <1>3, <1>5 DEF IInv, Wire, Streaming
  <2>3. \A x \in sent' : x <= after'
    <3>1. \A x \in sent : x \in Int /\ x <= after
      BY <1>2 DEF IInv, TypeOK, Wire, Streaming, Ids
    <3>2. \A x \in sent : x <= after'
      BY <3>1, <1>3
    <3>3. e <= after'
      BY <1>1, <1>3
    <3>4. QED
      BY <3>2, <3>3, <1>1
  <2>4. QED
    BY <2>1, <2>2, <2>3, <1>1, <1>2, <1>4, <1>7 DEF Wire
<1>10. NoFrameTwice'
  <2>1. \A i \in 1..Len(frames) : frames[i] # e
    BY <1>1, <1>2 DEF IInv, Wire, Streaming
  <2>2. QED
    BY <2>1, <1>4, <1>7 DEF IInv, NoFrameTwice
<1>11. Opening'
  BY <1>2 DEF Opening
<1>12. DueIsOwed'
  <2> SUFFICES ASSUME NEW x \in due PROVE Owed(x)'
    BY <1>2 DEF DueIsOwed
  <2>1. Owed(x)
    BY <1>2 DEF IInv, DueIsOwed, Streaming
  <2>2. CASE \E i \in 1..Len(frames) : frames[i] = x
    BY <2>2, <1>4 DEF Owed
  <2>3. CASE x = e
    BY <2>3, <1>4 DEF Owed
  <2>4. CASE x \in evs /\ x # e
    BY <2>4, <1>1 DEF Owed
  <2>5. CASE x # e /\ x \in Visible \ sent /\ \A d \in evs \cup {after} : d < x + Lookback
    <3>1. x \in Visible' \ sent'
      BY <2>5, <1>1, <1>2 DEF Visible
    <3>2. \A d \in evs' \cup {after'} : d < x + Lookback
      BY <2>5, <1>1
    <3>3. QED
      BY <3>1, <3>2 DEF Owed
  <2>6. QED
    BY <2>1, <2>2, <2>3, <2>4, <2>5 DEF Owed
<1>13. QED
  BY <1>6, <1>8, <1>9, <1>10, <1>11, <1>12 DEF IInv

\* Forgetting keeps every id that a query can still return.
LEMMA FinishPollInv == IInv /\ FinishPoll => IInv'
<1> SUFFICES ASSUME IInv, FinishPoll PROVE IInv'
  OBVIOUS
<1> USE DEF FinishPoll, pageVars
<1>1. after \in Int /\ Lookback \in Int /\ \A i \in 1..Len(frames) : frames[i] \in Int
  BY StreamAssumption DEF IInv, TypeOK, Ids
<1>2. TypeOK'
  BY DEF IInv, TypeOK
<1>3. Cursors' /\ Opening' /\ NoFrameTwice'
  BY DEF IInv, Cursors, Opening, NoFrameTwice, Visible
<1>4. Wire'
  BY <1>1 DEF IInv, Wire, Streaming
<1>5. DueIsOwed'
  BY DEF IInv, DueIsOwed, Owed, Streaming, Visible
<1>6. QED
  BY <1>2, <1>3, <1>4, <1>5 DEF IInv

\* Without a handler nothing is promised of its memory.
LEMMA BreakInv == IInv /\ (Disconnect \/ LatestFails \/ Reload) => IInv'
<1> SUFFICES ASSUME IInv, Disconnect \/ LatestFails \/ Reload PROVE IInv'
  OBVIOUS
<1> USE DEF Disconnect, LatestFails, Reload
<1>1. TypeOK'
  <2>1. faults' \in 0..Faults /\ 0 \in 0..LastId
    BY StreamAssumption DEF IInv, TypeOK
  <2>2. CASE Disconnect \/ LatestFails
    BY <2>1, <2>2 DEF IInv, TypeOK, pageVars
  <2>3. CASE Reload
    BY <2>1, <2>3 DEF IInv, TypeOK
  <2>4. QED
    BY <2>2, <2>3
<1>2. QED
  BY <1>1 DEF IInv, pageVars, Cursors, Wire, Opening, DueIsOwed, NoFrameTwice, Streaming, Visible

\* The page touches only what is its own.
LEMMA PageInv == IInv /\ (OnOpen \/ Receive \/ Load \/ LoadFails) => IInv'
<1> SUFFICES ASSUME IInv, OnOpen \/ Receive \/ Load \/ LoadFails PROVE IInv'
  OBVIOUS
<1> USE DEF OnOpen, Receive, Load, LoadFails
<1>1. UNCHANGED <<row, at, after, sent, evs, frames, due>>
  BY DEF streamVars
<1>2. lastId' \in Visible \cup {0} /\ TypeOK'
  <2>1. CASE OnOpen
    BY <2>1 DEF IInv, TypeOK, Cursors, streamVars
  <2>2. CASE Load \/ LoadFails
    <3>1. Visible \subseteq Ids /\ faults' \in 0..Faults
      BY <2>2, StreamAssumption DEF IInv, TypeOK, Visible
    <3>2. QED
      BY <2>2, <3>1 DEF IInv, TypeOK, Cursors, streamVars
  <2>3. CASE Receive
    <3>1. Len(frames) \in Nat /\ got + 1 \in 1..Len(frames) /\ got + 1 \in 0..Len(frames)
      BY <2>3 DEF IInv, TypeOK
    <3>2. lastId' \in Visible /\ lastId' \in Ids
      BY <2>3, <3>1 DEF IInv, Cursors, Visible
    <3>3. lastId' \in Visible \cup {0} /\ got' \in 0..Len(frames)
      BY <2>3, <3>1, <3>2
    <3>4. lastId' \in 0..LastId
      BY <3>2, StreamAssumption DEF Ids
    <3>5. QED
      BY <2>3, <3>2, <3>3, <3>4 DEF IInv, TypeOK, streamVars
  <2>4. QED
    BY <2>1, <2>2, <2>3
<1>3. QED
  BY <1>1, <1>2 DEF IInv, Cursors, Wire, Opening, DueIsOwed, Owed, NoFrameTwice, Streaming, Visible

LEMMA NextInv == IInv /\ [Next]_vars => IInv'
<1> SUFFICES ASSUME IInv, [Next]_vars PROVE IInv'
  OBVIOUS
<1>1. CASE Log
  BY <1>1, InsertInv, CommitInv, RollbackInv DEF Log
<1>2. CASE Handler
  BY <1>2, ConnectInv, ReadLatestInv, ReadSeenInv, PollInv, SendInv, FinishPollInv, BreakInv DEF Handler
<1>3. CASE Page
  BY <1>3, PageInv, BreakInv DEF Page
<1>4. CASE UNCHANGED vars
  BY <1>4 DEF IInv, TypeOK, Cursors, Wire, Opening, DueIsOwed, Owed, NoFrameTwice, Streaming, Visible,
     vars, streamVars, pageVars
<1>5. QED
  BY <1>1, <1>2, <1>3, <1>4 DEF Next

LEMMA Inductive == Spec => []IInv
<1>1. QED
  BY InitInv, NextInv, PTL DEF Spec

-----------------------------------------------------------------------------
\* Every variable stays in its type, and the page has received no more than
\* was sent on its connection.
THEOREM TypeCorrect == Spec => []TypeOK
<1>1. IInv => TypeOK
  BY DEF IInv
<1>2. QED
  BY <1>1, Inductive, PTL

\* No connection carries an event id twice.
THEOREM NoIdTwice == Spec => []SentOnce
<1>1. IInv => SentOnce
  BY DEF IInv, TypeOK, NoFrameTwice, SentOnce, IsInjective
<1>2. QED
  BY <1>1, Inductive, PTL

\* Of two or more committed ids above the cursor one is the lowest.
LEMMA LowestAbove ==
  ASSUME IInv, NEW c \in Visible, c > after
  PROVE  \E e \in Visible : e > after /\ \A d \in Visible : d > after => e <= d
<1> DEFINE Above == {e \in Visible : e > after}
           UpTo(e) == {d \in Above : d <= e}
           F == {UpTo(e) : e \in Above}
<1>1. Visible \subseteq 1..LastId /\ IsFiniteSet(1..LastId) /\ LastId \in Int
  BY StreamAssumption, FS_Interval DEF Visible, Ids
<1>2. Above \subseteq Visible /\ IsFiniteSet(Above) /\ \A e \in Above : e \in Int
  <2>1. Above \subseteq 1..LastId /\ \A e \in Above : e \in 1..LastId
    BY <1>1
  <2>2. IsFiniteSet(Above)
    BY <1>1, <2>1, FS_Subset
  <2>3. QED
    BY <2>1, <2>2, <1>1
<1>3. F \subseteq FiniteSubsetsOf(Above)
  <2>1. \A e \in Above : UpTo(e) \subseteq Above /\ IsFiniteSet(UpTo(e))
    BY <1>2, FS_Subset
  <2>2. QED
    BY <2>1 DEF FiniteSubsetsOf
<1>4. F # {} /\ IsWellFoundedOn(StrictSubsetOrdering(Above), FiniteSubsetsOf(Above))
  BY FS_StrictSubsetOrderingWellFounded
<1>5. PICK T \in F : \A U \in F : <<U, T>> \notin StrictSubsetOrdering(Above)
  BY <1>3, <1>4, WFMin
<1>6. PICK e \in Above : T = UpTo(e)
  BY <1>5
<1>7. ASSUME NEW d \in Above, d < e
      PROVE  FALSE
  <2>1. UpTo(d) \in F /\ UpTo(d) \subseteq UpTo(e) /\ e \in UpTo(e) /\ e \notin UpTo(d)
    BY <1>2, <1>6, <1>7
  <2>2. UpTo(d) \subseteq Above /\ UpTo(e) \subseteq Above
    OBVIOUS
  <2>3. <<UpTo(d), UpTo(e)>> \in StrictSubsetOrdering(Above)
    BY <2>1, <2>2 DEF StrictSubsetOrdering
  <2>4. QED
    BY <1>5, <1>6, <2>1, <2>3
<1>8. QED
  BY <1>2, <1>6, <1>7

\* At most Lookback ids lie in the window up to the cursor, so that a query
\* always has room for the first id above it.
LEMMA FirstAboveIsRead ==
  ASSUME IInv, NEW e \in Visible, e > after,
         \A d \in Visible : d > after => e <= d
  PROVE  e \in Query
<1> DEFINE floor == after - Lookback
           upTo == {c \in Visible : floor < c /\ c <= e}
           window == (floor + 1)..after
<1>1. /\ after \in Int /\ Lookback \in Nat /\ Extra \in Nat /\ Extra >= 1 /\ LastId \in Int
      /\ floor \in Int /\ floor + 1 \in Int /\ after - (floor + 1) + 1 = Lookback
  BY StreamAssumption DEF IInv, TypeOK
<1>2. Visible \subseteq Int /\ e \in Int
  BY <1>1 DEF Visible, Ids
<1>3. IsFiniteSet(window) /\ Cardinality(window) <= Lookback /\ Cardinality(window) \in Nat
  <2>1. IsFiniteSet(window) /\ Cardinality(window) = IF floor + 1 > after THEN 0 ELSE after - (floor + 1) + 1
    BY <1>1, FS_Interval
  <2>2. QED
    BY <1>1, <2>1, FS_CardinalityType
<1>4. upTo \subseteq window \cup {e}
  <2>1. ASSUME NEW c \in upTo PROVE c \in window \cup {e}
    <3>1. c \in Visible /\ c \in Int /\ floor < c /\ c <= e
      BY <1>2
    <3>2. CASE c > after
      BY <1>2, <3>1, <3>2
    <3>3. CASE ~(c > after)
      BY <1>1, <3>1, <3>3
    <3>4. QED
      BY <3>2, <3>3
  <2>2. QED
    BY <2>1
<1>5. IsFiniteSet(window \cup {e}) /\ Cardinality(window \cup {e}) <= Lookback + 1
  <2>1. /\ IsFiniteSet(window \cup {e})
        /\ Cardinality(window \cup {e}) =
             IF e \in window THEN Cardinality(window) ELSE Cardinality(window) + 1
    BY <1>3, FS_AddElement
  <2>2. QED
    BY <1>1, <1>3, <2>1
<1>6. Cardinality(upTo) <= Cardinality(window \cup {e}) /\ Cardinality(upTo) \in Nat
      /\ Cardinality(window \cup {e}) \in Nat
  BY <1>4, <1>5, FS_Subset, FS_CardinalityType
<1>7. Cardinality(upTo) <= Lookback + Extra
  BY <1>1, <1>5, <1>6
<1>8. e > floor
  BY <1>1, <1>2
<1>9. QED
  BY <1>7, <1>8 DEF Query, EventsAfter

\* A committed id in the window that the next query leaves out: the query is
\* full of earlier ids, and the first id above the cursor is among them.
LEMMA QueryIsFull ==
  ASSUME IInv, at = "polling", NEW e \in Visible, e > after - Lookback, e \notin Query
  PROVE  Query \ sent # {} /\ \A d \in Query : d < e
<1>1. /\ after \in Int /\ Lookback \in Nat /\ Extra \in Nat /\ after - Lookback \in Int
      /\ Visible \subseteq Int
  BY StreamAssumption DEF IInv, TypeOK, Visible, Ids
<1>2. \A d \in Query : d \in Visible /\ d < e
  <2>1. ASSUME NEW d \in Query PROVE d \in Visible /\ d < e
    <3>1. d \in EventsAfter(after - Lookback) /\ d \in Visible
      BY <1>1, EventsAreVisible DEF Query
    <3>2. ~(e <= d)
      BY <1>1, <3>1, EventsInOrder DEF Query
    <3>3. QED
      BY <1>1, <3>1, <3>2
  <2>2. QED
    BY <2>1
<1>3. \E c \in Visible : c > after
  <2> SUFFICES ASSUME \A c \in Visible : ~(c > after)
               PROVE  FALSE
    OBVIOUS
  <2> DEFINE upTo == {c \in Visible : after - Lookback < c /\ c <= e}
             window == (after - Lookback + 1)..after
  <2>1. upTo \subseteq window
    <3>1. ASSUME NEW c \in upTo PROVE c \in window
      <4>1. c \in Visible /\ after - Lookback < c
        OBVIOUS
      <4>2. c \in Int /\ ~(c > after)
        BY <4>1, <1>1
      <4>3. QED
        BY <4>1, <4>2, <1>1
    <3>2. QED
      BY <3>1
  <2>2. IsFiniteSet(window) /\ Cardinality(window) <= Lookback /\ Cardinality(window) \in Nat
    <3>1. /\ IsFiniteSet(window)
          /\ Cardinality(window) =
               IF after - Lookback + 1 > after THEN 0 ELSE after - (after - Lookback + 1) + 1
      BY <1>1, FS_Interval
    <3>2. QED
      BY <1>1, <3>1, FS_CardinalityType
  <2>3. Cardinality(upTo) <= Cardinality(window) /\ Cardinality(upTo) \in Nat
    BY <2>1, <2>2, FS_Subset, FS_CardinalityType
  <2>4. Cardinality(upTo) <= Lookback + Extra
    BY <1>1, <2>2, <2>3
  <2>5. QED
    BY <2>4 DEF Query, EventsAfter
<1>4. PICK c \in Visible : c > after /\ \A d \in Visible : d > after => c <= d
  BY <1>3, LowestAbove
<1>5. c \in Query
  BY <1>4, FirstAboveIsRead
<1>6. c \notin sent
  BY <1>1, <1>4 DEF IInv, Wire, Streaming
<1>7. QED
  BY <1>2, <1>5, <1>6

\* An event that commits inside the window of an open connection is sent on it,
\* or the next query returns it, or returns only earlier ids and among them some
\* that are still to be sent: whatever the window, the limit and the order of
\* the commits, as long as a query may read more than the window.
THEOREM NothingMissed == Spec => []NothingDueIsMissed
<1>1. IInv => NothingDueIsMissed
  <2> SUFFICES ASSUME IInv, Streaming, NEW e \in due,
                      ~(\E i \in 1..Len(frames) : frames[i] = e), e \notin evs
               PROVE  /\ e \in Visible \ sent
                      /\ \A d \in evs \cup {after} : e > d - Lookback
                      /\ at = "polling" => \/ e \in Query
                                           \/ Query \ sent # {} /\ \A d \in Query : d < e
    <3>1. ASSUME NEW i \in 1..Len(frames) PROVE frames[i] \in Range(frames)
      BY DEF IInv, TypeOK, Range
    <3>2. QED
      BY <3>1 DEF NothingDueIsMissed
  <2>1. e \in Visible \ sent /\ \A d \in evs \cup {after} : d < e + Lookback
    BY DEF IInv, DueIsOwed, Owed
  <2>2. e \in Int /\ Lookback \in Int /\ \A d \in evs \cup {after} : d \in Int
    BY StreamAssumption DEF IInv, TypeOK, Visible, Ids
  <2>3. \A d \in evs \cup {after} : e > d - Lookback
    BY <2>1, <2>2
  <2>4. at = "polling" => e \in Query \/ (Query \ sent # {} /\ \A d \in Query : d < e)
    BY <2>1, <2>3, QueryIsFull
  <2>5. QED
    BY <2>1, <2>3, <2>4
<1>2. QED
  BY <1>1, Inductive, PTL
=============================================================================
