--------------------------- MODULE ResearchProofs ---------------------------
(***************************************************************************)
(* The registry's protocol, for any campaigns whose scripts have the shape *)
(* Research assumes of them and any number of code versions, commands,     *)
(* crashes and edits.  What a process has done is read off its place in    *)
(* its script: past a step that nothing jumps over it has taken it, and    *)
(* the facts below say what that leaves behind for good.                   *)
(***************************************************************************)
EXTENDS Research, TLAPS

Script(c) == Campaigns[camp][c]

\* The step that command c takes next.
Upcoming(c) == Script(c)[proc[c].at]

\* Command c runs and has taken step j of its script.
Past(c, j) == proc[c].at > 0 /\ j \in Before(Script(c), proc[c].at)

-----------------------------------------------------------------------------
(* The machine.                                                            *)

Process ==
  [at : Nat, last : Nat, run : {0} \cup Runs, made : {NoVersion} \cup Versions,
   says : {NoVersion} \cup Versions, reg : File, input : {NoVersion} \cup Versions,
   from : SUBSET Versions, todo : SUBSET STRING]

Row == [table : STRING, key : STRING, of : {NoVersion} \cup Versions, run : Nat]

Types ==
  /\ camp \in DOMAIN Campaigns
  /\ disk \in [FilesOf(camp) -> File]
  /\ rows \subseteq Row
  /\ tree \in Versions
  /\ proc \in [DOMAIN Campaigns[camp] -> Process]
  /\ started \in 0..MaxStarts[camp]
  /\ first \in {NoVersion} \cup Versions

\* A command runs its script, as the code it was started with.
Running ==
  \A c \in Commands : proc[c] = Idle \/
    /\ proc[c].last = Len(Script(c)) /\ proc[c].at \in 1..proc[c].last
    /\ proc[c].run \in Runs /\ proc[c].made \in Versions /\ proc[c].says \in Versions

\* A whole file says what wrote it, and so does a registration that was loaded.
WholeFiles == \A f \in DOMAIN disk : disk[f].st = "whole" => disk[f].made \in Versions /\ disk[f].says \in Versions
WholeRegs ==
  \A c \in Commands : proc[c].reg = Missing \/
    (proc[c].reg.st = "whole" /\ proc[c].reg.made \in Versions /\ proc[c].reg.says \in Versions)

\* What a load leaves with the process.
Loaded ==
  \A c \in Commands : \A j \in DOMAIN Script(c) : Past(c, j) /\ Script(c)[j].op = "load" =>
    IF Script(c)[j].file = "prereg" THEN proc[c].reg.st = "whole" ELSE proc[c].input # NoVersion

Sound == Types /\ Running /\ WholeFiles /\ WholeRegs /\ Loaded

-----------------------------------------------------------------------------
(* The trial rows, the bought files and the tables of lines written once.  *)

LinesWritten ==
  \A c \in Commands : \A j \in DOMAIN Script(c) : Past(c, j) /\ Script(c)[j].op = "line" =>
    \A key \in Script(c)[j].keys :
      \E r \in rows : r.table = Script(c)[j].file /\ r.key = key /\ r.run = proc[c].run

Counted == LinesWritten /\ TrialsCounted

Bought ==
  "raw" \in DOMAIN disk =>
    /\ disk["raw"].st # "torn"
    /\ \A c \in Commands : proc[c].at > 0 /\ "raw" \in Puts(Upcoming(c)) => disk["raw"].st = "none"

\* The lines of a table that p found missing are still missing, or its own.
OwnLines(p, T) ==
  \A r \in rows : r.table = T /\ r.key \in p.todo /\ r.of = Line(p, T, r.key).of => r.run = p.run

TodoIsLeft ==
  \A c \in Commands : \A j \in DOMAIN Script(c) :
    /\ Past(c, j) /\ Script(c)[j].op \in TodoOps /\ Script(c)[j].file \in OnceTables
    /\ \E i \in DOMAIN Script(c) : Script(c)[i].op \in LineOps /\ Script(c)[i].file = Script(c)[j].file
    => OwnLines(proc[c], Script(c)[j].file)

LedgerFirst ==
  \A c \in Commands : \A j \in DOMAIN Script(c) :
    Past(c, j) /\ Script(c)[j].op = "lineTodo" /\ Script(c)[j].file = "ledger" =>
      \A key \in Script(c)[j].keys \cap proc[c].todo \cap ScoredKeys :
        [table |-> "ledger", key |-> key, of |-> proc[c].input, run |-> proc[c].run] \in rows

LooksLedger ==
  \A l \in rows : l.table = "looks" /\ l.key \in ScoredKeys => [l EXCEPT !.table = "ledger"] \in rows

LinesOnce ==
  \A r, s \in rows : r.table \in OnceTables /\ [s EXCEPT !.run = r.run] = r => s = r

Scored == TodoIsLeft /\ LedgerFirst /\ LooksLedger /\ LinesOnce

-----------------------------------------------------------------------------
(* The registration.                                                       *)

Names == camp \in PinsCode \cup PinsDigest

\* c has seen that there is no registration and is about to write one.
Registering(c) ==
  /\ \E j \in DOMAIN Script(c) : Past(c, j) /\ Script(c)[j].op = "refuse" /\ Script(c)[j].file = "prereg"
  /\ \E i \in DOMAIN Script(c) : i >= proc[c].at /\ Script(c)[i].op = "register"

\* c holds a registration that it will amend.
Amending(c) ==
  /\ proc[c].reg.st = "whole"
  /\ \E i \in DOMAIN Script(c) : i >= proc[c].at /\ Script(c)[i].op \in Amendments

\* Version u is named: in the registration while it is whole, and in every copy
\* that is about to replace it.
Known(u) ==
  /\ first # NoVersion
  /\ disk["prereg"].st = "whole" => u \in Named(disk["prereg"])
  /\ \A c \in Commands : Amending(c) => u \in Named(proc[c].reg)

Swaps == \E k \in DOMAIN Campaigns[camp] : \E i \in DOMAIN Campaigns[camp][k] : Campaigns[camp][k][i].op = "swap"

\* What a registration says is one of its names; one that is amended by swapping
\* says its base.
SaysName(reg) == reg.says \in Named(reg) /\ (Swaps => reg.base = reg.says)

FirstNamed ==
  /\ disk["prereg"].st = "none" => first = NoVersion
  /\ first = NoVersion => /\ disk["prereg"].st # "whole"
                          /\ \A c \in Commands : proc[c].reg.st # "whole"
  /\ first # NoVersion => Known(first)

Registered1 ==
  /\ \A c \in Commands : Registering(c) => first = NoVersion
  /\ \A c \in Commands : Amending(c) /\ disk["prereg"].st = "whole" => proc[c].reg = disk["prereg"]
  /\ disk["prereg"].st = "whole" => SaysName(disk["prereg"])
  /\ \A c \in Commands : proc[c].reg.st = "whole" => SaysName(proc[c].reg)

NamesKept == Names => FirstNamed /\ Registered1

-----------------------------------------------------------------------------
(* What outcomes are made of.                                              *)

\* Version v agrees with a known one in what pins compares.
Matches(v, pins) ==
  \E u \in Versions : /\ Known(u)
                      /\ "code" \in pins => u.code = v.code
                      /\ "digest" \in pins => u.digest = v.digest

Asked ==
  /\ \A c \in Commands : proc[c].at > 1 /\ AsksFirst(Script(c)) => disk["prereg"].st # "none"
  /\ \A f \in Outcomes : disk[f].st # "none" => Registered(f)

ComparedKnown ==
  \A c \in Commands : proc[c].at > 1 /\ Script(c)[1].op = "loadPinned" => Matches(proc[c].made, Script(c)[1].keys)

PinsOf == (IF camp \in PinsCode THEN {"code"} ELSE {}) \cup (IF camp \in PinsDigest THEN {"digest"} ELSE {})
OutcomesKnown == \A f \in Outcomes : disk[f].st = "whole" => Matches(disk[f].made, PinsOf)

MakesEvidence(c) == \E i \in DOMAIN Script(c) : Puts(Script(c)[i]) \cap Evidence(camp) # {}
EvidenceKnown ==
  camp \in BuildsPinned =>
    /\ \A f \in Evidence(camp) : disk[f].st = "whole" => \A v \in disk[f].from \cup {disk[f].made} : Matches(v, {"code"})
    /\ \A c \in Commands : MakesEvidence(c) => \A v \in proc[c].from : Matches(v, {"code"})

Made == Asked /\ (Names => ComparedKnown /\ OutcomesKnown /\ EvidenceKnown)

\* The inductive invariant.
IInv == Sound /\ Counted /\ Bought /\ Scored /\ NamesKept /\ Made

-----------------------------------------------------------------------------
(* Scripts.                                                                *)

LEMMA ScriptSteps ==
  ASSUME Types, NEW c \in Commands
  PROVE  /\ c \in DOMAIN Campaigns[camp] /\ camp \in DOMAIN Campaigns
         /\ Script(c) \in Seq(Steps) /\ Script(c) # <<>> /\ DOMAIN Script(c) = 1..Len(Script(c)) /\ Len(Script(c)) \in Nat
         /\ \A i \in DOMAIN Script(c) :
              /\ Script(c)[i] \in Steps
              /\ Script(c)[i].op \in {"append", "swap", "replace"} =>
                   \E j \in Before(Script(c), i) : Script(c)[j].op = "load" /\ Script(c)[j].file = "prereg"
              /\ Script(c)[i].op = "move" => "prereg" \notin Puts(Script(c)[i])
              /\ Script(c)[i].op \in {"register", "append", "swap", "replace", "loadPinned"} => Script(c)[i].file = "prereg"
<1>1. c \in DOMAIN Campaigns[camp] /\ camp \in DOMAIN Campaigns
  BY DEF Types, Commands
<1>2. /\ Script(c) \in Seq(Steps) /\ Script(c) # <<>>
      /\ \A i \in DOMAIN Script(c) :
           /\ Script(c)[i].op \in {"append", "swap", "replace"} =>
                \E j \in Before(Script(c), i) : Script(c)[j].op = "load" /\ Script(c)[j].file = "prereg"
           /\ Script(c)[i].op = "move" => "prereg" \notin Puts(Script(c)[i])
           /\ Script(c)[i].op \in {"register", "append", "swap", "replace", "loadPinned"} => Script(c)[i].file = "prereg"
  BY <1>1, ScriptsAssumption DEF Script
<1>3. DOMAIN Script(c) = 1..Len(Script(c)) /\ Len(Script(c)) \in Nat /\ \A i \in DOMAIN Script(c) : Script(c)[i] \in Steps
  BY <1>2
<1>4. QED
  BY <1>1, <1>2, <1>3

LEMMA StepFields ==
  ASSUME NEW s \in Steps
  PROVE  /\ s.skip \in Nat /\ s.keys \in SUBSET STRING /\ s.file \in STRING
         /\ s.op \in {"refuse", "require", "load", "loadIfThere", "loadPinned", "cached", "unless", "hash", "perhaps",
                      "open", "output", "publish", "register", "append", "swap", "replace", "move",
                      "line", "todo", "todoOrEnd", "lineTodo"}
BY DEF Steps

\* The next step of a running command, and the files it is about.
LEMMA UpcomingStep ==
  ASSUME Types, Running, NEW c \in Commands, proc[c].at > 0
  PROVE  /\ proc[c].at \in DOMAIN Script(c) /\ Upcoming(c) \in Steps
         /\ Upcoming(c).op \notin TableOps => Upcoming(c).file \in FilesOf(camp)
         /\ Upcoming(c).op = "move" => Upcoming(c).keys \subseteq FilesOf(camp)
<1>1. proc[c].at \in DOMAIN Script(c)
  <2>1. proc[c] # Idle
    BY DEF Idle
  <2>2. QED
    BY <2>1, ScriptSteps DEF Running
<1>2. Upcoming(c) \in Steps
  BY <1>1, ScriptSteps DEF Upcoming
<1>3. c \in DOMAIN Campaigns[camp] /\ Upcoming(c) \in Range(Campaigns[camp][c])
  BY <1>1, ScriptSteps DEF Upcoming, Script, Range
<1>4. Upcoming(c).op \notin TableOps => Upcoming(c).file \in FilesOf(camp)
  BY <1>3 DEF FilesOf
<1>5. Upcoming(c).op = "move" => Upcoming(c).keys \subseteq FilesOf(camp)
  BY <1>3 DEF FilesOf
<1>6. QED
  BY <1>1, <1>2, <1>4, <1>5

LEMMA PreregIsAFile == "prereg" \in FilesOf(camp)
BY DEF FilesOf

LEMMA Numbers ==
  ASSUME Types
  PROVE  /\ Runs \subseteq Nat /\ Codes \subseteq Nat /\ Digests \subseteq Nat
         /\ NoVersion \notin Versions /\ 0 \notin Runs
         /\ \A v \in Versions : v.code \in Codes /\ v.digest \in Digests
BY BoundsAssumption DEF Types, Runs, Codes, Digests, Versions, NoVersion

LEMMA ProcessFields ==
  ASSUME Types, NEW c \in Commands
  PROVE  /\ proc[c] \in Process /\ proc[c].at \in Nat /\ proc[c].last \in Nat /\ proc[c].reg \in File
         /\ proc[c].from \in SUBSET Versions /\ proc[c].todo \in SUBSET STRING
         /\ proc[c].input \in {NoVersion} \cup Versions
         /\ proc[c].says \in {NoVersion} \cup Versions /\ proc[c].made \in {NoVersion} \cup Versions
         /\ proc[c].run \in {0} \cup Runs
<1>1. proc[c] \in Process
  BY DEF Types, Commands
<1>2. QED
  BY <1>1 DEF Process

LEMMA IdleProcess ==
  /\ Idle \in Process /\ Idle.at = 0 /\ Idle.reg = Missing /\ Idle.from = {} /\ Missing \in File
  /\ Missing.st = "none"
BY DEF Idle, Process, Missing, File

-----------------------------------------------------------------------------
(* A step of a command: what the process carries on, and where it goes.    *)

\* q is what the process of c carries when it goes on after its step.
Carries(c, q) ==
  LET p == proc[c]  s == Upcoming(c)  read == disk[s.file] IN
  /\ q.last = p.last /\ q.run = p.run /\ q.made = p.made /\ q.says \in Versions
  /\ s.op = "refuse" => read.st = "none"
  /\ s.op = "require" => read.st # "none"
  /\ s.op = "load" => read.st = "whole"
  /\ s.op = "loadPinned" => Pinned(p, s.keys)
  /\ q.reg = p.reg \/ (q.reg = disk["prereg"] /\ disk["prereg"].st = "whole")
  /\ s.op = "load" /\ s.file = "prereg" => q.reg = disk["prereg"]
  /\ q.input = p.input \/ (p.input = NoVersion /\ q.input \in Versions)
  /\ s.op = "load" /\ s.file # "prereg" => q.input # NoVersion
  /\ q.todo = IF s.op \in TodoOps THEN Unwritten(p, s.file, s.keys) ELSE p.todo
  /\ \/ q.from = p.from
     \/ s.op \in ReadOps /\ s.file # "prereg" /\ read.st = "whole" /\ q.from = p.from \cup read.from \cup {read.made}
     \/ s.op \in WriteOps /\ q.from = p.from \cup {p.made}

Places(c) == {proc[c].at + 1, proc[c].at + 1 + Upcoming(c).skip}

\* The command ends, or goes on with q at n.
GoesOn(c) ==
  \/ End(c)
  \/ \E q \in Process, n \in Places(c) :
       /\ Carries(c, q) /\ Goto(c, q, n)
       /\ Upcoming(c).op = "unless" => disk[Upcoming(c).file].st = "none" \/ n = proc[c].at + 1 + Upcoming(c).skip

LEMMA RunningProcess ==
  ASSUME Types, Running, NEW c \in Commands, proc[c].at > 0
  PROVE  /\ proc[c].last = Len(Script(c)) /\ proc[c].at \in 1..proc[c].last
         /\ proc[c].run \in Runs /\ proc[c].made \in Versions /\ proc[c].says \in Versions
BY IdleProcess DEF Running

\* Going on with nothing new.
LEMMA CarriesSame ==
  ASSUME Types, Running, NEW c \in Commands, proc[c].at > 0,
         Upcoming(c).op \notin {"load", "loadPinned"} \cup TodoOps,
         Upcoming(c).op = "refuse" => disk[Upcoming(c).file].st = "none",
         Upcoming(c).op = "require" => disk[Upcoming(c).file].st # "none"
  PROVE  Carries(c, proc[c])
BY RunningProcess DEF Carries

LEMMA HoldingFields ==
  ASSUME Sound, NEW c \in Commands, NEW f \in FilesOf(camp), disk[f].st = "whole"
  PROVE  LET q == Holding(proc[c], f)  p == proc[c] IN
         /\ q \in Process /\ q.last = p.last /\ q.run = p.run /\ q.made = p.made /\ q.says = p.says
         /\ q.todo = p.todo /\ q.at = p.at
         /\ f = "prereg" => q.reg = disk[f] /\ q.input = p.input /\ q.from = p.from
         /\ f # "prereg" => /\ q.reg = p.reg /\ q.input \in Versions
                            /\ q.input = p.input \/ p.input = NoVersion
                            /\ q.from = p.from \cup disk[f].from \cup {disk[f].made}
<1>1. /\ disk[f] \in File /\ disk[f].made \in Versions /\ disk[f].says \in Versions
      /\ disk[f].from \in SUBSET Versions
  BY DEF Sound, Types, WholeFiles, File
<1>2. /\ proc[c] \in Process /\ proc[c].from \in SUBSET Versions
      /\ proc[c].input \in {NoVersion} \cup Versions
  BY ProcessFields DEF Sound
<1>3. CASE f = "prereg"
  BY <1>1, <1>2, <1>3 DEF Holding, Process
<1>4. CASE f # "prereg"
  <2> DEFINE from == proc[c].from \cup disk[f].from \cup {disk[f].made}
             input == IF proc[c].input = NoVersion THEN disk[f].says ELSE proc[c].input
  <2>1. from \in SUBSET Versions /\ input \in Versions
    BY <1>1, <1>2
  <2>2. Holding(proc[c], f) = [proc[c] EXCEPT !.input = input, !.from = from]
    BY <1>2, <1>4 DEF Holding, Process
  <2>3. input = proc[c].input \/ proc[c].input = NoVersion
    OBVIOUS
  <2> HIDE DEF from, input
  <2>4. /\ Holding(proc[c], f) \in Process
        /\ Holding(proc[c], f).input = input /\ Holding(proc[c], f).from = from
        /\ Holding(proc[c], f).last = proc[c].last /\ Holding(proc[c], f).run = proc[c].run
        /\ Holding(proc[c], f).made = proc[c].made /\ Holding(proc[c], f).says = proc[c].says
        /\ Holding(proc[c], f).todo = proc[c].todo /\ Holding(proc[c], f).at = proc[c].at
        /\ Holding(proc[c], f).reg = proc[c].reg
    BY <1>2, <2>1, <2>2 DEF Process
  <2>5. QED
    BY <1>4, <2>1, <2>3, <2>4 DEF from
<1>5. QED
  BY <1>3, <1>4

\* A step that tells the process nothing new, and one that does.
LEMMA GoesOnSame ==
  ASSUME Sound, NEW c \in Commands, proc[c].at > 0,
         Upcoming(c).op \notin {"load", "loadPinned", "unless"} \cup TodoOps,
         Upcoming(c).op = "refuse" => disk[Upcoming(c).file].st = "none",
         Upcoming(c).op = "require" => disk[Upcoming(c).file].st # "none",
         NEW n \in Places(c), Goto(c, proc[c], n)
  PROVE  GoesOn(c)
<1>1. Carries(c, proc[c]) /\ proc[c] \in Process
  BY CarriesSame, ProcessFields DEF Sound
<1>2. QED
  BY <1>1 DEF GoesOn

LEMMA GoesOnHolding ==
  ASSUME Sound, NEW c \in Commands, proc[c].at > 0, Upcoming(c).op \in ReadOps,
         disk[Upcoming(c).file].st = "whole",
         Upcoming(c).op = "loadPinned" => Pinned(proc[c], Upcoming(c).keys),
         NEW n \in Places(c), Goto(c, Holding(proc[c], Upcoming(c).file), n)
  PROVE  GoesOn(c)
<1> DEFINE f == Upcoming(c).file
           q == Holding(proc[c], f)
<1>1. f \in FilesOf(camp)
  BY UpcomingStep DEF Sound, ReadOps, TableOps
<1>2. /\ q \in Process /\ q.last = proc[c].last /\ q.run = proc[c].run /\ q.made = proc[c].made
      /\ q.says = proc[c].says /\ q.todo = proc[c].todo
      /\ f = "prereg" => q.reg = disk[f] /\ q.input = proc[c].input /\ q.from = proc[c].from
      /\ f # "prereg" => /\ q.reg = proc[c].reg /\ q.input \in Versions
                         /\ q.input = proc[c].input \/ proc[c].input = NoVersion
                         /\ q.from = proc[c].from \cup disk[f].from \cup {disk[f].made}
  BY <1>1, HoldingFields
<1>3. proc[c].says \in Versions /\ NoVersion \notin Versions
  BY RunningProcess, Numbers DEF Sound
<1> HIDE DEF q
<1>4. Carries(c, q)
  BY <1>2, <1>3 DEF Carries, ReadOps, TodoOps, f
<1>5. QED
  BY <1>2, <1>4 DEF GoesOn, q, ReadOps

LEMMA AsksGoes ==
  ASSUME Sound, NEW c \in Commands, proc[c].at > 0, Asks(c, Upcoming(c))
  PROVE  GoesOn(c)
<1>1. proc[c].at + 1 \in Places(c)
  BY DEF Places
<1>2. \/ End(c)
      \/ /\ Upcoming(c).op \in {"refuse", "require"} /\ Goto(c, proc[c], proc[c].at + 1)
         /\ Upcoming(c).op = "refuse" => disk[Upcoming(c).file].st = "none"
         /\ Upcoming(c).op = "require" => disk[Upcoming(c).file].st # "none"
  BY DEF Asks, Continue
<1>3. QED
  BY <1>1, <1>2, GoesOnSame DEF GoesOn, TodoOps

LEMMA ReadsGoes ==
  ASSUME Sound, NEW c \in Commands, proc[c].at > 0, Reads(c, Upcoming(c))
  PROVE  GoesOn(c)
<1> DEFINE s == Upcoming(c)
           held == Holding(proc[c], s.file)
<1>1. /\ s \in Steps /\ s.file \in FilesOf(camp) /\ disk[s.file].st \in {"none", "torn", "whole"}
  <2>1. s \in Steps /\ s.op \notin TableOps
    BY UpcomingStep DEF Sound, Reads, TableOps
  <2>2. s.file \in FilesOf(camp)
    BY <2>1, UpcomingStep DEF Sound
  <2>3. disk[s.file] \in File
    BY <2>2 DEF Sound, Types
  <2>4. QED
    BY <2>1, <2>2, <2>3 DEF File
<1>2. proc[c].at + 1 \in Places(c) /\ proc[c].at + 1 + s.skip \in Places(c)
  BY DEF Places
<1>3. disk[s.file].st = "whole" => held.at = proc[c].at
  BY <1>1, HoldingFields
<1>4. /\ disk[s.file].st = "none" => disk[s.file].st # "whole" /\ disk[s.file].st # "torn"
      /\ disk[s.file].st = "torn" => disk[s.file].st # "whole"
  OBVIOUS
<1>5. ASSUME s.op \in {"load", "loadIfThere", "cached"}
      PROVE  \/ End(c)
             \/ disk[s.file].st = "whole" /\ \E n \in Places(c) : Goto(c, held, n)
             \/ s.op # "load" /\ \E n \in Places(c) : Goto(c, proc[c], n)
  <2>1. CASE disk[s.file].st = "whole"
    BY <1>2, <1>3, <1>5, <2>1 DEF Reads, Continue
  <2>2. CASE disk[s.file].st = "none"
    BY <1>2, <1>5, <2>2 DEF Reads, Continue
  <2>3. CASE disk[s.file].st = "torn"
    BY <1>5, <2>3 DEF Reads
  <2>4. QED
    BY <1>1, <2>1, <2>2, <2>3
<1>6. CASE s.op \in {"load", "loadIfThere", "cached"}
  BY <1>5, <1>6, GoesOnHolding, GoesOnSame DEF GoesOn, ReadOps, TodoOps
<1>7. CASE s.op = "loadPinned"
  <2>1. s.file = "prereg"
    <3>1. proc[c].at \in DOMAIN Script(c)
      BY UpcomingStep DEF Sound
    <3>2. QED
      BY <1>7, <3>1, ScriptSteps DEF Sound, Upcoming
  <2>2. CASE Pinned(proc[c], s.keys)
    <3>1. disk[s.file].st = "whole"
      BY <2>1, <2>2 DEF Pinned
    <3>2. Goto(c, held, proc[c].at + 1)
      BY <1>3, <1>7, <2>2, <3>1 DEF Reads, Continue
    <3>3. QED
      BY <1>2, <1>7, <2>2, <3>1, <3>2, GoesOnHolding DEF ReadOps
  <2>3. CASE ~Pinned(proc[c], s.keys)
    BY <1>7, <2>3 DEF Reads, GoesOn
  <2>4. QED
    BY <2>2, <2>3
<1>8. CASE s.op = "unless"
  <2>1. Carries(c, proc[c]) /\ proc[c] \in Process
    BY <1>8, CarriesSame, ProcessFields DEF TodoOps, Sound
  <2>2. \/ disk[s.file].st = "none" /\ Goto(c, proc[c], proc[c].at + 1 + 0)
        \/ Goto(c, proc[c], proc[c].at + 1 + s.skip)
    BY <1>8 DEF Reads
  <2>3. proc[c].at + 1 + 0 = proc[c].at + 1
    BY ProcessFields DEF Sound
  <2>4. QED
    BY <1>2, <2>1, <2>2, <2>3 DEF GoesOn
<1>9. QED
  BY <1>6, <1>7, <1>8 DEF Reads

LEMMA PlainGoes ==
  ASSUME Sound, NEW c \in Commands, proc[c].at > 0,
         LET s == Upcoming(c) IN Chooses(c, s) \/ Opens(c, s) \/ Moves(c, s)
  PROVE  GoesOn(c)
<1>1. proc[c].at + 1 \in Places(c) /\ proc[c].at + 1 + Upcoming(c).skip \in Places(c)
  BY DEF Places
<1>2. proc[c].at + 1 + 0 = proc[c].at + 1
  BY ProcessFields DEF Sound
<1>3. CASE Chooses(c, Upcoming(c))
  BY <1>1, <1>2, <1>3, GoesOnSame DEF Chooses, TodoOps
<1>4. CASE Opens(c, Upcoming(c)) \/ Moves(c, Upcoming(c))
  BY <1>1, <1>4, GoesOnSame DEF Opens, Moves, Continue, TodoOps
<1>5. QED
  BY <1>3, <1>4

LEMMA HashesGoes ==
  ASSUME Sound, NEW c \in Commands, proc[c].at > 0, Hashes(c, Upcoming(c))
  PROVE  GoesOn(c)
<1> DEFINE says == [proc[c].says EXCEPT !.code = tree.code]
           q == [proc[c] EXCEPT !.says = says]
<1>1. /\ proc[c] \in Process /\ proc[c].says \in Versions /\ tree \in Versions
  BY ProcessFields, RunningProcess DEF Sound, Types
<1>2. says \in Versions
  BY <1>1 DEF Versions
<1>3. Upcoming(c).op = "hash" /\ Goto(c, [proc[c] EXCEPT !.says.code = tree.code], [proc[c] EXCEPT !.says.code = tree.code].at + 1)
  BY DEF Hashes, Continue
<1>4. Goto(c, q, q.at + 1)
  BY <1>1, <1>3 DEF Process
<1> HIDE DEF says
<1>5. /\ q \in Process /\ q.says = says /\ q.at = proc[c].at /\ q.last = proc[c].last /\ q.run = proc[c].run
      /\ q.made = proc[c].made /\ q.reg = proc[c].reg /\ q.input = proc[c].input
      /\ q.todo = proc[c].todo /\ q.from = proc[c].from
  BY <1>1, <1>2 DEF Process
<1> HIDE DEF q
<1>6. Carries(c, q)
  BY <1>2, <1>3, <1>5 DEF Carries, TodoOps
<1>7. proc[c].at + 1 \in Places(c)
  BY DEF Places
<1>8. QED
  BY <1>3, <1>4, <1>5, <1>6, <1>7 DEF GoesOn

LEMMA WritesGoes ==
  ASSUME Sound, NEW c \in Commands, proc[c].at > 0, Writes(c, Upcoming(c))
  PROVE  GoesOn(c)
<1> DEFINE s == Upcoming(c)
           from == IF s.file = "prereg" THEN proc[c].from ELSE proc[c].from \cup {proc[c].made}
           q == [proc[c] EXCEPT !.from = from]
<1>1. /\ proc[c] \in Process /\ proc[c].says \in Versions /\ proc[c].made \in Versions
      /\ proc[c].from \in SUBSET Versions
  BY ProcessFields, RunningProcess DEF Sound
<1>2. from \in SUBSET Versions
  BY <1>1
<1>3. s.op \in WriteOps \ {"open"} /\ Goto(c, q, q.at + 1)
  BY <1>1 DEF Writes, WriteOps, Continue, Process
<1>4. from = proc[c].from \/ from = proc[c].from \cup {proc[c].made}
  OBVIOUS
<1> HIDE DEF from
<1>5. /\ q \in Process /\ q.says = proc[c].says /\ q.at = proc[c].at /\ q.last = proc[c].last
      /\ q.run = proc[c].run /\ q.made = proc[c].made /\ q.reg = proc[c].reg
      /\ q.input = proc[c].input /\ q.todo = proc[c].todo /\ q.from = from
  BY <1>1, <1>2 DEF Process
<1> HIDE DEF q
<1>6. s.op \notin {"load", "loadPinned", "refuse", "require", "unless"} \cup TodoOps
  BY <1>3 DEF WriteOps, TodoOps
<1>7. Carries(c, q)
  BY <1>1, <1>3, <1>4, <1>5, <1>6 DEF Carries
<1>8. proc[c].at + 1 \in Places(c)
  BY DEF Places
<1>9. QED
  BY <1>3, <1>5, <1>6, <1>7, <1>8 DEF GoesOn

LEMMA TablesGoes ==
  ASSUME Sound, NEW c \in Commands, proc[c].at > 0, Tables(c, Upcoming(c))
  PROVE  GoesOn(c)
<1> DEFINE s == Upcoming(c)
           left == Unwritten(proc[c], s.file, s.keys)
           q == [proc[c] EXCEPT !.todo = left]
<1>1. /\ proc[c] \in Process /\ proc[c].says \in Versions /\ s.keys \in SUBSET STRING
      /\ proc[c].at + 1 \in Places(c)
  BY ProcessFields, RunningProcess, UpcomingStep, StepFields DEF Sound, Places
<1>2. CASE s.op \in LineOps /\ Goto(c, proc[c], proc[c].at + 1)
  BY <1>1, <1>2, GoesOnSame DEF LineOps, TodoOps
<1>3. CASE s.op \in TodoOps /\ Goto(c, q, q.at + 1)
  <2>1. left \in SUBSET STRING
    BY <1>1 DEF Unwritten
  <2> HIDE DEF left
  <2>2. /\ q \in Process /\ q.says = proc[c].says /\ q.at = proc[c].at /\ q.last = proc[c].last
        /\ q.run = proc[c].run /\ q.made = proc[c].made /\ q.reg = proc[c].reg
        /\ q.input = proc[c].input /\ q.todo = left /\ q.from = proc[c].from
    BY <1>1, <2>1 DEF Process
  <2> HIDE DEF q
  <2>3. Carries(c, q)
    BY <1>1, <1>3, <2>2 DEF Carries, TodoOps, left
  <2>4. QED
    BY <1>1, <1>3, <2>2, <2>3 DEF GoesOn, TodoOps
<1>4. CASE End(c)
  BY <1>4 DEF GoesOn
<1>5. QED
  BY <1>2, <1>3, <1>4 DEF Tables, Continue, LineOps, TodoOps

LEMMA TakesGoes ==
  ASSUME Sound, NEW c \in Commands, Takes(c)
  PROVE  proc[c].at > 0 /\ GoesOn(c)
<1>1. /\ proc[c].at > 0
      /\ LET s == Upcoming(c) IN
           Asks(c, s) \/ Reads(c, s) \/ Hashes(c, s) \/ Chooses(c, s) \/ Opens(c, s) \/ Writes(c, s)
           \/ Moves(c, s) \/ Tables(c, s)
  BY DEF Takes, Upcoming, Script
<1>2. QED
  BY <1>1, AsksGoes, ReadsGoes, HashesGoes, PlainGoes, WritesGoes, TablesGoes

\* The command goes on: what it carries, and where it is.
Went(c) ==
  /\ Carries(c, proc'[c])
  /\ proc'[c].at \in Places(c) /\ proc'[c].at \in 1..proc[c].last
  /\ Upcoming(c).op = "unless" =>
       disk[Upcoming(c).file].st = "none" \/ proc'[c].at = proc[c].at + 1 + Upcoming(c).skip

\* Only c's process may have changed.
OnlyMoves(c) ==
  /\ proc' \in [DOMAIN Campaigns[camp] -> Process]
  /\ \A d \in Commands : d # c => proc'[d] = proc[d]

LEMMA CarriesAnywhere ==
  ASSUME NEW c \in Commands, NEW q \in Process, NEW n \in Nat, Carries(c, q)
  PROVE  /\ [q EXCEPT !.at = n] \in Process /\ [q EXCEPT !.at = n].at = n
         /\ Carries(c, [q EXCEPT !.at = n])
<1> DEFINE r == [q EXCEPT !.at = n]
<1>1. /\ r \in Process /\ r.at = n /\ r.last = q.last /\ r.run = q.run /\ r.made = q.made /\ r.says = q.says
      /\ r.reg = q.reg /\ r.input = q.input /\ r.todo = q.todo /\ r.from = q.from
  BY DEF Process
<1> HIDE DEF r
<1>2. Carries(c, r)
  BY <1>1 DEF Carries
<1>3. QED
  BY <1>1, <1>2 DEF r

LEMMA PlacesAhead ==
  ASSUME Sound, NEW c \in Commands, proc[c].at > 0, NEW n \in Places(c)
  PROVE  n \in Nat /\ n > proc[c].at /\ Upcoming(c).skip \in Nat /\ n <= proc[c].at + 1 + Upcoming(c).skip
<1>1. Upcoming(c).skip \in Nat /\ proc[c].at \in Nat
  BY UpcomingStep, StepFields, ProcessFields DEF Sound
<1>2. QED
  BY <1>1 DEF Places

LEMMA TakesControl ==
  ASSUME Sound, NEW c \in Commands, Takes(c)
  PROVE  /\ OnlyMoves(c) /\ proc[c].at > 0 /\ proc' = [proc EXCEPT ![c] = proc'[c]]
         /\ proc'[c] = Idle \/ Went(c)
<1>1. proc \in [DOMAIN Campaigns[camp] -> Process] /\ c \in DOMAIN Campaigns[camp]
  BY DEF Sound, Types, Commands
<1>2. proc[c].at > 0 /\ GoesOn(c)
  BY TakesGoes
<1>3. ASSUME NEW r \in Process, proc' = [proc EXCEPT ![c] = r]
      PROVE  OnlyMoves(c) /\ proc'[c] = r /\ proc' = [proc EXCEPT ![c] = proc'[c]]
  BY <1>1, <1>3 DEF OnlyMoves, Commands
<1>4. CASE proc' = [proc EXCEPT ![c] = Idle]
  BY <1>2, <1>3, <1>4, IdleProcess
<1>5. ASSUME NEW q \in Process, NEW n \in Places(c), Carries(c, q), n <= q.last,
             proc' = [proc EXCEPT ![c] = [q EXCEPT !.at = n]],
             Upcoming(c).op = "unless" =>
               disk[Upcoming(c).file].st = "none" \/ n = proc[c].at + 1 + Upcoming(c).skip
      PROVE  OnlyMoves(c) /\ proc' = [proc EXCEPT ![c] = proc'[c]] /\ Went(c)
  <2> DEFINE r == [q EXCEPT !.at = n]
  <2>1. n \in Nat /\ n > proc[c].at /\ proc[c].at \in Nat /\ proc[c].last \in Nat /\ q.last = proc[c].last
    BY <1>2, <1>5, PlacesAhead, ProcessFields DEF Sound, Carries
  <2>2. r \in Process /\ r.at = n /\ Carries(c, r)
    BY <1>5, <2>1, CarriesAnywhere
  <2> HIDE DEF r
  <2>3. proc' = [proc EXCEPT ![c] = r]
    BY <1>5 DEF r
  <2>4. OnlyMoves(c) /\ proc'[c] = r /\ proc' = [proc EXCEPT ![c] = proc'[c]]
    BY <1>3, <2>2, <2>3
  <2>5. n \in 1..proc[c].last
    BY <1>5, <2>1
  <2>6. QED
    BY <1>5, <2>2, <2>4, <2>5 DEF Went
<1>6. QED
  <2>1. CASE End(c)
    BY <1>2, <1>4, <2>1 DEF End
  <2>2. ASSUME NEW q \in Process, NEW n \in Places(c), Carries(c, q), Goto(c, q, n),
               Upcoming(c).op = "unless" =>
                 disk[Upcoming(c).file].st = "none" \/ n = proc[c].at + 1 + Upcoming(c).skip
        PROVE  /\ OnlyMoves(c) /\ proc[c].at > 0 /\ proc' = [proc EXCEPT ![c] = proc'[c]]
               /\ proc'[c] = Idle \/ Went(c)
    <3>1. CASE n > q.last
      BY <1>2, <1>3, <2>2, <3>1, IdleProcess DEF Goto
    <3>2. CASE ~(n > q.last)
      <4>1. n \in Nat /\ q.last \in Nat
        BY <1>2, PlacesAhead DEF Process
      <4>2. n <= q.last
        BY <3>2, <4>1
      <4>3. proc' = [proc EXCEPT ![c] = [q EXCEPT !.at = n]]
        BY <2>2, <3>2 DEF Goto
      <4>4. QED
        BY <1>2, <1>5, <2>2, <4>2, <4>3
    <3>3. QED
      BY <3>1, <3>2
  <2>3. QED
    BY <1>2, <2>1, <2>2 DEF GoesOn

\* Going on, a process gets past the step it took and past no other.
LEMMA WentPast ==
  ASSUME Sound, NEW c \in Commands, proc[c].at > 0, Went(c), NEW j \in Before(Script(c), proc'[c].at)
  PROVE  j = proc[c].at \/ Past(c, j)
<1>1. /\ proc[c].at \in Nat /\ proc'[c].at \in Nat /\ Upcoming(c).skip \in Nat
      /\ proc'[c].at <= proc[c].at + 1 + Upcoming(c).skip
  BY PlacesAhead, ProcessFields DEF Sound, Went
<1>2. j \in 1..(proc'[c].at - 1) /\ Always(Script(c), j)
  BY DEF Before
<1>3. CASE j < proc[c].at
  BY <1>1, <1>2, <1>3 DEF Past, Before
<1>4. CASE j > proc[c].at
  <2>1. proc[c].at \in 1..(j - 1)
    BY <1>1, <1>2, <1>4
  <2>2. proc[c].at + 1 + Script(c)[proc[c].at].skip <= j
    BY <1>2, <2>1 DEF Always
  <2>3. QED
    BY <1>1, <1>2, <2>2 DEF Upcoming
<1>5. QED
  BY <1>1, <1>2, <1>3, <1>4

-----------------------------------------------------------------------------
(* A step of a command: the files and the tables.                          *)

LEMMA TakesFiles ==
  ASSUME NEW c \in Commands, Takes(c)
  PROVE  LET p == proc[c]  s == Upcoming(c) IN
         /\ camp' = camp /\ tree' = tree /\ started' = started
         /\ \/ s.op \notin WriteOps \cup {"move"} /\ disk' = disk /\ first' = first
            \/ /\ s.op = "open" /\ first' = first
               /\ disk' = [disk EXCEPT ![s.file] = [Missing EXCEPT !.st = "torn", !.by = p.run]]
            \/ /\ s.op \in WriteOps \ {"open"} /\ disk' = [disk EXCEPT ![s.file] = Content(p, s.op)]
               /\ first' = IF s.op = "register" /\ first = NoVersion THEN p.says ELSE first
            \/ /\ s.op = "move" /\ first' = first
               /\ \E g \in s.keys : disk' = [disk EXCEPT ![g] = disk[s.file], ![s.file] = Missing]
         /\ \/ s.op \notin LineOps /\ rows' = rows
            \/ s.op = "line" /\ Write(p, s.file, s.keys)
            \/ s.op = "lineTodo" /\ Write(p, s.file, s.keys \cap p.todo)
<1> DEFINE s == Upcoming(c)
<1>1. Asks(c, s) \/ Reads(c, s) \/ Hashes(c, s) \/ Chooses(c, s) \/ Opens(c, s) \/ Writes(c, s)
      \/ Moves(c, s) \/ Tables(c, s)
  BY DEF Takes, Upcoming, Script
<1> HIDE DEF s
<1>2. CASE Asks(c, s)
  BY <1>2 DEF Asks, WriteOps, LineOps, s
<1>3. CASE Reads(c, s)
  BY <1>3 DEF Reads, WriteOps, LineOps, s
<1>4. CASE Hashes(c, s) \/ Chooses(c, s)
  BY <1>4 DEF Hashes, Chooses, WriteOps, LineOps, s
<1>5. CASE Opens(c, s) \/ Moves(c, s)
  BY <1>5 DEF Opens, Moves, WriteOps, LineOps, s
<1>6. CASE Writes(c, s)
  BY <1>6 DEF Writes, WriteOps, LineOps, s
<1>7. CASE Tables(c, s)
  BY <1>7 DEF Tables, WriteOps, LineOps, s
<1>8. QED
  BY <1>1, <1>2, <1>3, <1>4, <1>5, <1>6, <1>7

LEMMA OutputFields ==
  ASSUME NEW p \in Process
  PROVE  /\ Output(p) \in File /\ Output(p).st = "whole" /\ Output(p).by = p.run /\ Output(p).made = p.made
         /\ Output(p).base = p.says /\ Output(p).added = {} /\ Output(p).says = p.says /\ Output(p).from = p.from
BY DEF Output, File, Process

\* What an amendment keeps, and what it adds.
LEMMA AmendedFields ==
  ASSUME Types, NEW p \in Process, p.reg.st = "whole", p.reg.says \in Versions, p.says \in Versions,
         NEW kind \in {"append", "swap", "replace"}
  PROVE  LET new == Content(p, kind) IN
         /\ new \in File /\ new.st = "whole" /\ new.by = p.run /\ new.made = p.reg.made /\ new.from = p.reg.from
         /\ new.says \in Versions
         /\ kind = "append" => /\ new.base = p.reg.base /\ new.added = p.reg.added \cup {p.says}
                               /\ new.says = p.says
         /\ kind = "swap" => /\ new.base = new.says /\ new.added = p.reg.added \cup {p.reg.says, new.says}
<1>1. /\ p.reg \in File /\ p.run \in {0} \cup Runs
  BY DEF Process
<1>2. CASE kind = "append"
  <2>1. p.reg.added \cup {p.says} \in SUBSET Versions
    BY <1>1 DEF File
  <2>2. Content(p, kind) = [p.reg EXCEPT !.by = p.run, !.added = p.reg.added \cup {p.says}, !.says = p.says]
    BY <1>1, <1>2 DEF Content, Appended, File
  <2>3. QED
    BY <1>1, <1>2, <2>1, <2>2 DEF File
<1>3. CASE kind = "replace"
  <2>1. p.reg.added \cup {p.says} \in SUBSET Versions
    BY <1>1 DEF File
  <2>2. Content(p, kind) = [p.reg EXCEPT !.by = p.run, !.added = p.reg.added \cup {p.says}, !.base = p.says, !.says = p.says]
    BY <1>1, <1>3 DEF Content, Replaced, File
  <2>3. QED
    BY <1>1, <1>3, <2>1, <2>2 DEF File
<1>4. CASE kind = "swap"
  <2> DEFINE new == [p.reg.says EXCEPT !.code = p.says.code]
             added == p.reg.added \cup {p.reg.says, new}
  <2>1. new \in Versions
    BY DEF Versions
  <2>2. added \in SUBSET Versions
    BY <1>1, <2>1 DEF File
  <2>3. Content(p, kind) = [p.reg EXCEPT !.by = p.run, !.added = added, !.base = new, !.says = new]
    BY <1>1, <1>4 DEF Content, Swapped, File
  <2> HIDE DEF new
  <2>4. added = p.reg.added \cup {p.reg.says, new}
    OBVIOUS
  <2> HIDE DEF added
  <2>5. Content(p, kind) \in File /\ Content(p, kind).says = new /\ Content(p, kind).added = added
        /\ Content(p, kind).base = new /\ Content(p, kind).by = p.run
    BY <1>1, <1>4, <2>1, <2>2, <2>3 DEF File
  <2>6. QED
    BY <1>1, <1>4, <2>3, <2>4, <2>5 DEF File
<1>5. QED
  BY <1>2, <1>3, <1>4

\* A step that fills a file: what it holds then.
LEMMA FilledFields ==
  ASSUME Sound, NEW c \in Commands, proc[c].at > 0, Upcoming(c).op \in WriteOps \ {"open"}
  PROVE  LET p == proc[c]  op == Upcoming(c).op  new == Content(p, op) IN
         /\ new \in File /\ new.st = "whole" /\ new.by = p.run /\ new.made \in Versions /\ new.says \in Versions
         /\ op \in {"append", "swap", "replace"} =>
              p.reg.st = "whole" /\ p.reg.says \in Versions /\ p.says \in Versions
         /\ op \notin {"append", "swap", "replace"} => new = Output(p)
<1>1. /\ proc[c] \in Process /\ proc[c].says \in Versions /\ proc[c].made \in Versions /\ proc[c].from \in SUBSET Versions
  BY ProcessFields, RunningProcess DEF Sound
<1>2. CASE Upcoming(c).op \in {"append", "swap", "replace"}
  <2>1. PICK j \in Before(Script(c), proc[c].at) : Script(c)[j].op = "load" /\ Script(c)[j].file = "prereg"
    BY <1>2, UpcomingStep, ScriptSteps DEF Sound, Upcoming
  <2>2. Past(c, j) /\ j \in DOMAIN Script(c)
    <3>1. proc[c].at \in Nat /\ proc[c].at \in 1..Len(Script(c)) /\ DOMAIN Script(c) = 1..Len(Script(c)) /\ Len(Script(c)) \in Nat
      BY UpcomingStep, ScriptSteps DEF Sound
    <3>2. QED
      BY <3>1 DEF Past, Before
  <2>3. proc[c].reg.st = "whole"
    BY <2>1, <2>2 DEF Sound, Loaded
  <2>4. proc[c].reg.says \in Versions /\ proc[c].reg.made \in Versions
    BY <2>3, IdleProcess DEF Sound, WholeRegs
  <2>5. QED
    BY <1>1, <1>2, <2>3, <2>4, AmendedFields DEF Sound
<1>3. CASE Upcoming(c).op \notin {"append", "swap", "replace"}
  <2>1. Content(proc[c], Upcoming(c).op) = Output(proc[c])
    BY <1>3 DEF Content
  <2>2. QED
    BY <1>1, <1>3, <2>1, OutputFields
<1>4. QED
  BY <1>2, <1>3

\* What a step of c does to a file.
LEMMA FileAfter ==
  ASSUME Sound, NEW c \in Commands, Takes(c)
  PROVE  LET s == Upcoming(c) IN
         /\ disk' \in [FilesOf(camp) -> File]
         /\ \A f \in FilesOf(camp) :
              \/ disk'[f] = disk[f] /\ f \notin (IF s.op \in WriteOps THEN {s.file} ELSE {})
              \/ /\ f \in Puts(s)
                 /\ \/ s.op = "open" /\ f = s.file /\ disk'[f].st = "torn" /\ disk'[f].by = proc[c].run
                    \/ s.op \in WriteOps \ {"open"} /\ f = s.file /\ disk'[f] = Content(proc[c], s.op)
                    \/ s.op = "move" /\ (disk'[f] = Missing \/ (disk'[f] = disk[s.file] /\ s.file \in FilesOf(camp)))
<1> DEFINE s == Upcoming(c)
           torn == [Missing EXCEPT !.st = "torn", !.by = proc[c].run]
<1>1. /\ disk \in [FilesOf(camp) -> File] /\ proc[c].at > 0 /\ proc[c].run \in {0} \cup Runs
      /\ s.op \notin TableOps => s.file \in FilesOf(camp)
      /\ s.op = "move" => s.keys \subseteq FilesOf(camp)
  BY TakesControl, UpcomingStep, ProcessFields DEF Sound, Types
<1>2. torn \in File /\ torn.st = "torn" /\ torn.by = proc[c].run
  BY <1>1, IdleProcess DEF Missing, File
<1> HIDE DEF torn
<1>3. CASE disk' = disk /\ s.op \notin WriteOps \cup {"move"}
  BY <1>1, <1>3
<1>4. CASE s.op = "open" /\ disk' = [disk EXCEPT ![s.file] = torn]
  <2>1. s.file \in FilesOf(camp) /\ Puts(s) = {s.file} /\ s.op \in WriteOps
    BY <1>1, <1>4 DEF TableOps, Puts, WriteOps
  <2>2. QED
    BY <1>1, <1>2, <1>4, <2>1
<1>5. CASE s.op \in WriteOps \ {"open"} /\ disk' = [disk EXCEPT ![s.file] = Content(proc[c], s.op)]
  <2>1. s.file \in FilesOf(camp) /\ Puts(s) = {s.file}
    BY <1>1, <1>5 DEF TableOps, Puts, WriteOps
  <2>2. Content(proc[c], s.op) \in File
    BY <1>1, <1>5, FilledFields
  <2>3. QED
    BY <1>1, <1>5, <2>1, <2>2
<1>6. CASE s.op = "move" /\ \E g \in s.keys : disk' = [disk EXCEPT ![g] = disk[s.file], ![s.file] = Missing]
  <2>1. PICK g \in s.keys : disk' = [disk EXCEPT ![g] = disk[s.file], ![s.file] = Missing]
    BY <1>6
  <2>2. s.file \in FilesOf(camp) /\ g \in FilesOf(camp) /\ Puts(s) = {s.file} \cup s.keys /\ s.op \notin WriteOps
    BY <1>1, <1>6 DEF TableOps, Puts, WriteOps
  <2>3. Missing \in File /\ disk[s.file] \in File
    BY <1>1, <2>2, IdleProcess
  <2>4. QED
    BY <1>1, <1>6, <2>1, <2>2, <2>3
<1>7. QED
  BY <1>3, <1>4, <1>5, <1>6, TakesFiles DEF torn

\* c has just been started.
Begun(c) ==
  /\ proc'[c].at = 1 /\ proc'[c].last = Len(Script(c)) /\ proc'[c].run \in Runs /\ proc'[c].run = started + 1
  /\ proc'[c].made \in Versions /\ proc'[c].says \in Versions
  /\ proc'[c].reg = Missing /\ proc'[c].input = NoVersion /\ proc'[c].from = {} /\ proc'[c].todo = {}

\* Every step is one of a running command, or starts or ends one and leaves the files alone.
LEMMA NextStep ==
  ASSUME Sound, [Next]_vars
  PROVE  /\ camp' = camp /\ tree' \in Versions /\ started' \in 0..MaxStarts[camp]
         /\ proc' \in [DOMAIN Campaigns[camp] -> Process]
         /\ \/ \E c \in Commands : Takes(c)
            \/ /\ disk' = disk /\ rows' = rows /\ first' = first
               /\ \A c \in Commands : proc'[c] = proc[c] \/ proc'[c] = Idle \/ Begun(c)
<1>1. /\ camp \in DOMAIN Campaigns /\ tree \in Versions /\ started \in 0..MaxStarts[camp]
      /\ MaxStarts[camp] \in Nat
      /\ proc \in [DOMAIN Campaigns[camp] -> Process] /\ Commands = DOMAIN Campaigns[camp]
  BY BoundsAssumption DEF Sound, Types, Commands
<1>2. ASSUME NEW c \in Commands, Start(c)
      PROVE  /\ proc' \in [DOMAIN Campaigns[camp] -> Process] /\ started' \in 0..MaxStarts[camp]
             /\ \A d \in Commands : proc'[d] = proc[d] \/ Begun(d)
  <2> DEFINE r == [Idle EXCEPT !.at = 1, !.last = Len(Campaigns[camp][c]), !.run = started + 1, !.made = tree, !.says = tree]
  <2>1. started + 1 \in Runs /\ started' = started + 1 /\ Len(Campaigns[camp][c]) \in Nat
    BY <1>1, <1>2, ScriptSteps DEF Start, Runs, Sound, Script
  <2>2. /\ r \in Process /\ r.at = 1 /\ r.last = Len(Script(c)) /\ r.run = started + 1 /\ r.made = tree /\ r.says = tree
        /\ r.reg = Missing /\ r.input = NoVersion /\ r.from = {} /\ r.todo = {}
    BY <1>1, <2>1, IdleProcess DEF Process, Idle, Script
  <2>3. proc' = [proc EXCEPT ![c] = r]
    BY <1>2 DEF Start
  <2> HIDE DEF r
  <2>4. \A d \in Commands : proc'[d] = IF d = c THEN r ELSE proc[d]
    BY <1>1, <2>3
  <2>5. started' \in 0..MaxStarts[camp]
    BY <1>1, <1>2, <2>1 DEF Start
  <2>6. QED
    BY <1>1, <2>1, <2>2, <2>3, <2>4, <2>5 DEF Begun
<1>3. ASSUME NEW c \in Commands, Crash(c)
      PROVE  /\ proc' \in [DOMAIN Campaigns[camp] -> Process]
             /\ \A d \in Commands : proc'[d] = proc[d] \/ proc'[d] = Idle
  BY <1>1, <1>3, IdleProcess DEF Crash, End
<1>4. ASSUME Edit PROVE tree' \in Versions
  BY <1>1, <1>4 DEF Edit, Versions
<1>5. ASSUME NEW c \in Commands, Takes(c) PROVE camp' = camp /\ tree' = tree /\ started' = started /\ OnlyMoves(c)
  BY <1>5, TakesFiles, TakesControl
<1>6. CASE Edit
  BY <1>1, <1>4, <1>6 DEF Edit
<1>7. ASSUME NEW c \in Commands, Start(c)
      PROVE  camp' = camp /\ tree' = tree /\ disk' = disk /\ rows' = rows /\ first' = first
  BY <1>7 DEF Start
<1>8. ASSUME NEW c \in Commands, Crash(c)
      PROVE  camp' = camp /\ tree' = tree /\ started' = started /\ disk' = disk /\ rows' = rows /\ first' = first
  BY <1>8 DEF Crash
<1>9. CASE UNCHANGED vars
  BY <1>1, <1>9 DEF vars
<1>10. QED
  BY <1>1, <1>2, <1>3, <1>5, <1>6, <1>7, <1>8, <1>9 DEF Next, OnlyMoves

LEMMA ProcAfter ==
  ASSUME Sound, [Next]_vars, NEW c \in Commands
  PROVE  /\ Commands' = Commands /\ Script(c)' = Script(c)
         /\ \/ proc'[c] = proc[c]
            \/ proc'[c] = Idle
            \/ Begun(c) /\ disk' = disk /\ rows' = rows /\ first' = first
            \/ Takes(c) /\ Went(c) /\ proc[c].at > 0
<1>1. camp' = camp /\ Commands' = Commands
  BY NextStep DEF Sound, Types, Commands
<1>2. ASSUME NEW d \in Commands, Takes(d)
      PROVE  proc'[c] = proc[c] \/ proc'[c] = Idle \/ (Takes(c) /\ Went(c) /\ proc[c].at > 0)
  BY <1>2, TakesControl DEF OnlyMoves
<1>3. QED
  BY <1>1, <1>2, NextStep DEF Script

LEMMA SameScripts ==
  ASSUME Sound, [Next]_vars
  PROVE  /\ camp' = camp /\ Commands' = Commands /\ DOMAIN disk' = DOMAIN disk /\ DOMAIN disk = FilesOf(camp)
         /\ \A c \in Commands : Script(c)' = Script(c)
<1>1. camp' = camp /\ Commands' = Commands
  BY NextStep DEF Sound, Types, Commands
<1>2. disk' = disk \/ disk' \in [FilesOf(camp) -> File]
  BY NextStep, FileAfter DEF Sound, Types
<1>3. DOMAIN disk = FilesOf(camp) /\ DOMAIN disk' = DOMAIN disk
  BY <1>2 DEF Sound, Types
<1>4. QED
  BY <1>1, <1>3 DEF Script

\* What a command has taken after a step, it had taken or takes now.
LEMMA PastAfter ==
  ASSUME Sound, [Next]_vars, NEW c \in Commands, NEW j, Past(c, j)'
  PROVE  /\ proc[c].at > 0
         /\ \/ proc'[c] = proc[c] /\ Past(c, j)
            \/ Takes(c) /\ Went(c) /\ (j = proc[c].at \/ Past(c, j))
<1>1. /\ Script(c)' = Script(c)
      /\ \/ proc'[c] = proc[c]
         \/ proc'[c] = Idle
         \/ Begun(c)
         \/ Takes(c) /\ Went(c) /\ proc[c].at > 0
  BY ProcAfter
<1>2. proc'[c].at > 0 /\ j \in Before(Script(c), proc'[c].at)
  BY <1>1 DEF Past
<1>3. CASE proc'[c] = proc[c]
  BY <1>2, <1>3 DEF Past
<1>4. CASE proc'[c] = Idle
  BY <1>2, <1>4, IdleProcess
<1>5. CASE Begun(c)
  BY <1>2, <1>5 DEF Begun, Before
<1>6. CASE Takes(c) /\ Went(c) /\ proc[c].at > 0
  BY <1>2, <1>6, WentPast
<1>7. QED
  BY <1>1, <1>3, <1>4, <1>5, <1>6

\* The rows a step of c adds are c's own.
LEMMA RowsAfter ==
  ASSUME Sound, NEW c \in Commands, Takes(c)
  PROVE  LET p == proc[c]  s == Upcoming(c) IN
         /\ rows \subseteq rows' /\ rows' \subseteq Row
         /\ \A r \in rows' \ rows :
              /\ s.op \in LineOps /\ r.table = s.file /\ r.key \in s.keys /\ r.run = p.run
              /\ r.of = Line(p, r.table, r.key).of
              /\ s.op = "lineTodo" => r.key \in p.todo
         /\ s.op \in LineOps =>
              \A k \in IF s.op = "line" THEN s.keys ELSE s.keys \cap p.todo :
                [table |-> s.file, key |-> k, of |-> Line(p, s.file, k).of, run |-> p.run] \in rows'
<1> DEFINE p == proc[c]
           s == Upcoming(c)
<1>1. /\ s \in Steps /\ s.file \in STRING /\ s.keys \in SUBSET STRING /\ p.run \in Nat
      /\ p.input \in {NoVersion} \cup Versions /\ rows \subseteq Row
  BY TakesControl, UpcomingStep, StepFields, ProcessFields, Numbers DEF Sound, Types
<1>2. \A k : Line(p, s.file, k).of \in {NoVersion} \cup Versions
  BY <1>1 DEF Line
<1> HIDE DEF p, s
<1>3. ASSUME NEW keys \in SUBSET s.keys, Write(p, s.file, keys)
      PROVE  /\ rows \subseteq rows' /\ rows' \subseteq Row
             /\ \A r \in rows' \ rows : /\ r.table = s.file /\ r.key \in keys /\ r.run = p.run
                                        /\ r.of = Line(p, r.table, r.key).of
             /\ \A k \in keys : [table |-> s.file, key |-> k, of |-> Line(p, s.file, k).of, run |-> p.run] \in rows'
  <2> DEFINE row(k) == [table |-> s.file, key |-> k, of |-> Line(p, s.file, k).of, run |-> p.run]
  <2>1. rows' = rows \cup {row(k) : k \in keys}
    BY <1>3 DEF Write
  <2>2. \A k \in keys : /\ row(k) \in Row /\ row(k).table = s.file /\ row(k).key = k /\ row(k).run = p.run
                        /\ row(k).of = Line(p, s.file, k).of
    BY <1>1, <1>2 DEF Row
  <2> HIDE DEF row
  <2>3. /\ rows \subseteq rows' /\ rows' \subseteq Row
        /\ \A r \in rows' \ rows : \E k \in keys : r = row(k)
        /\ \A k \in keys : row(k) \in rows'
    BY <1>1, <2>1, <2>2
  <2>4. \A r \in rows' \ rows : /\ r.table = s.file /\ r.key \in keys /\ r.run = p.run
                                /\ r.of = Line(p, r.table, r.key).of
    BY <2>2, <2>3
  <2>5. QED
    BY <2>3, <2>4 DEF row
<1>4. CASE s.op \notin LineOps /\ rows' = rows
  BY <1>1, <1>4 DEF p, s
<1>5. CASE s.op = "line" /\ Write(p, s.file, s.keys)
  BY <1>3, <1>5 DEF LineOps, p, s
<1>6. CASE s.op = "lineTodo" /\ Write(p, s.file, s.keys \cap p.todo)
  BY <1>3, <1>6 DEF LineOps, p, s
<1>7. QED
  BY <1>4, <1>5, <1>6, TakesFiles DEF p, s

LEMMA TypesNext ==
  ASSUME Sound, [Next]_vars
  PROVE  Types'
<1>1. /\ camp \in DOMAIN Campaigns /\ disk \in [FilesOf(camp) -> File] /\ rows \subseteq Row
      /\ first \in {NoVersion} \cup Versions
  BY DEF Sound, Types
<1>2. /\ camp' = camp /\ tree' \in Versions /\ started' \in 0..MaxStarts[camp]
      /\ proc' \in [DOMAIN Campaigns[camp] -> Process]
  BY NextStep
<1>3. ASSUME NEW c \in Commands, Takes(c)
      PROVE  /\ disk' \in [FilesOf(camp) -> File] /\ rows' \subseteq Row /\ first' \in {NoVersion} \cup Versions
  <2>1. proc[c].says \in {NoVersion} \cup Versions
    BY ProcessFields DEF Sound
  <2>2. first' = first \/ first' = proc[c].says
    BY <1>3, TakesFiles
  <2>3. QED
    BY <1>1, <1>3, <2>1, <2>2, FileAfter, RowsAfter
<1>4. disk' \in [FilesOf(camp) -> File] /\ rows' \subseteq Row /\ first' \in {NoVersion} \cup Versions
  BY <1>1, <1>3, NextStep
<1>5. Runs' = Runs /\ File' = File
  BY <1>2 DEF Runs, File
<1>6. Process' = Process /\ Row' = Row
  BY <1>5 DEF Process, Row
<1>7. FilesOf(camp)' = FilesOf(camp)
  BY <1>2 DEF FilesOf
<1>8. QED
  BY <1>1, <1>2, <1>4, <1>5, <1>6, <1>7 DEF Types

LEMMA SoundNext ==
  ASSUME Sound, [Next]_vars
  PROVE  Sound'
<1>1. Types'
  BY TypesNext
<1>2. camp' = camp /\ Runs' = Runs /\ Commands' = Commands
  BY NextStep DEF Runs, Sound, Types, Commands
<1>3. Running'
  <2> SUFFICES ASSUME NEW c \in Commands
               PROVE  proc'[c] = Idle \/
                        /\ proc'[c].last = Len(Script(c)) /\ proc'[c].at \in 1..proc'[c].last
                        /\ proc'[c].run \in Runs /\ proc'[c].made \in Versions /\ proc'[c].says \in Versions
    BY <1>2 DEF Running, Script
  <2>1. CASE proc'[c] = proc[c]
    BY <2>1 DEF Sound, Running
  <2>2. CASE Begun(c)
    BY <2>2, ScriptSteps DEF Begun, Sound
  <2>3. CASE Went(c) /\ proc[c].at > 0
    BY <2>3, RunningProcess DEF Went, Carries, Sound
  <2>4. QED
    BY <2>1, <2>2, <2>3, ProcAfter
<1>4. WholeFiles'
  <2>1. ASSUME NEW c \in Commands, Takes(c), NEW f \in DOMAIN disk', disk'[f].st = "whole"
        PROVE  disk'[f].made \in Versions /\ disk'[f].says \in Versions
    <3>1. f \in FilesOf(camp) /\ DOMAIN disk = FilesOf(camp) /\ proc[c].at > 0
      BY <1>1, <1>2, <2>1, TakesControl DEF Types, FilesOf, Sound
    <3>2. CASE disk'[f] = disk[f]
      BY <2>1, <3>1, <3>2 DEF Sound, WholeFiles
    <3>3. CASE Upcoming(c).op \in WriteOps \ {"open"} /\ disk'[f] = Content(proc[c], Upcoming(c).op)
      BY <3>1, <3>3, FilledFields
    <3>4. CASE disk'[f] = Missing \/ (disk'[f] = disk[Upcoming(c).file] /\ Upcoming(c).file \in FilesOf(camp))
      BY <2>1, <3>1, <3>4, IdleProcess DEF Sound, WholeFiles
    <3>5. disk'[f].st # "torn"
      BY <2>1
    <3>6. QED
      BY <2>1, <3>1, <3>2, <3>3, <3>4, <3>5, FileAfter
  <2>2. QED
    BY <2>1, NextStep DEF WholeFiles, Sound, Versions
<1>5. WholeRegs'
  <2> SUFFICES ASSUME NEW c \in Commands
               PROVE  proc'[c].reg = Missing \/ (proc'[c].reg.st = "whole" /\ proc'[c].reg.made \in Versions
                                                 /\ proc'[c].reg.says \in Versions)
    BY <1>2 DEF WholeRegs
  <2>1. CASE Went(c)
    <3>1. "prereg" \in DOMAIN disk
      BY PreregIsAFile DEF Sound, Types
    <3>2. QED
      BY <2>1, <3>1 DEF Went, Carries, Sound, WholeRegs, WholeFiles
  <2>2. QED
    BY <2>1, ProcAfter, IdleProcess DEF Begun, Sound, WholeRegs
<1>6. Loaded'
  <2> SUFFICES ASSUME NEW c \in Commands, NEW j \in DOMAIN Script(c), Past(c, j)', Script(c)[j].op = "load"
               PROVE  IF Script(c)[j].file = "prereg" THEN proc'[c].reg.st = "whole" ELSE proc'[c].input # NoVersion
    BY <1>2, ProcAfter DEF Loaded
  <2>1. CASE proc'[c] = proc[c] /\ Past(c, j)
    BY <2>1 DEF Sound, Loaded
  <2>2. CASE Went(c) /\ proc[c].at > 0 /\ j = proc[c].at
    <3>1. Script(c)[j] = Upcoming(c)
      BY <2>2 DEF Upcoming
    <3>2. QED
      BY <2>2, <3>1 DEF Went, Carries
  <2>3. CASE Went(c) /\ Past(c, j)
    <3>1. IF Script(c)[j].file = "prereg" THEN proc[c].reg.st = "whole" ELSE proc[c].input # NoVersion
      BY <2>3 DEF Sound, Loaded
    <3>2. NoVersion \notin Versions
      BY Numbers DEF Sound
    <3>3. QED
      BY <2>3, <3>1, <3>2 DEF Went, Carries
  <2>4. QED
    BY <2>1, <2>2, <2>3, PastAfter
<1>7. QED
  BY <1>1, <1>3, <1>4, <1>5, <1>6 DEF Sound

-----------------------------------------------------------------------------
(* Every try is counted.                                                   *)

LEMMA RowsGrow ==
  ASSUME Sound, [Next]_vars
  PROVE  rows \subseteq rows'
BY NextStep, RowsAfter

\* The steps a running command has behind it for certain.
LEMMA BehindIt ==
  ASSUME Sound, NEW c \in Commands, proc[c].at > 0, NEW j \in Before(Script(c), proc[c].at)
  PROVE  j \in DOMAIN Script(c) /\ Past(c, j)
<1>1. proc[c].at \in Nat /\ proc[c].at \in DOMAIN Script(c) /\ DOMAIN Script(c) = 1..Len(Script(c)) /\ Len(Script(c)) \in Nat
  BY UpcomingStep, ScriptSteps DEF Sound
<1>2. QED
  BY <1>1 DEF Past, Before

LEMMA LinesNext ==
  ASSUME Sound, LinesWritten, [Next]_vars
  PROVE  LinesWritten'
<1> SUFFICES ASSUME NEW c \in Commands, NEW j \in DOMAIN Script(c), Past(c, j)', Script(c)[j].op = "line",
                    NEW key \in Script(c)[j].keys
             PROVE  \E r \in rows' : r.table = Script(c)[j].file /\ r.key = key /\ r.run = proc'[c].run
  BY SameScripts DEF LinesWritten
<1>1. rows \subseteq rows'
  BY RowsGrow
<1>2. CASE proc'[c].run = proc[c].run /\ Past(c, j)
  BY <1>1, <1>2 DEF LinesWritten
<1>3. CASE Takes(c) /\ Went(c) /\ j = proc[c].at
  <2>1. Script(c)[j] = Upcoming(c) /\ Upcoming(c).op \in LineOps
    BY <1>3 DEF Upcoming, LineOps
  <2> DEFINE r == [table |-> Upcoming(c).file, key |-> key, of |-> Line(proc[c], Upcoming(c).file, key).of, run |-> proc[c].run]
  <2>2. r \in rows'
    BY <1>3, <2>1, RowsAfter
  <2>3. proc'[c].run = proc[c].run
    BY <1>3 DEF Went, Carries
  <2>4. QED
    BY <2>1, <2>2, <2>3
<1>4. QED
  BY <1>2, <1>3, PastAfter DEF Went, Carries

\* What a step of a campaign's command can rely on.
LEMMA CampaignShape ==
  ASSUME Sound
  PROVE  /\ camp \in DOMAIN Campaigns
         /\ AsksBeforeOutcome(camp) /\ BuysOnce(camp) /\ WritesOnce(camp)
         /\ Names => RegistersOnce(camp)
         /\ camp \in BuildsPinned => BuildsFromEvidence(camp)
         /\ camp \in RowsFirst => CountsFirst(camp)
BY CampaignsAssumption DEF Sound, Types, Names

LEMMA CountedNext ==
  ASSUME Sound, Counted, [Next]_vars
  PROVE  Counted'
<1>1. LinesWritten'
  BY LinesNext DEF Counted
<1>2. TrialsCounted'
  <2> SUFFICES ASSUME camp \in RowsFirst, NEW f \in OutcomeFiles \cap DOMAIN disk', f # "refit", disk'[f].st # "none",
                      NEW key \in {"one", "two"}
               PROVE  \E r \in rows' : r.table = "trials" /\ r.run = disk'[f].by /\ r.key = key
    BY NextStep DEF TrialsCounted, Outcomes
  <2>1. f \in FilesOf(camp) /\ f \in Outcomes /\ f \in CountedFiles
    BY TypesNext, NextStep DEF Types, Sound, Outcomes, CountedFiles, FilesOf
  <2>2. CASE disk'[f] = disk[f]
    <3>1. {"one", "two"} \subseteq {r.key : r \in {x \in rows : x.table = "trials" /\ x.run = disk[f].by}}
      BY <2>1, <2>2 DEF Counted, TrialsCounted
    <3>2. QED
      BY <2>2, <3>1, RowsGrow
  <2>3. ASSUME NEW c \in Commands, Takes(c), f \in Puts(Upcoming(c)), Upcoming(c).op # "move" => disk'[f].by = proc[c].run
        PROVE  \E r \in rows' : r.table = "trials" /\ r.run = disk'[f].by /\ r.key = key
    <3>1. proc[c].at > 0 /\ proc[c].at \in DOMAIN Script(c) /\ c \in DOMAIN Campaigns[camp]
      BY <2>3, TakesControl, UpcomingStep, ScriptSteps DEF Sound
    <3>2. CountsFirst(camp)
      BY CampaignShape
    <3>3. /\ Upcoming(c).op # "move"
          /\ \E j \in Before(Script(c), proc[c].at) :
               Script(c)[j].op = "line" /\ Script(c)[j].file = "trials" /\ key \in Script(c)[j].keys
      BY <2>1, <2>3, <3>1, <3>2 DEF CountsFirst, Upcoming, Script
    <3>4. PICK j \in Before(Script(c), proc[c].at) :
            Script(c)[j].op = "line" /\ Script(c)[j].file = "trials" /\ key \in Script(c)[j].keys
      BY <3>3
    <3>5. PICK r \in rows : r.table = "trials" /\ r.key = key /\ r.run = proc[c].run
      BY <3>1, <3>4, BehindIt DEF Counted, LinesWritten
    <3>6. QED
      BY <2>3, <3>3, <3>5, RowsGrow
  <2>4. ASSUME NEW c \in Commands, Takes(c), disk'[f] # disk[f]
        PROVE  f \in Puts(Upcoming(c)) /\ (Upcoming(c).op # "move" => disk'[f].by = proc[c].run)
    <3>1. CASE Upcoming(c).op \in WriteOps \ {"open"} /\ disk'[f] = Content(proc[c], Upcoming(c).op)
      BY <2>1, <2>4, <3>1, FilledFields, FileAfter, TakesControl
    <3>2. QED
      BY <2>1, <2>4, <3>1, FileAfter
  <2>5. QED
    BY <2>2, <2>3, <2>4, NextStep
<1>3. QED
  BY <1>1, <1>2 DEF Counted

-----------------------------------------------------------------------------
(* What was bought.                                                        *)

LEMMA BoughtNext ==
  ASSUME Sound, Bought, [Next]_vars
  PROVE  /\ Bought'
         /\ "raw" \in DOMAIN disk => disk'["raw"].st # "torn" /\ (disk["raw"].st = "whole" => disk'["raw"] = disk["raw"])
<1>1. /\ DOMAIN disk' = DOMAIN disk /\ DOMAIN disk = FilesOf(camp) /\ BuysOnce(camp) /\ Commands' = Commands
  BY TypesNext, NextStep, CampaignShape DEF Sound, Types, FilesOf, Commands
<1> SUFFICES ASSUME "raw" \in FilesOf(camp), disk["raw"].st # "torn"
             PROVE  /\ disk'["raw"].st # "torn"
                    /\ disk["raw"].st = "whole" => disk'["raw"] = disk["raw"]
                    /\ \A c \in Commands : proc'[c].at > 0 /\ "raw" \in Puts(Upcoming(c)') => disk'["raw"].st = "none"
  BY <1>1 DEF Bought
\* Whoever writes the file has seen that it is not there, and publishes it.
<1>2. ASSUME NEW c \in Commands, Takes(c)
      PROVE  \/ disk'["raw"] = disk["raw"]
             \/ "raw" \in Puts(Upcoming(c)) /\ disk["raw"].st = "none" /\ disk'["raw"].st = "whole"
  <2>1. proc[c].at > 0 /\ proc[c].at \in DOMAIN Script(c) /\ c \in DOMAIN Campaigns[camp]
    BY <1>2, TakesControl, UpcomingStep, ScriptSteps DEF Sound
  <2>2. CASE "raw" \notin Puts(Upcoming(c))
    BY <1>2, <2>2, FileAfter
  <2>3. CASE "raw" \in Puts(Upcoming(c))
    <3>1. Upcoming(c).op = "publish"
      BY <1>1, <2>1, <2>3 DEF BuysOnce, Upcoming, Script
    <3>2. disk["raw"].st = "none"
      BY <1>1, <2>1, <2>3 DEF Bought
    <3>3. "raw" = Upcoming(c).file /\ Upcoming(c).op \in WriteOps \ {"open"}
      BY <2>3, <3>1 DEF Puts, WriteOps
    <3>4. disk'["raw"] = Content(proc[c], Upcoming(c).op)
      BY <1>2, <3>1, <3>3, FileAfter
    <3>5. QED
      BY <2>1, <2>3, <3>2, <3>3, <3>4, FilledFields
  <2>4. QED
    BY <2>2, <2>3
<1>3. \/ disk'["raw"] = disk["raw"]
      \/ \E c \in Commands : /\ Takes(c) /\ "raw" \in Puts(Upcoming(c)) /\ disk["raw"].st = "none"
                             /\ disk'["raw"].st = "whole"
  BY <1>2, NextStep
<1>4. ASSUME NEW c \in Commands, proc'[c].at > 0, "raw" \in Puts(Upcoming(c)')
      PROVE  disk'["raw"].st = "none"
  <2> DEFINE i == proc'[c].at
  <2>1. /\ c \in DOMAIN Campaigns[camp] /\ i \in DOMAIN Script(c) /\ Upcoming(c)' = Script(c)[i]
        /\ i > 1 /\ Script(c)[i - 1].file = "raw"
        /\ \/ Script(c)[i - 1].op = "refuse"
           \/ Script(c)[i - 1].op = "unless" /\ Script(c)[i - 1].skip > 0
        /\ \A h \in 1..(i - 2) : h + 1 + Script(c)[h].skip # i
    <3>1. Running' /\ Script(c)' = Script(c)
      BY SoundNext, ProcAfter DEF Sound
    <3>2. c \in DOMAIN Campaigns[camp] /\ i \in DOMAIN Script(c)
      BY <1>1, <1>4, <3>1, ScriptSteps, IdleProcess DEF Running, Sound
    <3>3. Upcoming(c)' = Script(c)[i]
      BY <3>1 DEF Upcoming
    <3>4. QED
      BY <1>1, <1>4, <3>2, <3>3 DEF BuysOnce, Script
  <2>2. CASE proc'[c] = proc[c]
    <3>1. "raw" \in Puts(Upcoming(c)) /\ disk["raw"].st = "none" /\ i \in DOMAIN Script(c) /\ Upcoming(c) = Script(c)[i]
      BY <1>1, <1>4, <2>1, <2>2 DEF Bought, Upcoming
    <3>2. ASSUME NEW d \in Commands, Takes(d), "raw" \in Puts(Upcoming(d))
          PROVE  FALSE
      <4>1. proc[d].at \in DOMAIN Script(d) /\ d \in DOMAIN Campaigns[camp] /\ proc[d].at > 0
        BY <3>2, TakesControl, UpcomingStep, ScriptSteps DEF Sound
      <4>2. d = c
        BY <1>1, <2>1, <3>1, <3>2, <4>1 DEF BuysOnce, Upcoming, Script
      <4>3. proc'[d] # proc[d]
        BY <3>2, <4>1, TakesControl, PlacesAhead, IdleProcess DEF Went
      <4>4. QED
        BY <2>2, <4>2, <4>3
    <3>3. QED
      BY <1>3, <3>1, <3>2
  <2>3. CASE Takes(c) /\ Went(c) /\ proc[c].at > 0
    <3>1. i = proc[c].at + 1
      <4>1. proc[c].at \in Nat /\ Upcoming(c).skip \in Nat /\ proc[c].at <= Len(Script(c))
        BY <2>3, ProcessFields, UpcomingStep, StepFields, RunningProcess DEF Sound
      <4>2. CASE i = proc[c].at + 1 + Upcoming(c).skip /\ Upcoming(c).skip > 0
        <5>1. Upcoming(c).skip = Script(c)[proc[c].at].skip
          BY DEF Upcoming
        <5> HIDE DEF i
        <5>2. proc[c].at \in 1..(i - 2)
          BY <2>3, <4>1, <4>2
        <5>3. proc[c].at + 1 + Script(c)[proc[c].at].skip # i
          BY <2>1, <5>2
        <5>4. QED
          BY <4>2, <5>1, <5>3
      <4>3. QED
        BY <2>3, <4>1, <4>2 DEF Went, Places
    <3>2. i - 1 = proc[c].at
      BY <3>1, ProcessFields DEF Sound
    <3>3. /\ Upcoming(c).file = "raw"
          /\ Upcoming(c).op = "refuse" \/ (Upcoming(c).op = "unless" /\ Upcoming(c).skip > 0)
      BY <2>1, <3>2 DEF Upcoming
    <3>4. disk["raw"].st = "none"
      <4>1. CASE Upcoming(c).op = "refuse"
        BY <2>3, <3>3, <4>1 DEF Went, Carries
      <4>2. CASE Upcoming(c).op = "unless" /\ Upcoming(c).skip > 0
        <5>1. Upcoming(c).skip \in Nat /\ proc[c].at \in Nat
          BY <2>3, ProcessFields, UpcomingStep, StepFields DEF Sound
        <5>2. proc'[c].at # proc[c].at + 1 + Upcoming(c).skip
          BY <3>1, <4>2, <5>1
        <5>3. QED
          BY <2>3, <3>3, <4>2, <5>2 DEF Went
      <4>3. QED
        BY <3>3, <4>1, <4>2
    <3>5. "raw" \notin Puts(Upcoming(c))
      BY <3>3 DEF Puts, WriteOps
    <3>6. QED
      BY <2>3, <3>4, <3>5, FileAfter
  <2>4. CASE Begun(c)
    BY <2>1, <2>4 DEF Begun
  <2>5. QED
    BY <1>4, <2>2, <2>3, <2>4, ProcAfter, IdleProcess
<1>5. QED
  BY <1>3, <1>4

-----------------------------------------------------------------------------
(* What is written once.                                                   *)

\* A step that writes a table of lines written once: it writes what was left,
\* and the one look at what is left is behind it, as is for the ledger the load
\* that fixes the process's input.
LEMMA OnceShape ==
  ASSUME Sound, NEW c \in Commands, NEW i \in DOMAIN Script(c),
         Script(c)[i].op \in LineOps, Script(c)[i].file \in OnceTables
  PROVE  /\ Script(c)[i].op = "lineTodo"
         /\ \E j \in Before(Script(c), i) :
              /\ Script(c)[j].op \in TodoOps /\ Script(c)[j].file = Script(c)[i].file
              /\ \A h \in DOMAIN Script(c) : Script(c)[h].op \in TodoOps => h = j
              /\ Script(c)[i].file = "ledger" =>
                   \E l \in Before(Script(c), j) : Script(c)[l].op = "load" /\ Script(c)[l].file # "prereg"
<1>1. c \in DOMAIN Campaigns[camp] /\ WritesOnce(camp) /\ Script(c) = Campaigns[camp][c]
  BY ScriptSteps, CampaignShape DEF Sound, Script
<1>2. QED
  BY <1>1 DEF WritesOnce

\* Only one command writes such a table.
LEMMA OneWriter ==
  ASSUME Sound, NEW c \in Commands, NEW d \in Commands, NEW i \in DOMAIN Script(c), NEW j \in DOMAIN Script(d),
         Script(c)[i].op \in LineOps, Script(d)[j].op \in LineOps,
         Script(c)[i].file = Script(d)[j].file, Script(c)[i].file \in OnceTables
  PROVE  c = d
<1>1. c \in DOMAIN Campaigns[camp] /\ d \in DOMAIN Campaigns[camp] /\ WritesOnce(camp)
      /\ Script(c) = Campaigns[camp][c] /\ Script(d) = Campaigns[camp][d]
  BY ScriptSteps, CampaignShape DEF Sound, Script
<1>2. \A k, l \in DOMAIN Campaigns[camp] : \A g \in DOMAIN Campaigns[camp][k], h \in DOMAIN Campaigns[camp][l] :
        /\ Campaigns[camp][k][g].op \in LineOps /\ Campaigns[camp][l][h].op \in LineOps
        /\ Campaigns[camp][k][g].file = Campaigns[camp][l][h].file /\ Campaigns[camp][k][g].file \in OnceTables
        => k = l
  BY <1>1 DEF WritesOnce
<1>3. QED
  BY <1>1, <1>2

LEMMA BeforeChain ==
  ASSUME NEW s, NEW i \in Nat, NEW j \in Before(s, i), NEW l \in Before(s, j)
  PROVE  l \in Before(s, i)
BY DEF Before

\* The input of a process that writes the ledger is fixed before it looks what is left.
LEMMA InputFixed ==
  ASSUME Sound, NEW c \in Commands, Takes(c), Went(c), NEW i \in DOMAIN Script(c),
         Script(c)[i].op \in LineOps, Script(c)[i].file = "ledger",
         NEW j \in DOMAIN Script(c), Script(c)[j].op \in TodoOps, j = proc[c].at \/ Past(c, j)
  PROVE  proc'[c].input = proc[c].input
<1>1. proc[c].at > 0 /\ proc[c].at \in Nat
  BY TakesControl, ProcessFields DEF Sound
<1>2. PICK l \in Before(Script(c), j) : Script(c)[l].op = "load" /\ Script(c)[l].file # "prereg"
  BY OnceShape DEF OnceTables
<1>3. l \in Before(Script(c), proc[c].at)
  BY <1>1, <1>2, BeforeChain DEF Past
<1>4. proc[c].input # NoVersion
  BY <1>1, <1>2, <1>3, BehindIt DEF Sound, Loaded
<1>5. QED
  BY <1>4 DEF Went, Carries

LEMMA TodoNext ==
  ASSUME Sound, Scored, [Next]_vars
  PROVE  TodoIsLeft'
<1> SUFFICES ASSUME NEW c \in Commands, NEW j \in DOMAIN Script(c), Past(c, j)', Script(c)[j].op \in TodoOps,
                    Script(c)[j].file \in OnceTables,
                    NEW i \in DOMAIN Script(c), Script(c)[i].op \in LineOps, Script(c)[i].file = Script(c)[j].file
             PROVE  OwnLines(proc[c], Script(c)[j].file)'
  BY SameScripts DEF TodoIsLeft
<1> DEFINE T == Script(c)[j].file
<1>1. /\ \A h \in DOMAIN Script(c) : Script(c)[h].op \in TodoOps => h = j
      /\ j \in Before(Script(c), i)
  BY OnceShape
<1> SUFFICES ASSUME NEW r \in rows', r.table = T, r.key \in proc'[c].todo, r.of = Line(proc'[c], T, r.key).of
             PROVE  r.run = proc'[c].run
  <2>1. Script(c)' = Script(c)
    BY SameScripts
  <2>2. QED
    BY <2>1 DEF OwnLines, Line, Hashed
\* A row that is new was written by c.
<1>2. CASE r \notin rows
  <2>1. PICK d \in Commands : Takes(d) /\ Upcoming(d).op \in LineOps /\ r.table = Upcoming(d).file /\ r.run = proc[d].run
    BY <1>2, NextStep, RowsAfter
  <2>2. proc[d].at \in DOMAIN Script(d)
    BY <2>1, TakesControl, UpcomingStep DEF Sound
  <2>3. d = c
    BY <2>1, <2>2, OneWriter DEF Upcoming
  <2>4. proc'[c].run = proc[c].run
    BY PastAfter DEF Went, Carries
  <2>5. QED
    BY <2>1, <2>3, <2>4
<1>3. CASE r \in rows /\ proc'[c] = proc[c] /\ Past(c, j)
  BY <1>3 DEF Scored, TodoIsLeft, OwnLines
<1>4. CASE r \in rows /\ Takes(c) /\ Went(c) /\ (j = proc[c].at \/ Past(c, j))
  <2>1. r.of = Line(proc[c], T, r.key).of
    <3>1. T = "ledger" => proc'[c].input = proc[c].input
      BY <1>4, InputFixed
    <3>2. QED
      BY <3>1 DEF Line, Hashed, OnceTables
  <2>2. CASE j = proc[c].at
    <3>1. proc'[c].todo = Unwritten(proc[c], T, Upcoming(c).keys)
      BY <1>4, <2>2 DEF Went, Carries, Upcoming
    <3>2. ~ \E x \in rows : [table |-> x.table, key |-> x.key, of |-> x.of] = Line(proc[c], T, r.key)
      BY <3>1 DEF Unwritten
    <3>3. QED
      BY <1>4, <2>1, <3>2 DEF Line
  <2>3. CASE Past(c, j)
    <3>1. proc[c].at \in DOMAIN Script(c) /\ proc[c].at \in Nat /\ proc[c].at # j
      BY <1>4, <2>3, TakesControl, UpcomingStep, ProcessFields DEF Sound, Past, Before
    <3>2. Upcoming(c).op \notin TodoOps
      BY <1>1, <3>1 DEF Upcoming
    <3>3. proc'[c].todo = proc[c].todo /\ proc'[c].run = proc[c].run
      BY <1>4, <3>2 DEF Went, Carries
    <3>4. QED
      BY <1>4, <2>1, <2>3, <3>3 DEF Scored, TodoIsLeft, OwnLines
  <2>4. QED
    BY <1>4, <2>2, <2>3
<1>5. QED
  BY <1>2, <1>3, <1>4, PastAfter

LEMMA LedgerNext ==
  ASSUME Sound, Scored, [Next]_vars
  PROVE  LedgerFirst'
<1> SUFFICES ASSUME NEW c \in Commands, NEW j \in DOMAIN Script(c), Past(c, j)', Script(c)[j].op = "lineTodo",
                    Script(c)[j].file = "ledger", NEW key \in Script(c)[j].keys \cap proc'[c].todo \cap ScoredKeys
             PROVE  [table |-> "ledger", key |-> key, of |-> proc'[c].input, run |-> proc'[c].run] \in rows'
  BY SameScripts DEF LedgerFirst
<1>1. CASE proc'[c] = proc[c] /\ Past(c, j)
  BY <1>1, RowsGrow DEF Scored, LedgerFirst
<1>2. CASE Takes(c) /\ Went(c) /\ (j = proc[c].at \/ Past(c, j))
  <2>1. /\ proc[c].at > 0 /\ proc[c].at \in DOMAIN Script(c) /\ proc[c].at \in Nat
        /\ j \in 1..proc[c].at
    BY <1>2, TakesControl, UpcomingStep, ScriptSteps, ProcessFields DEF Sound, Past, Before
  <2>2. Script(c)[j].op \in LineOps /\ "ledger" \in OnceTables
    BY DEF LineOps, OnceTables
  <2>3. PICK h \in Before(Script(c), j) :
          /\ Script(c)[h].op \in TodoOps
          /\ \A g \in DOMAIN Script(c) : Script(c)[g].op \in TodoOps => g = h
    BY <2>2, OnceShape
  <2>4. h \in Before(Script(c), proc[c].at)
    BY <1>2, <2>1, <2>3, BeforeChain DEF Past
  <2>5. h \in DOMAIN Script(c) /\ Past(c, h) /\ h # proc[c].at
    BY <2>1, <2>4, BehindIt DEF Before
  <2>6. proc'[c].input = proc[c].input
    BY <1>2, <2>2, <2>3, <2>5, InputFixed
  <2>7. proc'[c].todo = proc[c].todo /\ proc'[c].run = proc[c].run
    <3>1. Upcoming(c).op \notin TodoOps
      BY <2>1, <2>3, <2>5 DEF Upcoming
    <3>2. QED
      BY <1>2, <3>1 DEF Went, Carries
  <2>8. CASE j = proc[c].at
    <3>1. Script(c)[j] = Upcoming(c) /\ Upcoming(c).op # "line"
      BY <2>8 DEF Upcoming
    <3>2. [table |-> Upcoming(c).file, key |-> key, of |-> Line(proc[c], Upcoming(c).file, key).of, run |-> proc[c].run] \in rows'
      BY <1>2, <2>2, <2>7, <3>1, RowsAfter
    <3>3. Line(proc[c], "ledger", key).of = proc[c].input
      BY DEF Line, Hashed, ScoredKeys
    <3>4. QED
      BY <2>6, <2>7, <3>1, <3>2, <3>3
  <2>9. CASE Past(c, j)
    BY <2>6, <2>7, <2>9, RowsGrow DEF Scored, LedgerFirst
  <2>10. QED
    BY <1>2, <2>8, <2>9
<1>3. QED
  BY <1>1, <1>2, PastAfter

LEMMA LooksNext ==
  ASSUME Sound, Scored, [Next]_vars
  PROVE  LooksLedger'
<1> SUFFICES ASSUME NEW l \in rows', l.table = "looks", l.key \in ScoredKeys
             PROVE  [l EXCEPT !.table = "ledger"] \in rows'
  BY DEF LooksLedger
<1>1. CASE l \in rows
  BY <1>1, RowsGrow DEF Scored, LooksLedger
<1>2. CASE l \notin rows
  <2>1. PICK c \in Commands : Takes(c)
    BY <1>2, NextStep
  <2>2. /\ Upcoming(c).op \in LineOps /\ Upcoming(c).file = "looks" /\ l.key \in Upcoming(c).keys
        /\ l.run = proc[c].run /\ l.of = Line(proc[c], "looks", l.key).of
        /\ Upcoming(c).op = "lineTodo" => l.key \in proc[c].todo
        /\ l \in Row
    BY <1>2, <2>1, RowsAfter
  <2>3. proc[c].at > 0 /\ proc[c].at \in DOMAIN Script(c) /\ c \in DOMAIN Campaigns[camp] /\ WritesOnce(camp)
    BY <2>1, TakesControl, UpcomingStep, ScriptSteps, CampaignShape DEF Sound
  <2>4. /\ Upcoming(c).op = "lineTodo"
        /\ \E j \in Before(Script(c), proc[c].at) :
             Script(c)[j].op = "lineTodo" /\ Script(c)[j].file = "ledger" /\ l.key \in Script(c)[j].keys
    BY <2>2, <2>3 DEF WritesOnce, Upcoming, Script
  <2>5. [table |-> "ledger", key |-> l.key, of |-> proc[c].input, run |-> proc[c].run] \in rows
    BY <2>2, <2>3, <2>4, BehindIt DEF Scored, LedgerFirst
  <2>6. l.of = proc[c].input
    BY <2>2 DEF Line, Hashed, ScoredKeys
  <2>7. [l EXCEPT !.table = "ledger"] = [table |-> "ledger", key |-> l.key, of |-> proc[c].input, run |-> proc[c].run]
    BY <2>2, <2>6 DEF Row
  <2>8. QED
    BY <2>5, <2>7, RowsGrow
<1>3. QED
  BY <1>1, <1>2

\* A line that is about to be written twice was written by the same run.
LEMMA NewLine ==
  ASSUME Sound, Scored, [Next]_vars, NEW new \in rows', new \notin rows, NEW old \in rows,
         new.table \in OnceTables, old.table = new.table, old.key = new.key, old.of = new.of
  PROVE  old.run = new.run
<1>1. PICK c \in Commands : Takes(c)
  BY NextStep
<1>2. /\ Upcoming(c).op \in LineOps /\ new.table = Upcoming(c).file
      /\ new.run = proc[c].run /\ new.of = Line(proc[c], new.table, new.key).of
      /\ Upcoming(c).op = "lineTodo" => new.key \in proc[c].todo
  BY <1>1, RowsAfter
<1>3. proc[c].at > 0 /\ proc[c].at \in DOMAIN Script(c) /\ Upcoming(c) = Script(c)[proc[c].at]
  BY <1>1, TakesControl, UpcomingStep DEF Sound, Upcoming
<1>4. /\ Upcoming(c).op = "lineTodo"
      /\ \E j \in Before(Script(c), proc[c].at) :
           Script(c)[j].op \in TodoOps /\ Script(c)[j].file = new.table
  BY <1>2, <1>3, OnceShape
<1>5. OwnLines(proc[c], new.table)
  BY <1>2, <1>3, <1>4, BehindIt DEF Scored, TodoIsLeft
<1>6. QED
  BY <1>2, <1>4, <1>5 DEF OwnLines

LEMMA ScoredNext ==
  ASSUME Sound, Scored, [Next]_vars
  PROVE  Scored'
<1>1. LinesOnce'
  <2> SUFFICES ASSUME NEW r \in rows', NEW s \in rows', r.table \in OnceTables, [s EXCEPT !.run = r.run] = r
               PROVE  s = r
    BY DEF LinesOnce
  <2>1. r \in Row /\ s \in Row
    BY TypesNext DEF Types, Row
  <2>2. s.table = r.table /\ s.key = r.key /\ s.of = r.of
    BY <2>1 DEF Row
  <2>3. s.run = r.run
    <3>1. CASE r \in rows /\ s \in rows
      BY <3>1 DEF Scored, LinesOnce
    <3>2. CASE r \in rows /\ s \notin rows
      BY <2>2, <3>2, NewLine
    <3>3. CASE r \notin rows /\ s \in rows
      BY <2>2, <3>3, NewLine
    <3>4. CASE r \notin rows /\ s \notin rows
      BY <3>4, NextStep, RowsAfter
    <3>5. QED
      BY <3>1, <3>2, <3>3, <3>4
  <2>4. QED
    BY <2>1, <2>2, <2>3 DEF Row
<1>2. QED
  BY <1>1, TodoNext, LedgerNext, LooksNext DEF Scored

-----------------------------------------------------------------------------
(* The registration comes before the outcomes.                             *)

LEMMA PreregStays ==
  ASSUME Sound, [Next]_vars, disk["prereg"].st # "none"
  PROVE  disk'["prereg"].st # "none"
<1>1. ASSUME NEW c \in Commands, Takes(c) PROVE disk'["prereg"].st # "none"
  <2>1. proc[c].at > 0 /\ proc[c].at \in DOMAIN Script(c) /\ "prereg" \in FilesOf(camp)
    BY <1>1, TakesControl, UpcomingStep, PreregIsAFile DEF Sound
  <2>2. Upcoming(c).op = "move" => "prereg" \notin Puts(Upcoming(c))
    BY <2>1, ScriptSteps DEF Sound, Upcoming
  <2>3. CASE Upcoming(c).op \in WriteOps \ {"open"} /\ disk'["prereg"] = Content(proc[c], Upcoming(c).op)
    BY <2>1, <2>3, FilledFields
  <2>4. QED
    BY <1>1, <2>1, <2>2, <2>3, FileAfter
<1>2. QED
  BY <1>1, NextStep

LEMMA AskedNext ==
  ASSUME Sound, Asked, [Next]_vars
  PROVE  Asked'
<1>1. ASSUME NEW c \in Commands, proc'[c].at > 1, AsksFirst(Script(c))
      PROVE  disk'["prereg"].st # "none"
  <2>1. CASE proc'[c] = proc[c]
    BY <1>1, <2>1, PreregStays DEF Asked
  <2>2. CASE Takes(c) /\ Went(c) /\ proc[c].at > 1
    BY <1>1, <2>2, PreregStays DEF Asked
  <2>3. CASE Takes(c) /\ Went(c) /\ proc[c].at = 1
    <3>1. Upcoming(c).op \in {"require", "load", "loadPinned"} /\ Upcoming(c).file = "prereg"
      BY <1>1, <2>3 DEF AsksFirst, Upcoming
    <3>2. disk["prereg"].st # "none"
      BY <2>3, <3>1 DEF Went, Carries, Pinned
    <3>3. QED
      BY <3>2, PreregStays
  <2>4. CASE Begun(c)
    BY <1>1, <2>4 DEF Begun
  <2>5. proc[c].at \in Nat
    BY ProcessFields DEF Sound
  <2>6. QED
    BY <1>1, <2>1, <2>2, <2>3, <2>4, <2>5, ProcAfter, IdleProcess
<1>2. ASSUME NEW f \in OutcomeFiles \cap DOMAIN disk, disk'[f].st # "none",
             camp \in PinsCode \cup PinsDigest \cup PinsButReplaces \cup AsksIfThere
      PROVE  disk'["prereg"].st # "none"
  <2>1. CASE disk'[f] = disk[f]
    BY <1>2, <2>1, PreregStays DEF Asked, Outcomes, Registered
  <2>2. ASSUME NEW c \in Commands, Takes(c), f \in Puts(Upcoming(c))
        PROVE  disk'["prereg"].st # "none"
    <3>1. proc[c].at > 0 /\ proc[c].at \in Nat /\ proc[c].at \in DOMAIN Script(c) /\ c \in DOMAIN Campaigns[camp]
      BY <2>2, TakesControl, UpcomingStep, ScriptSteps, ProcessFields DEF Sound
    <3>2. MakesOutcome(Script(c))
      BY <1>2, <2>2, <3>1 DEF MakesOutcome, Upcoming
    <3>3. AsksFirst(Script(c))
      BY <1>2, <3>1, <3>2, CampaignShape DEF AsksBeforeOutcome, Script
    <3>4. proc[c].at # 1
      BY <2>2, <3>3 DEF AsksFirst, Puts, WriteOps, Upcoming
    <3>5. QED
      BY <3>1, <3>3, <3>4, PreregStays DEF Asked
  <2>3. f \in FilesOf(camp)
    BY SameScripts
  <2>4. QED
    BY <2>1, <2>2, <2>3, NextStep, FileAfter
<1>3. QED
  BY <1>1, <1>2, SameScripts DEF Asked, Outcomes, Registered

-----------------------------------------------------------------------------
(* The names a registration keeps.                                         *)

\* The names that an amendment keeps and adds.
LEMMA AmendedNames ==
  ASSUME Sound, NEW c \in Commands, proc[c].at > 0, Upcoming(c).op \in Amendments
  PROVE  LET p == proc[c]  new == Content(p, Upcoming(c).op) IN
         /\ new.says \in Named(new)
         /\ \A u \in Named(p.reg) : u \in Named(new) \/ (Upcoming(c).op = "swap" /\ u = p.reg.base)
         /\ Upcoming(c).op = "swap" => new.base = new.says /\ p.reg.says \in Named(new)
<1>1. /\ proc[c].reg.st = "whole" /\ proc[c].reg.says \in Versions /\ proc[c].says \in Versions
      /\ proc[c] \in Process
  BY FilledFields, ProcessFields DEF Amendments, WriteOps, Sound
<1>2. CASE Upcoming(c).op = "append"
  BY <1>1, <1>2, AmendedFields DEF Named, Sound
<1>3. CASE Upcoming(c).op = "swap"
  BY <1>1, <1>3, AmendedFields DEF Named, Sound
<1>4. QED
  BY <1>2, <1>3 DEF Amendments

LEMMA RegisteringAfter ==
  ASSUME Sound, [Next]_vars, NEW c \in Commands, Registering(c)'
  PROVE  Registering(c) \/ disk["prereg"].st = "none"
<1>1. /\ Script(c)' = Script(c) /\ proc[c].at \in Nat
  BY SameScripts, ProcessFields DEF Sound
<1>2. PICK j \in DOMAIN Script(c), i \in DOMAIN Script(c) :
        /\ Past(c, j)' /\ Script(c)[j].op = "refuse" /\ Script(c)[j].file = "prereg"
        /\ i >= proc'[c].at /\ Script(c)[i].op = "register"
  BY <1>1 DEF Registering
<1>3. CASE proc'[c] = proc[c] /\ Past(c, j)
  BY <1>2, <1>3 DEF Registering
<1>4. CASE Takes(c) /\ Went(c) /\ (j = proc[c].at \/ Past(c, j))
  <2>1. i >= proc[c].at
    <3>1. proc[c].at > 0 /\ i \in Nat
      BY <1>4, TakesControl, ScriptSteps DEF Sound
    <3>2. QED
      BY <1>1, <1>2, <1>4, <3>1, PlacesAhead DEF Went
  <2>2. CASE j = proc[c].at
    BY <1>2, <1>4, <2>2 DEF Went, Carries, Upcoming
  <2>3. QED
    BY <1>2, <1>4, <2>1, <2>2 DEF Registering
<1>5. QED
  BY <1>2, <1>3, <1>4, PastAfter

LEMMA AmendingAfter ==
  ASSUME Sound, [Next]_vars, NEW c \in Commands, Amending(c)'
  PROVE  \/ Amending(c) /\ proc'[c].reg = proc[c].reg
         \/ disk["prereg"].st = "whole" /\ proc'[c].reg = disk["prereg"]
<1>1. /\ Script(c)' = Script(c) /\ proc[c].at \in Nat
  BY SameScripts, ProcessFields DEF Sound
<1>2. /\ proc'[c].reg.st = "whole"
      /\ \E i \in DOMAIN Script(c) : i >= proc'[c].at /\ Script(c)[i].op \in Amendments
  BY <1>1 DEF Amending
<1>3. CASE proc'[c] = proc[c]
  BY <1>2, <1>3 DEF Amending
<1>4. CASE Went(c) /\ proc[c].at > 0
  <2>1. PICK i \in DOMAIN Script(c) : i >= proc'[c].at /\ Script(c)[i].op \in Amendments
    BY <1>2
  <2>2. i >= proc[c].at
    BY <1>1, <1>4, <2>1, PlacesAhead, ScriptSteps DEF Went, Sound
  <2>3. QED
    BY <1>2, <1>4, <2>1, <2>2 DEF Went, Carries, Amending
<1>5. QED
  BY <1>2, <1>3, <1>4, ProcAfter, IdleProcess DEF Begun

\* One step of one command registers, and one amends.
LEMMA OneRegistrar ==
  ASSUME Sound, Names, NEW c \in Commands, NEW d \in Commands, NEW i \in DOMAIN Script(c), NEW j \in DOMAIN Script(d),
         \/ Script(c)[i].op = "register" /\ Script(d)[j].op = "register"
         \/ Script(c)[i].op \in Amendments /\ Script(d)[j].op \in Amendments
  PROVE  c = d /\ i = j
<1>1. /\ c \in DOMAIN Campaigns[camp] /\ d \in DOMAIN Campaigns[camp]
      /\ Script(c) = Campaigns[camp][c] /\ Script(d) = Campaigns[camp][d] /\ RegistersOnce(camp)
  BY ScriptSteps, CampaignShape DEF Sound, Script
<1>2. c = d
  BY <1>1 DEF RegistersOnce
<1>3. \A g, h \in DOMAIN Campaigns[camp][c] :
        /\ Campaigns[camp][c][g].op = "register" /\ Campaigns[camp][c][h].op = "register" => g = h
        /\ Campaigns[camp][c][g].op \in Amendments /\ Campaigns[camp][c][h].op \in Amendments => g = h
  BY <1>1 DEF RegistersOnce
<1>4. QED
  BY <1>1, <1>2, <1>3

\* What a step does to the registration: nothing, opens it, registers, or amends;
\* and nobody registers, or amends, after that.
LEMMA PreregAfter ==
  ASSUME Sound, Names, [Next]_vars
  PROVE  \/ disk'["prereg"] = disk["prereg"] /\ first' = first
         \/ disk'["prereg"].st = "torn" /\ first' = first
         \/ \E c \in Commands :
              /\ Registering(c) /\ proc[c] \in Process /\ proc[c].says \in Versions
              /\ disk'["prereg"] = Output(proc[c])
              /\ first' = IF first = NoVersion THEN proc[c].says ELSE first
              /\ \A d \in Commands : ~Registering(d)'
         \/ \E c \in Commands :
              /\ Amending(c) /\ Upcoming(c).op \in Amendments /\ proc[c].at > 0
              /\ disk'["prereg"] = Content(proc[c], Upcoming(c).op) /\ first' = first
              /\ \A d \in Commands : ~Amending(d)'
<1> SUFFICES ASSUME NEW c \in Commands, Takes(c)
             PROVE  \/ disk'["prereg"] = disk["prereg"] /\ first' = first
                    \/ disk'["prereg"].st = "torn" /\ first' = first
                    \/ /\ Registering(c) /\ proc[c] \in Process /\ proc[c].says \in Versions
                       /\ disk'["prereg"] = Output(proc[c])
                       /\ first' = IF first = NoVersion THEN proc[c].says ELSE first
                       /\ \A d \in Commands : ~Registering(d)'
                    \/ /\ Amending(c) /\ Upcoming(c).op \in Amendments /\ proc[c].at > 0
                       /\ disk'["prereg"] = Content(proc[c], Upcoming(c).op) /\ first' = first
                       /\ \A d \in Commands : ~Amending(d)'
  BY NextStep
<1> DEFINE i == proc[c].at
           s == Upcoming(c)
<1>1. /\ i > 0 /\ i \in Nat /\ i \in DOMAIN Script(c) /\ s = Script(c)[i] /\ "prereg" \in FilesOf(camp)
      /\ proc[c] \in Process /\ proc[c].says \in Versions /\ camp' = camp
      /\ c \in DOMAIN Campaigns[camp] /\ Script(c) = Campaigns[camp][c] /\ RegistersOnce(camp)
  BY TakesControl, UpcomingStep, PreregIsAFile, ProcessFields, RunningProcess, ScriptSteps, CampaignShape, NextStep
     DEF Sound, Upcoming, Script
<1>2. /\ "prereg" \in Puts(s) => s.op \in {"open", "register"} \cup Amendments
      /\ s.op = "move" => "prereg" \notin Puts(s)
      /\ s.op \in {"register", "append", "swap", "replace", "loadPinned"} => s.file = "prereg"
  <2>1. "prereg" \in Puts(s) => s.op \in {"open", "register"} \cup Amendments
    <3>1. \A h \in DOMAIN Campaigns[camp][c] :
            "prereg" \in Puts(Campaigns[camp][c][h]) => Campaigns[camp][c][h].op \in {"open", "register"} \cup Amendments
      BY <1>1 DEF RegistersOnce
    <3>2. QED
      BY <1>1, <3>1
  <2>2. /\ s.op = "move" => "prereg" \notin Puts(s)
        /\ s.op \in {"register", "append", "swap", "replace", "loadPinned"} => s.file = "prereg"
    BY <1>1, ScriptSteps DEF Sound
  <2>3. QED
    BY <2>1, <2>2
<1>3. ASSUME NEW d \in Commands, NEW j \in DOMAIN Script(d), j >= proc'[d].at, proc'[d] # Idle,
             \/ s.op = "register" /\ Script(d)[j].op = "register"
             \/ s.op \in Amendments /\ Script(d)[j].op \in Amendments
      PROVE  FALSE
  <2>1. c = d /\ i = j
    BY <1>1, <1>3, OneRegistrar
  <2>2. Went(c)
    BY <1>3, <2>1, TakesControl
  <2>3. QED
    BY <1>1, <1>3, <2>1, <2>2, PlacesAhead DEF Went
<1>4. CASE s.op = "register"
  <2>1. s.op \in WriteOps \ {"open"} /\ s.file = "prereg" /\ s.op \notin {"append", "swap", "replace"}
    BY <1>2, <1>4 DEF WriteOps
  <2>2. disk'["prereg"] = Output(proc[c])
    BY <1>1, <1>4, <2>1, FileAfter, FilledFields
  <2>3. first' = IF first = NoVersion THEN proc[c].says ELSE first
    BY <1>4, TakesFiles DEF WriteOps
  <2>4. Registering(c)
    <3>1. PICK j \in Before(Script(c), i) : Script(c)[j].op = "refuse" /\ Script(c)[j].file = "prereg"
      BY <1>1, <1>4 DEF RegistersOnce
    <3>2. QED
      BY <1>1, <1>4, <3>1, BehindIt DEF Registering
  <2>5. \A d \in Commands : ~Registering(d)'
    BY <1>3, <1>4, SameScripts, IdleProcess DEF Registering, Past
  <2>6. QED
    BY <1>1, <2>2, <2>3, <2>4, <2>5
<1>5. CASE s.op \in Amendments
  <2>1. s.op \in WriteOps \ {"open"} /\ s.op \in {"append", "swap", "replace"} /\ s.file = "prereg"
    BY <1>2, <1>5 DEF WriteOps, Amendments
  <2>2. disk'["prereg"] = Content(proc[c], s.op)
    BY <1>1, <2>1, FileAfter
  <2>3. first' = first
    BY <1>5, TakesFiles DEF WriteOps, Amendments
  <2>4. Amending(c)
    BY <1>1, <1>5, <2>1, FilledFields DEF Amending
  <2>5. \A d \in Commands : ~Amending(d)'
    BY <1>3, <1>5, SameScripts, IdleProcess DEF Amending
  <2>6. QED
    BY <1>1, <1>5, <2>2, <2>3, <2>4, <2>5
<1>6. CASE s.op \notin {"register"} \cup Amendments
  <2>1. first' = first
    BY <1>6, TakesFiles
  <2>2. QED
    BY <1>1, <1>2, <1>6, <2>1, FileAfter DEF Amendments
<1>7. QED
  BY <1>4, <1>5, <1>6

\* What is known stays known.
LEMMA KnownKept ==
  ASSUME Sound, NamesKept, Names, [Next]_vars, NEW u, Known(u)
  PROVE  Known(u)'
<1>1. first # NoVersion
  BY DEF Known
<1>2. first' = first /\ \A c \in Commands : ~Registering(c)
  BY <1>1, PreregAfter DEF NamesKept, Registered1
<1>3. disk'["prereg"].st = "whole" => u \in Named(disk'["prereg"])
  <2>1. CASE disk'["prereg"] = disk["prereg"]
    BY <2>1 DEF Known
  <2>2. ASSUME NEW c \in Commands, Amending(c), Upcoming(c).op \in Amendments, proc[c].at > 0,
               disk'["prereg"] = Content(proc[c], Upcoming(c).op)
        PROVE  u \in Named(disk'["prereg"])
    <3>1. u \in Named(proc[c].reg)
      BY <2>2 DEF Known
    <3>2. CASE Upcoming(c).op = "swap" /\ u = proc[c].reg.base
      <4>1. Swaps
        <5>1. proc[c].at \in DOMAIN Script(c) /\ c \in DOMAIN Campaigns[camp]
          BY <2>2, UpcomingStep, ScriptSteps DEF Sound
        <5>2. QED
          BY <3>2, <5>1 DEF Swaps, Upcoming, Script
      <4>2. u = proc[c].reg.says
        BY <2>2, <3>2, <4>1 DEF NamesKept, Registered1, SaysName, Amending
      <4>3. QED
        BY <2>2, <3>2, <4>2, AmendedNames
    <3>3. QED
      BY <2>2, <3>1, <3>2, AmendedNames
  <2>3. QED
    BY <1>2, <2>1, <2>2, PreregAfter
<1>4. ASSUME NEW c \in Commands, Amending(c)' PROVE u \in Named(proc'[c].reg)
  BY <1>4, AmendingAfter DEF Known
<1>5. QED
  BY <1>1, <1>2, <1>3, <1>4, SameScripts DEF Known

LEMMA SaysNameNext ==
  ASSUME Sound, NamesKept, Names, [Next]_vars
  PROVE  /\ disk'["prereg"].st = "whole" => SaysName(disk'["prereg"])
         /\ \A c \in Commands : proc'[c].reg.st = "whole" => SaysName(proc'[c].reg)
<1>1. /\ disk["prereg"].st = "whole" => SaysName(disk["prereg"])
      /\ \A c \in Commands : proc[c].reg.st = "whole" => SaysName(proc[c].reg)
  BY DEF NamesKept, Registered1
<1>2. disk'["prereg"].st = "whole" => SaysName(disk'["prereg"])
  <2>1. ASSUME NEW c \in Commands, proc[c] \in Process, disk'["prereg"] = Output(proc[c])
        PROVE  SaysName(disk'["prereg"])
    BY <2>1, OutputFields DEF SaysName, Named
  <2>2. ASSUME NEW c \in Commands, Upcoming(c).op \in Amendments, proc[c].at > 0,
               disk'["prereg"] = Content(proc[c], Upcoming(c).op)
        PROVE  SaysName(disk'["prereg"])
    <3>1. CASE Upcoming(c).op = "swap"
      BY <2>2, <3>1, AmendedNames DEF SaysName
    <3>2. CASE Upcoming(c).op # "swap"
      <4>1. proc[c].at \in DOMAIN Script(c) /\ c \in DOMAIN Campaigns[camp] /\ RegistersOnce(camp)
        BY <2>2, UpcomingStep, ScriptSteps, CampaignShape DEF Sound
      <4>2. ASSUME NEW k \in DOMAIN Campaigns[camp], NEW i \in DOMAIN Campaigns[camp][k], Campaigns[camp][k][i].op = "swap"
            PROVE  FALSE
        <5>1. Campaigns[camp][k][i].op \in Amendments
          BY <4>2 DEF Amendments
        <5>2. k \in Commands /\ Campaigns[camp][k] = Script(k)
          BY DEF Sound, Types, Commands, Script
        <5>3. c = k /\ proc[c].at = i
          BY <2>2, <4>1, <4>2, <5>1, <5>2, OneRegistrar DEF Upcoming
        <5>4. QED
          BY <3>2, <4>2, <5>2, <5>3 DEF Upcoming, Script
      <4>3. QED
        BY <2>2, <4>2, AmendedNames DEF SaysName, Swaps
    <3>3. QED
      BY <3>1, <3>2
  <2>3. QED
    BY <1>1, <2>1, <2>2, PreregAfter
<1>3. ASSUME NEW c \in Commands, proc'[c].reg.st = "whole" PROVE SaysName(proc'[c].reg)
  BY <1>1, <1>3, ProcAfter, IdleProcess DEF Begun, Went, Carries
<1>4. QED
  BY <1>2, <1>3

LEMMA NamesNext ==
  ASSUME Sound, NamesKept, Names, [Next]_vars
  PROVE  (FirstNamed /\ Registered1)'
<1>1. /\ disk["prereg"].st = "none" => first = NoVersion
      /\ first = NoVersion => disk["prereg"].st # "whole" /\ \A c \in Commands : proc[c].reg.st # "whole"
      /\ first # NoVersion => Known(first)
      /\ \A c \in Commands : Registering(c) => first = NoVersion
      /\ \A c \in Commands : Amending(c) => proc[c].reg.st = "whole"
  BY DEF NamesKept, FirstNamed, Registered1, Amending
<1>2. disk'["prereg"].st = "none" => first' = NoVersion
  <2> SUFFICES ASSUME disk'["prereg"].st = "none" PROVE first' = NoVersion
    OBVIOUS
  <2>1. disk["prereg"].st = "none" /\ first = NoVersion
    BY <1>1, PreregStays
  <2>2. CASE \E c \in Commands : proc[c] \in Process /\ disk'["prereg"] = Output(proc[c])
    BY <2>2, OutputFields
  <2>3. QED
    BY <2>1, <2>2, PreregAfter
<1>3. ASSUME first' = NoVersion
      PROVE  disk'["prereg"].st # "whole" /\ \A c \in Commands : proc'[c].reg.st # "whole"
  <2>1. NoVersion \notin Versions
    BY Numbers DEF Sound
  <2>2. first = NoVersion
    BY <1>3, <2>1, PreregAfter
  <2>3. disk'["prereg"].st # "whole"
    BY <1>1, <1>3, <2>1, <2>2, PreregAfter
  <2>4. ASSUME NEW c \in Commands PROVE proc'[c].reg.st # "whole"
    BY <1>1, <2>2, ProcAfter, IdleProcess DEF Begun, Went, Carries
  <2>5. QED
    BY <2>3, <2>4
<1>4. ASSUME first' # NoVersion PROVE Known(first)'
  <2>1. CASE first # NoVersion
    <3>1. first' = first
      BY <2>1, PreregAfter
    <3>2. Known(first) /\ \A c \in Commands : Amending(c)' => first \in Named(proc'[c].reg)
      BY <1>1, <2>1, AmendingAfter DEF Known
    <3>3. disk'["prereg"].st = "whole" => first \in Named(disk'["prereg"])
      <4>1. PICK v : v = first
        OBVIOUS
      <4>2. Known(v)'
        BY <3>2, <4>1, KnownKept
      <4>3. QED
        BY <4>1, <4>2 DEF Known
    <3>4. QED
      BY <1>4, <3>1, <3>2, <3>3, SameScripts DEF Known
  <2>2. CASE first = NoVersion
    <3>1. PICK c \in Commands : proc[c] \in Process /\ disk'["prereg"] = Output(proc[c]) /\ first' = proc[c].says
      BY <1>4, <2>2, PreregAfter
    <3>2. first' \in Named(disk'["prereg"])
      BY <3>1, OutputFields DEF Named
    <3>3. \A d \in Commands : ~Amending(d)'
      BY <1>1, <2>2, AmendingAfter
    <3>4. QED
      BY <1>4, <3>2, <3>3, SameScripts DEF Known
  <2>3. QED
    BY <2>1, <2>2
<1>5. ASSUME NEW c \in Commands, Registering(c)' PROVE first' = NoVersion
  <2>1. first = NoVersion
    BY <1>1, <1>5, RegisteringAfter
  <2>2. QED
    BY <1>5, <2>1, PreregAfter
<1>6. ASSUME NEW c \in Commands, Amending(c)', disk'["prereg"].st = "whole" PROVE proc'[c].reg = disk'["prereg"]
  <2>1. first # NoVersion
    BY <1>1, <1>6, AmendingAfter
  <2>2. disk'["prereg"] = disk["prereg"]
    BY <1>1, <1>6, <2>1, PreregAfter
  <2>3. QED
    BY <1>6, <2>2, AmendingAfter DEF NamesKept, Registered1
<1>7. Commands' = Commands /\ Swaps' = Swaps
  BY SameScripts DEF Swaps
<1>8. FirstNamed'
  BY <1>2, <1>3, <1>4, <1>7 DEF FirstNamed
<1>9. Registered1'
  BY <1>5, <1>6, <1>7, SaysNameNext DEF Registered1, SaysName
<1>10. QED
  BY <1>8, <1>9

-----------------------------------------------------------------------------
(* What outcomes are made of.                                              *)

LEMMA MatchesKept ==
  ASSUME Sound, NamesKept, Names, [Next]_vars, NEW v, NEW pins, Matches(v, pins)
  PROVE  Matches(v, pins)'
<1>1. PICK u \in Versions : Known(u) /\ ("code" \in pins => u.code = v.code) /\ ("digest" \in pins => u.digest = v.digest)
  BY DEF Matches
<1>2. Known(u)'
  BY <1>1, KnownKept
<1>3. QED
  BY <1>1, <1>2 DEF Matches

\* What a run is compared with is known.
LEMMA PinnedMatches ==
  ASSUME Sound, NamesKept, Names, NEW p, NEW pins, Pinned(p, pins)
  PROVE  Matches(p.made, pins)
<1> DEFINE u == disk["prereg"].says
<1>1. disk["prereg"].st = "whole" /\ u \in Versions
  BY PreregIsAFile DEF Pinned, Sound, Types, WholeFiles
<1>2. Known(u)
  BY <1>1 DEF NamesKept, FirstNamed, Registered1, SaysName, Known
<1>3. QED
  BY <1>1, <1>2 DEF Matches, Pinned

LEMMA ComparedNext ==
  ASSUME Sound, NamesKept, Names, ComparedKnown, [Next]_vars, NEW c \in Commands,
         proc'[c].at > 1, Script(c)[1].op = "loadPinned"
  PROVE  Matches(proc[c].made, Script(c)[1].keys)'
<1> DEFINE pins == Script(c)[1].keys
<1>1. PICK v : v = proc'[c].made
  OBVIOUS
<1>2. PICK k : k = pins
  OBVIOUS
<1>3. Matches(v, k)
  <2>1. CASE proc'[c] = proc[c]
    BY <1>1, <1>2, <2>1 DEF ComparedKnown
  <2>2. CASE Went(c) /\ proc[c].at > 1
    BY <1>1, <1>2, <2>2 DEF ComparedKnown, Went, Carries
  <2>3. CASE Went(c) /\ proc[c].at = 1
    <3>1. Pinned(proc[c], k) /\ v = proc[c].made
      BY <1>1, <1>2, <2>3 DEF Went, Carries, Upcoming
    <3>2. PICK p : p = proc[c]
      OBVIOUS
    <3>3. QED
      BY <3>1, <3>2, PinnedMatches
  <2>4. CASE Begun(c)
    BY <2>4 DEF Begun
  <2>5. proc[c].at \in Nat
    BY ProcessFields DEF Sound
  <2>6. QED
    BY <2>1, <2>2, <2>3, <2>4, <2>5, ProcAfter, IdleProcess
<1>4. Matches(v, k)'
  BY <1>3, MatchesKept
<1>5. Script(c)' = Script(c)
  BY SameScripts
<1>6. QED
  BY <1>1, <1>2, <1>4, <1>5 DEF Matches

\* A script that compares first writes nothing before it has compared.
LEMMA ComparesFirst ==
  ASSUME Sound, Names, ComparedKnown, NEW c \in Commands, proc[c].at > 0, Compares(Script(c), "code") \/ Compares(Script(c), "digest"),
         Upcoming(c).op \in WriteOps
  PROVE  Matches(proc[c].made, Script(c)[1].keys)
<1>1. proc[c].at \in Nat /\ proc[c].at # 1
  BY ProcessFields DEF Sound, Compares, Upcoming, WriteOps
<1>2. QED
  BY <1>1 DEF ComparedKnown, Compares

\* A file other than the registration holds the output of a run.
LEMMA OutputWritten ==
  ASSUME Sound, NEW c \in Commands, Takes(c), NEW f \in FilesOf(camp), f # "prereg",
         disk'[f] # disk[f], disk'[f].st = "whole", Upcoming(c).op # "move"
  PROVE  /\ proc[c].at > 0 /\ f \in Puts(Upcoming(c)) /\ Upcoming(c).op \in WriteOps
         /\ disk'[f].made = proc[c].made /\ disk'[f].from = proc[c].from
<1>1. proc[c].at > 0 /\ proc[c].at \in DOMAIN Script(c) /\ proc[c] \in Process
  BY TakesControl, UpcomingStep, ProcessFields DEF Sound
<1>2. /\ f \in Puts(Upcoming(c)) /\ Upcoming(c).op \in WriteOps \ {"open"} /\ f = Upcoming(c).file
      /\ disk'[f] = Content(proc[c], Upcoming(c).op)
  BY FileAfter
<1>3. Upcoming(c).op \notin {"append", "swap", "replace"}
  BY <1>1, <1>2, ScriptSteps DEF Sound, Upcoming
<1>4. disk'[f] = Output(proc[c])
  BY <1>1, <1>2, <1>3, FilledFields
<1>5. QED
  BY <1>1, <1>2, <1>4, OutputFields

LEMMA OutcomesNext ==
  ASSUME Sound, NamesKept, Names, ComparedKnown, OutcomesKnown, [Next]_vars,
         NEW f \in OutcomeFiles \cap FilesOf(camp), disk'[f].st = "whole"
  PROVE  Matches(disk[f].made, PinsOf)'
<1>1. PICK v : v = disk'[f].made
  OBVIOUS
<1>2. PICK k : k = PinsOf
  OBVIOUS
<1>3. Matches(v, k)
  <2>1. CASE disk'[f] = disk[f]
    BY <1>1, <1>2, <2>1, SameScripts DEF OutcomesKnown, Outcomes
  <2>2. ASSUME NEW c \in Commands, Takes(c), disk'[f] # disk[f] PROVE Matches(v, k)
    <3>1. f \in Puts(Upcoming(c)) /\ f # "prereg"
      BY <2>2, FileAfter DEF OutcomeFiles
    <3>2. proc[c].at \in DOMAIN Script(c) /\ c \in DOMAIN Campaigns[camp] /\ Script(c) = Campaigns[camp][c]
      BY <2>2, TakesControl, UpcomingStep, ScriptSteps DEF Sound, Script
    <3>3. MakesOutcome(Script(c))
      BY <3>1, <3>2 DEF MakesOutcome, Upcoming
    <3>4. /\ camp \in PinsCode => Compares(Script(c), "code")
          /\ camp \in PinsDigest => Compares(Script(c), "digest")
          /\ \A i \in DOMAIN Script(c) : Script(c)[i].op # "move"
      BY <3>2, <3>3, CampaignShape DEF AsksBeforeOutcome, Names
    <3>5. Upcoming(c).op # "move"
      BY <3>2, <3>4 DEF Upcoming
    <3>6. proc[c].at > 0 /\ Upcoming(c).op \in WriteOps /\ v = proc[c].made
      BY <1>1, <2>2, <3>1, <3>5, OutputWritten
    <3>7. Matches(proc[c].made, Script(c)[1].keys)
      BY <3>4, <3>6, ComparesFirst DEF Names
    <3>8. k \subseteq Script(c)[1].keys
      BY <1>2, <3>4 DEF PinsOf, Compares
    <3>9. QED
      BY <3>6, <3>7, <3>8 DEF Matches
  <2>3. QED
    BY <2>1, <2>2, NextStep
<1>4. Matches(v, k)' /\ PinsOf' = PinsOf
  BY <1>3, MatchesKept, SameScripts DEF PinsOf
<1>5. QED
  BY <1>1, <1>2, <1>4 DEF Matches

\* A script that makes evidence compares its code first and reads only evidence.
LEMMA EvidenceShape ==
  ASSUME Sound, camp \in BuildsPinned, NEW c \in Commands, MakesEvidence(c)
  PROVE  /\ Compares(Script(c), "code")
         /\ \A i \in DOMAIN Script(c) : /\ Script(c)[i].op \in ReadOps => Script(c)[i].file \in Evidence(camp) \cup {"prereg"}
                                        /\ Script(c)[i].op # "move"
<1>1. c \in DOMAIN Campaigns[camp] /\ Script(c) = Campaigns[camp][c] /\ BuildsFromEvidence(camp)
  BY ScriptSteps, CampaignShape DEF Sound, Script
<1>2. PICK i \in DOMAIN Script(c) : Puts(Script(c)[i]) \cap Evidence(camp) # {}
  BY DEF MakesEvidence
<1>3. PICK f \in Evidence(camp) : f \in Puts(Script(c)[i])
  BY <1>2
<1>4. Compares(Script(c), "code")
  BY <1>1, <1>3 DEF Evidence
<1>5. QED
  BY <1>1, <1>2, <1>4 DEF BuildsFromEvidence

LEMMA EvidenceFiles ==
  ASSUME Sound, NamesKept, Names, ComparedKnown, EvidenceKnown, camp \in BuildsPinned, [Next]_vars,
         NEW f \in Evidence(camp), disk'[f].st = "whole", NEW v \in disk'[f].from \cup {disk'[f].made}
  PROVE  Matches(v, {"code"})
<1>1. f \in FilesOf(camp) /\ f # "prereg"
  BY DEF Evidence
<1>2. CASE disk'[f] = disk[f]
  BY <1>2 DEF EvidenceKnown
<1>3. ASSUME NEW c \in Commands, Takes(c), disk'[f] # disk[f] PROVE Matches(v, {"code"})
  <2>1. f \in Puts(Upcoming(c)) /\ proc[c].at \in DOMAIN Script(c)
    BY <1>1, <1>3, FileAfter, TakesControl, UpcomingStep DEF Sound
  <2>2. MakesEvidence(c)
    BY <2>1 DEF MakesEvidence, Upcoming
  <2>3. Compares(Script(c), "code") /\ Upcoming(c).op # "move"
    BY <2>1, <2>2, EvidenceShape DEF Upcoming
  <2>4. /\ proc[c].at > 0 /\ Upcoming(c).op \in WriteOps
        /\ v \in proc[c].from \cup {proc[c].made}
    BY <1>1, <1>3, <2>3, OutputWritten
  <2>5. CASE v \in proc[c].from
    BY <2>2, <2>5 DEF EvidenceKnown
  <2>6. CASE v = proc[c].made
    BY <2>3, <2>4, <2>6, ComparesFirst DEF Matches, Compares
  <2>7. QED
    BY <2>4, <2>5, <2>6
<1>4. QED
  BY <1>2, <1>3, NextStep

LEMMA EvidenceRead ==
  ASSUME Sound, NamesKept, Names, ComparedKnown, EvidenceKnown, camp \in BuildsPinned, [Next]_vars,
         NEW c \in Commands, MakesEvidence(c), NEW v \in proc'[c].from
  PROVE  Matches(v, {"code"})
<1>1. CASE v \in proc[c].from
  BY <1>1 DEF EvidenceKnown
<1>2. CASE Went(c) /\ proc[c].at > 0 /\ v \notin proc[c].from
  <2>1. proc[c].at \in DOMAIN Script(c) /\ Compares(Script(c), "code")
    BY <1>2, UpcomingStep, EvidenceShape DEF Sound
  <2>2. CASE /\ Upcoming(c).op \in ReadOps /\ Upcoming(c).file # "prereg" /\ disk[Upcoming(c).file].st = "whole"
             /\ v \in disk[Upcoming(c).file].from \cup {disk[Upcoming(c).file].made}
    <3>1. Upcoming(c).file \in Evidence(camp)
      BY <2>1, <2>2, EvidenceShape DEF Upcoming
    <3>2. QED
      BY <2>2, <3>1 DEF EvidenceKnown
  <2>3. CASE Upcoming(c).op \in WriteOps /\ v = proc[c].made
    BY <1>2, <2>1, <2>3, ComparesFirst DEF Matches, Compares
  <2>4. QED
    BY <1>2, <2>2, <2>3 DEF Went, Carries
<1>3. QED
  BY <1>1, <1>2, ProcAfter, IdleProcess DEF Begun

LEMMA MadeNext ==
  ASSUME Sound, NamesKept, Made, [Next]_vars
  PROVE  Made'
<1>1. Asked'
  BY AskedNext DEF Made
<1>2. Names' = Names /\ camp' = camp /\ Commands' = Commands /\ DOMAIN disk' = FilesOf(camp)
      /\ Evidence(camp)' = Evidence(camp) /\ \A c \in Commands : MakesEvidence(c)' = MakesEvidence(c)
  <2>1. camp' = camp /\ Commands' = Commands /\ DOMAIN disk' = FilesOf(camp) /\ \A c \in Commands : Script(c)' = Script(c)
    BY SameScripts
  <2>2. Evidence(camp)' = Evidence(camp)
    BY <2>1 DEF Evidence, FilesOf
  <2>3. QED
    BY <2>1, <2>2 DEF Names, MakesEvidence
<1> SUFFICES ASSUME Names PROVE ComparedKnown' /\ OutcomesKnown' /\ EvidenceKnown'
  BY <1>1, <1>2 DEF Made
<1>3. ComparedKnown'
  BY <1>2, ComparedNext, SameScripts DEF Made, ComparedKnown
<1>4. OutcomesKnown'
  BY <1>2, OutcomesNext DEF Made, OutcomesKnown, Outcomes
<1>5. EvidenceKnown'
  <2> SUFFICES ASSUME camp \in BuildsPinned
               PROVE  /\ \A f \in Evidence(camp) : disk'[f].st = "whole" =>
                           \A v \in disk'[f].from \cup {disk'[f].made} : Matches(v, {"code"})'
                      /\ \A c \in Commands : MakesEvidence(c) => \A v \in proc'[c].from : Matches(v, {"code"})'
    BY <1>2 DEF EvidenceKnown, Matches
  <2>1. ASSUME NEW f \in Evidence(camp), disk'[f].st = "whole", NEW v \in disk'[f].from \cup {disk'[f].made}
        PROVE  Matches(v, {"code"})'
    BY <2>1, EvidenceFiles, MatchesKept DEF Made
  <2>2. ASSUME NEW c \in Commands, MakesEvidence(c), NEW v \in proc'[c].from
        PROVE  Matches(v, {"code"})'
    BY <2>2, EvidenceRead, MatchesKept DEF Made
  <2>3. QED
    BY <2>1, <2>2
<1>6. QED
  BY <1>3, <1>4, <1>5

-----------------------------------------------------------------------------
(* The theorems.                                                           *)

LEMMA InitIInv == Init => IInv
<1> SUFFICES ASSUME Init PROVE IInv
  OBVIOUS
<1>1. /\ camp \in DOMAIN Campaigns /\ disk = [f \in FilesOf(camp) |-> Missing] /\ rows = {}
      /\ tree = [code |-> 1, digest |-> 1] /\ proc = [c \in DOMAIN Campaigns[camp] |-> Idle]
      /\ started = 0 /\ first = NoVersion
  BY DEF Init
<1>2. /\ \A c \in Commands : proc[c] = Idle /\ proc[c].at = 0 /\ proc[c].reg = Missing /\ proc[c].from = {}
      /\ \A f \in DOMAIN disk : disk[f] = Missing /\ disk[f].st = "none"
      /\ disk["prereg"].st = "none" /\ DOMAIN disk = FilesOf(camp)
  BY <1>1, IdleProcess, PreregIsAFile DEF Commands
<1>3. Sound
  <2>1. tree \in Versions /\ started \in 0..MaxStarts[camp]
    BY <1>1, BoundsAssumption DEF Versions, Codes, Digests
  <2>2. Types
    BY <1>1, <2>1, IdleProcess DEF Types
  <2>3. QED
    BY <1>1, <1>2, <2>2 DEF Sound, Running, WholeFiles, WholeRegs, Loaded, Past
<1>4. Counted
  BY <1>2 DEF Counted, LinesWritten, TrialsCounted, Past, Outcomes
<1>5. Bought
  BY <1>2 DEF Bought
<1>6. Scored
  BY <1>1, <1>2 DEF Scored, TodoIsLeft, LedgerFirst, LooksLedger, LinesOnce, Past
<1>7. NamesKept
  BY <1>1, <1>2, IdleProcess DEF NamesKept, FirstNamed, Registered1, Registering, Amending, Past
<1>8. Made
  BY <1>2 DEF Made, Asked, ComparedKnown, OutcomesKnown, EvidenceKnown, Outcomes, Evidence
<1>9. QED
  BY <1>3, <1>4, <1>5, <1>6, <1>7, <1>8 DEF IInv

LEMMA NextIInv == IInv /\ [Next]_vars => IInv'
<1> SUFFICES ASSUME IInv, [Next]_vars PROVE IInv'
  OBVIOUS
<1>1. Sound /\ Counted /\ Bought /\ Scored /\ NamesKept /\ Made
  BY DEF IInv
<1>2. NamesKept'
  BY <1>1, NamesNext, SameScripts DEF NamesKept, Names
<1>3. Bought'
  BY <1>1, BoughtNext
<1>4. QED
  BY <1>1, <1>2, <1>3, SoundNext, CountedNext, ScoredNext, MadeNext DEF IInv

\* What the commands, the files and the tables of every campaign always satisfy.
THEOREM Inductive == Spec => []IInv
BY InitIInv, NextIInv, PTL DEF Spec

LEMMA IInvProvenance == IInv => Provenance
<1> SUFFICES ASSUME IInv, NEW f \in Outcomes
             PROVE  /\ disk[f].st # "none" => Registered(f)
                    /\ disk[f].st = "whole" /\ disk["prereg"].st = "whole" => MadeByNamed(f) /\ BuiltFromNamed(f)
  BY DEF Provenance
<1>1. disk[f].st # "none" => Registered(f)
  BY DEF IInv, Made, Asked
<1> SUFFICES ASSUME disk[f].st = "whole", disk["prereg"].st = "whole" PROVE MadeByNamed(f) /\ BuiltFromNamed(f)
  BY <1>1
<1>2. MadeByNamed(f)
  <2>1. CASE Names
    <3>1. Matches(disk[f].made, PinsOf)
      BY <2>1 DEF IInv, Made, OutcomesKnown
    <3>2. QED
      BY <3>1 DEF Matches, Known, PinsOf, MadeByNamed
  <2>2. QED
    BY <2>1 DEF Names, MadeByNamed
<1>3. BuiltFromNamed(f)
  <2> SUFFICES ASSUME camp \in BuildsPinned, NEW v \in disk[f].from
               PROVE  \E u \in Named(disk["prereg"]) : u.code = v.code
    BY DEF BuiltFromNamed
  <2>1. f \in OutcomeFiles \cap FilesOf(camp) /\ Names
    BY DEF Outcomes, IInv, Sound, Types, Names, BuildsPinned, PinsCode
  <2>2. f \in Evidence(camp)
    BY <2>1, CampaignShape DEF IInv, BuildsFromEvidence
  <2>3. Matches(v, {"code"})
    BY <2>1, <2>2 DEF IInv, Made, EvidenceKnown
  <2>4. QED
    BY <2>3 DEF Matches, Known
<1>4. QED
  BY <1>2, <1>3

\* However commands, crashes, edits and amendments interleave, no outcome is
\* there before its campaign is registered, and none comes from code or data
\* that the registration does not name, directly or through the tables that an
\* earlier command built.
THEOREM OutcomesAreRegistered == Spec => []Provenance
BY Inductive, IInvProvenance, PTL

\* Whatever amendments and swaps a registration has been through, it still
\* names the version that it was first written for.
THEOREM FirstNameStays == Spec => []NamesFirst
<1>1. IInv => NamesFirst
  BY DEF IInv, NamesKept, FirstNamed, Known, NamesFirst, Names
<1>2. QED
  BY <1>1, Inductive, PTL

\* No outcome, torn or whole, is there without both trial rows of the run that
\* opened it.
THEOREM EveryTryIsCounted == Spec => []TrialsCounted
<1>1. IInv => TrialsCounted
  BY DEF IInv, Counted
<1>2. QED
  BY <1>1, Inductive, PTL

LEMMA IInvScoredOnce == IInv => ScoredOnce
<1> SUFFICES ASSUME IInv PROVE ScoredOnce
  OBVIOUS
<1>1. rows \subseteq Row /\ LooksLedger /\ LinesOnce
  BY DEF IInv, Sound, Types, Scored
<1>2. ASSUME NEW l \in rows, l.table = "looks", l.key \in ScoredKeys, NEW k \in rows, [k EXCEPT !.run = l.run] = l
      PROVE  k = l
  <2> DEFINE inLedger(r) == [r EXCEPT !.table = "ledger"]
  <2>1. l \in Row /\ k \in Row
    BY <1>1
  <2>2. k.table = l.table /\ k.key = l.key /\ k.of = l.of
    BY <1>2, <2>1 DEF Row
  <2>3. inLedger(l) \in rows /\ inLedger(k) \in rows
    BY <1>1, <1>2, <2>2 DEF LooksLedger
  <2>4. inLedger(l).table \in OnceTables /\ [inLedger(k) EXCEPT !.run = inLedger(l).run] = inLedger(l)
    BY <2>1, <2>2 DEF Row, OnceTables
  <2>5. inLedger(k) = inLedger(l)
    BY <1>1, <2>3, <2>4 DEF LinesOnce
  <2>6. k.run = l.run
    BY <2>1, <2>5 DEF Row
  <2>7. QED
    BY <2>1, <2>2, <2>6 DEF Row
<1>3. ASSUME NEW l \in rows, l.table = "looks", l.key \in ScoredKeys PROVE [l EXCEPT !.table = "ledger"] \in rows
  BY <1>1, <1>3 DEF LooksLedger
<1>4. ASSUME NEW r \in rows, NEW s \in rows, r.table \in OnceTables, [s EXCEPT !.run = r.run] = r PROVE s = r
  BY <1>1, <1>4 DEF LinesOnce
<1>5. QED
  BY <1>2, <1>3, <1>4 DEF ScoredOnce, ScoredKeys, OnceTables

\* A frozen variant is scored by one run, the one that put it in the ledger, and
\* a planted control, a news file or a label is written down by one run, however
\* often the commands are killed and started again.
THEOREM VariantsScoredOnce == Spec => []ScoredOnce
BY Inductive, IInvScoredOnce, PTL

\* What was bought appears as a whole and is never opened or replaced again.
THEOREM BoughtIsKept == Spec => BoughtOnce
<1>1. IInv /\ [Next]_vars => ["raw" \in DOMAIN disk =>
         /\ disk'["raw"].st # "torn"
         /\ disk["raw"].st = "whole" => disk'["raw"] = disk["raw"]]_vars
  BY BoughtNext DEF IInv
<1>2. QED
  BY <1>1, Inductive, PTL DEF Spec, BoughtOnce
=============================================================================
