------------------------------ MODULE Research ------------------------------
(***************************************************************************)
(* What the registry's protocol is for, said of every campaign it holds    *)
(* for: evidence is made by code that was named before, is counted, is     *)
(* looked at once where it was frozen for that, and a registration is      *)
(* never rewritten.  Which campaign a property is about is read off its    *)
(* script.                                                                 *)
(***************************************************************************)
EXTENDS ResearchProtocol

\* The files that hold what a campaign found; fixtures and reports follow them.
OutcomeFiles == {"results", "nullfix", "overlay", "refit"}
Outcomes == OutcomeFiles \cap DOMAIN disk

\* Whose outcomes are made by a run that compares the code it imported with
\* the registration, and whose amendments keep every name; those that compare
\* the evaluator as well; those that only ask whether the registration is there.
PinsCode == {"lim13", "nt12", "f316", "abs11", "abs48", "alert7", "dt14", "lean21", "wave23", "orb15",
             "season17", "sess25", "legs27", "xvol9", "xvol10"}
PinsDigest == {"lim13", "nt12", "f316", "alert7", "lean21", "wave23", "xvol9", "pp20"}
PinsButReplaces == {"ablate4", "fm2", "mw6", "risk8"}
AsksIfThere == {"cmd41", "ext39", "swing43", "swing44", "swing45"}

\* Who builds its input with a pinned command of its own.
BuildsPinned == {"dt14", "orb15", "season17"}

\* Who appends the rows of a run before the run's outcome is opened.
RowsFirst == PinsCode \cup PinsButReplaces
             \cup {"bench1", "fade31", "fd30", "fd32", "imom34", "lead35", "night38", "pairs16", "vol33", "news24"}

-----------------------------------------------------------------------------
(* What the scripts of a campaign share, read off their steps.             *)

MakesOutcome(s) == \E i \in DOMAIN s : Puts(s[i]) \cap OutcomeFiles # {}

\* A script that begins by asking for the registration, and one that begins by
\* comparing its own code or evaluator with it.
AsksFirst(s) == s # <<>> /\ s[1].op \in {"require", "load", "loadPinned"} /\ s[1].file = "prereg"
Compares(s, pin) == s # <<>> /\ s[1].op = "loadPinned" /\ s[1].file = "prereg" /\ pin \in s[1].keys

\* What makes an outcome asks first, and compares what its campaign compares;
\* it renames nothing where code is compared.
AsksBeforeOutcome(c) ==
  \A k \in DOMAIN Campaigns[c] : MakesOutcome(Campaigns[c][k]) =>
    /\ c \in PinsCode \cup PinsDigest \cup PinsButReplaces \cup AsksIfThere => AsksFirst(Campaigns[c][k])
    /\ c \in PinsCode => Compares(Campaigns[c][k], "code")
    /\ c \in PinsDigest => Compares(Campaigns[c][k], "digest")
    /\ c \in PinsCode \cup PinsDigest => \A i \in DOMAIN Campaigns[c][k] : Campaigns[c][k][i].op # "move"

\* One command registers, once, when no registration is there; one command
\* amends, once, and keeps the names.
Amendments == {"append", "swap"}
RegistersOnce(c) ==
  /\ \A k \in DOMAIN Campaigns[c] : LET s == Campaigns[c][k] IN \A i \in DOMAIN s :
       /\ "prereg" \in Puts(s[i]) => s[i].op \in {"open", "register"} \cup Amendments
       /\ s[i].op = "register" => \E j \in Before(s, i) : s[j].op = "refuse" /\ s[j].file = "prereg"
       /\ \A j \in DOMAIN s : /\ s[i].op = "register" /\ s[j].op = "register" => i = j
                              /\ s[i].op \in Amendments /\ s[j].op \in Amendments => i = j
  /\ \A k, l \in DOMAIN Campaigns[c] : \A i \in DOMAIN Campaigns[c][k], j \in DOMAIN Campaigns[c][l] :
       \/ Campaigns[c][k][i].op = "register" /\ Campaigns[c][l][j].op = "register"
       \/ Campaigns[c][k][i].op \in Amendments /\ Campaigns[c][l][j].op \in Amendments
       => k = l

\* The files that only comparing scripts write, and what is computed from them.
Evidence(c) ==
  {f \in FilesOf(c) \ {"prereg"} : \A k \in DOMAIN Campaigns[c] : \A i \in DOMAIN Campaigns[c][k] :
     f \in Puts(Campaigns[c][k][i]) => Compares(Campaigns[c][k], "code")}
ReadOps == {"load", "loadIfThere", "loadPinned", "cached"}
BuildsFromEvidence(c) ==
  /\ OutcomeFiles \cap FilesOf(c) \subseteq Evidence(c)
  /\ \A k \in DOMAIN Campaigns[c] : LET s == Campaigns[c][k] IN
       (\E i \in DOMAIN s : Puts(s[i]) \cap Evidence(c) # {}) =>
         \A i \in DOMAIN s : /\ s[i].op \in ReadOps => s[i].file \in Evidence(c) \cup {"prereg"}
                             /\ s[i].op # "move"

\* Both trial rows of a run are there before its outcome is opened.
CountedFiles == OutcomeFiles \ {"refit"}
CountsFirst(c) ==
  \A k \in DOMAIN Campaigns[c] : LET s == Campaigns[c][k] IN
    \A i \in DOMAIN s : Puts(s[i]) \cap CountedFiles # {} =>
      /\ s[i].op # "move"
      /\ \A key \in {"one", "two"} :
           \E j \in Before(s, i) : s[j].op = "line" /\ s[j].file = "trials" /\ key \in s[j].keys

\* One command buys, right after it has seen that nothing was bought.
BuysOnce(c) ==
  /\ \A k \in DOMAIN Campaigns[c] : LET s == Campaigns[c][k] IN
       \A i \in DOMAIN s : "raw" \in Puts(s[i]) =>
         /\ s[i].op = "publish" /\ i > 1 /\ s[i - 1].file = "raw"
         /\ s[i - 1].op = "refuse" \/ (s[i - 1].op = "unless" /\ s[i - 1].skip > 0)
         /\ \A h \in 1..(i - 2) : h + 1 + s[h].skip # i
  /\ \A k, l \in DOMAIN Campaigns[c] : \A i \in DOMAIN Campaigns[c][k], j \in DOMAIN Campaigns[c][l] :
       "raw" \in Puts(Campaigns[c][k][i]) /\ "raw" \in Puts(Campaigns[c][l][j]) => k = l

\* One command writes a table whose lines are written once, after it has looked
\* what is left to do; a frozen variant is in the ledger before it is scored.
OnceTables == {"controls", "files", "labels", "ledger"}
ScoredKeys == {"B", "C", "E"}
LineOps == {"line", "lineTodo"}
TodoOps == {"todo", "todoOrEnd"}
WritesOnce(c) ==
  /\ \A k \in DOMAIN Campaigns[c] : LET s == Campaigns[c][k] IN \A i \in DOMAIN s :
       /\ s[i].op \in LineOps /\ s[i].file \in OnceTables =>
            /\ s[i].op = "lineTodo"
            /\ \E j \in Before(s, i) :
                 /\ s[j].op \in TodoOps /\ s[j].file = s[i].file
                 /\ \A h \in DOMAIN s : s[h].op \in TodoOps => h = j
                 /\ s[i].file = "ledger" =>
                      \E l \in Before(s, j) : s[l].op = "load" /\ s[l].file # "prereg"
       /\ s[i].op \in LineOps /\ s[i].file = "looks" =>
            \A key \in s[i].keys \cap ScoredKeys :
              /\ s[i].op = "lineTodo"
              /\ \E j \in Before(s, i) : s[j].op = "lineTodo" /\ s[j].file = "ledger" /\ key \in s[j].keys
  /\ \A k, l \in DOMAIN Campaigns[c] : \A i \in DOMAIN Campaigns[c][k], j \in DOMAIN Campaigns[c][l] :
       /\ Campaigns[c][k][i].op \in LineOps /\ Campaigns[c][l][j].op \in LineOps
       /\ Campaigns[c][k][i].file = Campaigns[c][l][j].file /\ Campaigns[c][k][i].file \in OnceTables
       => k = l

\* The campaigns' scripts are written that way.
ASSUME CampaignsAssumption ==
  \A c \in DOMAIN Campaigns :
    /\ AsksBeforeOutcome(c) /\ BuysOnce(c) /\ WritesOnce(c)
    /\ c \in PinsCode \cup PinsDigest => RegistersOnce(c)
    /\ c \in BuildsPinned => BuildsFromEvidence(c)
    /\ c \in RowsFirst => CountsFirst(c)

-----------------------------------------------------------------------------
\* The code a run compares itself with is the code its outcome came from.
MadeByNamed(f) ==
  /\ camp \in PinsCode => \E v \in Named(disk["prereg"]) : v.code = disk[f].made.code
  /\ camp \in PinsDigest => \E v \in Named(disk["prereg"]) : v.digest = disk[f].made.digest

\* So is the code that made what the outcome was computed from, the tables of
\* earlier build commands included.
BuiltFromNamed(f) ==
  camp \in BuildsPinned =>
    {v.code : v \in disk[f].from} \subseteq {v.code : v \in Named(disk["prereg"])}

\* methodology.md: the registration is written before any outcome is.
Registered(f) ==
  camp \in PinsCode \cup PinsDigest \cup PinsButReplaces \cup AsksIfThere => disk["prereg"].st # "none"

\* However edits, amendments, crashes and runs interleave, no outcome comes
\* from code that the registration does not name: the run that made it was
\* pinned when it began, and what it was pinned to is never forgotten.
Provenance ==
  \A f \in Outcomes :
    /\ disk[f].st # "none" => Registered(f)
    /\ disk[f].st = "whole" /\ disk["prereg"].st = "whole" => MadeByNamed(f) /\ BuiltFromNamed(f)

\* Amendments append: whatever the registration has become, it still names the
\* code it was first written for.
NamesFirst ==
  camp \in PinsCode \cup PinsDigest /\ disk["prereg"].st = "whole" => first \in Named(disk["prereg"])

\* Every try is counted: no outcome, not even a torn one, without all the trial
\* rows of the run that made it, so that a crash never hides a try that left
\* numbers behind.
TrialsCounted ==
  camp \in RowsFirst =>
    \A f \in Outcomes \ {"refit"} : disk[f].st # "none" =>
      {"one", "two"} \subseteq {r.key : r \in {x \in rows : x.table = "trials" /\ x.run = disk[f].by}}

\* test (scored once): a frozen variant is scored by one run, and by the run
\* that put it in the ledger; a crash between the two costs the look.  In the
\* same way a planted control, a news file or a label is written down once, by
\* whichever run comes to it first: a killed run is continued, never redone.
ScoredOnce ==
  /\ \A l \in {r \in rows : r.table = "looks" /\ r.key \in {"B", "C", "E"}} :
       /\ [l EXCEPT !.table = "ledger"] \in rows
       /\ \A k \in rows : [k EXCEPT !.run = l.run] = l => k = l
  /\ \A r, s \in rows :
       r.table \in {"controls", "files", "labels", "ledger"} /\ [s EXCEPT !.run = r.run] = r => s = r

\* never re-downloaded: what was bought is there as a whole or not at all, and
\* is never written again.
BoughtOnce ==
  []["raw" \in DOMAIN disk =>
       /\ disk'["raw"].st # "torn"
       /\ disk["raw"].st = "whole" => disk'["raw"] = disk["raw"]]_vars

-----------------------------------------------------------------------------
\* scan46.py: the locked holdout is touched once.  The code looks before it
\* leaves a mark, so a run that dies in between is followed by a second look.
LockedOnce == \A l, k \in {r \in rows : r.table = "looks" /\ r.key = "finalists"} : l.run = k.run
=============================================================================
