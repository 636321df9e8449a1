-------------------------- MODULE ResearchProtocol --------------------------
(***************************************************************************)
(* The machine under the research scripts: processes of one campaign, one  *)
(* per command, that read and write the campaign's files while the         *)
(* researcher edits the code, starts further commands and kills running    *)
(* ones.  Campaigns gives each command its steps (ResearchSteps).          *)
(*                                                                         *)
(* A process hashes its code when it is started (CODE, de_v2.CODE_SHA): it *)
(* runs that version to its end, whatever happens to the file meanwhile.   *)
(* A crash may fall between any two steps: a killed process, an exception  *)
(* while computing, a power cut.  Nobody deletes a file, and nobody runs   *)
(* one command twice at the same time.                                     *)
(***************************************************************************)
EXTENDS ResearchSteps, FiniteSets, Functions

CONSTANTS
  Campaigns,   \* campaign -> command -> sequence of steps
  CodeCount,   \* bound: versions of a campaign's scripts
  DigestCount, \* bound: versions of the evaluator's files
  MaxStarts,   \* bound: commands started, for each campaign
  MaxLive,     \* bound: commands running at the same time
  MaxCrashes,  \* bound: commands killed
  MaxEdits     \* bound: changes of the code

ASSUME BoundsAssumption ==
  /\ CodeCount \in Nat \ {0} /\ DigestCount \in Nat \ {0}
  /\ MaxStarts \in [DOMAIN Campaigns -> Nat] /\ MaxLive \in Nat /\ MaxCrashes \in Nat /\ MaxEdits \in Nat

\* Only the registration is registered and amended; no script amends one that it
\* has not loaded, or moves it away.
ASSUME ScriptsAssumption ==
  \A c \in DOMAIN Campaigns : \A k \in DOMAIN Campaigns[c] : LET s == Campaigns[c][k] IN
    /\ s \in Seq(Steps) /\ s # <<>>
    /\ \A i \in DOMAIN s :
         /\ s[i].op \in {"append", "swap", "replace"} =>
              \E j \in Before(s, i) : s[j].op = "load" /\ s[j].file = "prereg"
         /\ s[i].op = "move" => "prereg" \notin Puts(s[i])
         /\ s[i].op \in {"register", "append", "swap", "replace", "loadPinned"} => s[i].file = "prereg"

VARIABLES
  camp,     \* the campaign
  disk,     \* its files
  rows,     \* the lines of its append-only tables
  tree,     \* the code as it is on disk
  proc,     \* its commands
  started, crashes, edits,
  first     \* history: what the first whole registration named

vars == <<camp, disk, rows, tree, proc, started, crashes, edits, first>>

Commands == DOMAIN proc
Runs == 1..MaxStarts[camp]
Codes == 1..CodeCount
Digests == 1..DigestCount
Versions == [code : Codes, digest : Digests]
NoVersion == [code |-> 0, digest |-> 0]

TableOps == {"line", "todo", "todoOrEnd", "lineTodo"}
FilesOf(c) ==
  {"prereg"} \cup UNION {LET steps == Range(Campaigns[c][k]) IN
                           {s.file : s \in {t \in steps : t.op \notin TableOps}}
                           \cup UNION {s.keys : s \in {t \in steps : t.op = "move"}} : k \in DOMAIN Campaigns[c]}

(* A file is torn from the moment it is opened for writing until its last  *)
(* byte is there.  by is the run that wrote it, made the code of that run, *)
(* from the code of the runs that made what it was computed from.  A       *)
(* registration holds code_sha256 (base) and its amendments (added); says  *)
(* is the version a run is compared with, and in an output the version     *)
(* written beside the numbers.                                             *)
File == [st : {"none", "torn", "whole"}, by : {0} \cup Runs, made : {NoVersion} \cup Versions,
         base : {NoVersion} \cup Versions, added : SUBSET Versions, says : {NoVersion} \cup Versions,
         from : SUBSET Versions]
Missing == [st |-> "none", by |-> 0, made |-> NoVersion, base |-> NoVersion, added |-> {}, says |-> NoVersion, from |-> {}]
Named(file) == {file.base} \cup file.added

Idle == [at |-> 0, last |-> 0, run |-> 0, made |-> NoVersion, says |-> NoVersion, reg |-> Missing, input |-> NoVersion,
         from |-> {}, todo |-> {}]

End(c) == proc' = [proc EXCEPT ![c] = Idle]
Goto(c, p, n) == proc' = [proc EXCEPT ![c] = IF n > p.last THEN Idle ELSE [p EXCEPT !.at = n]]
Continue(c, p) == Goto(c, p, p.at + 1)

-----------------------------------------------------------------------------
Start(c) ==
  /\ proc[c] = Idle
  /\ started < MaxStarts[camp]
  /\ Cardinality({d \in Commands : proc[d] # Idle}) < MaxLive
  /\ started' = started + 1
  /\ proc' = [proc EXCEPT ![c] = [Idle EXCEPT !.at = 1, !.last = Len(Campaigns[camp][c]), !.run = started + 1, !.made = tree, !.says = tree]]
  /\ UNCHANGED <<camp, disk, rows, tree, crashes, edits, first>>

\* Fault: what is there is made again.
Asks_Fault(c, s) ==
  /\ \/ s.op = "refuse" /\ Continue(c, proc[c])
     \/ s.op = "require" /\ IF disk[s.file].st = "none" THEN End(c) ELSE Continue(c, proc[c])
  /\ UNCHANGED <<camp, disk, rows, tree, started, crashes, edits, first>>
Asks(c, s) ==
  /\ \/ s.op = "refuse" /\ IF disk[s.file].st # "none" THEN End(c) ELSE Continue(c, proc[c])
     \/ s.op = "require" /\ IF disk[s.file].st = "none" THEN End(c) ELSE Continue(c, proc[c])
  /\ UNCHANGED <<camp, disk, rows, tree, started, crashes, edits, first>>

\* What process p holds after it has read f; what it reads first, a freeze or a
\* sample, is what its lines are about.
Holding(p, f) ==
  IF f = "prereg" THEN [p EXCEPT !.reg = disk[f]]
                  ELSE [p EXCEPT !.input = IF @ = NoVersion THEN disk[f].says ELSE @,
                             !.from = @ \cup disk[f].from \cup {disk[f].made}]

\* Fault: the code is compared with the file only, not with what was imported.
Pinned_Fault(p, pins) ==
  /\ disk["prereg"].st = "whole"
  /\ "code" \in pins => tree.code = disk["prereg"].says.code
  /\ "now" \in pins => tree.code = disk["prereg"].says.code
  /\ "named" \in pins => \E v \in Named(disk["prereg"]) : tree.code = v.code
  /\ "digest" \in pins => p.made.digest = disk["prereg"].says.digest
Pinned(p, pins) ==
  /\ disk["prereg"].st = "whole"
  /\ "code" \in pins => p.made.code = disk["prereg"].says.code
  /\ "now" \in pins => tree.code = disk["prereg"].says.code
  /\ "named" \in pins => \E v \in Named(disk["prereg"]) : tree.code = v.code
  /\ "digest" \in pins => p.made.digest = disk["prereg"].says.digest

Reads(c, s) ==
  LET p == proc[c]  f == s.file  st == disk[f].st IN
  /\ \/ s.op = "load" /\ IF st = "whole" THEN Continue(c, Holding(p, f)) ELSE End(c)
     \/ s.op = "loadIfThere" /\ CASE st = "whole" -> Continue(c, Holding(p, f))
                                  [] st = "none" -> Continue(c, p)
                                  [] st = "torn" -> End(c)
     \/ s.op = "loadPinned" /\ IF Pinned(p, s.keys) THEN Continue(c, Holding(p, f)) ELSE End(c)
     \/ s.op = "cached" /\ CASE st = "whole" -> Goto(c, Holding(p, f), p.at + 1 + s.skip)
                             [] st = "none" -> Continue(c, p)
                             [] st = "torn" -> End(c)
     \/ s.op = "unless" /\ Goto(c, p, p.at + 1 + (IF st = "none" THEN 0 ELSE s.skip))
  /\ UNCHANGED <<camp, disk, rows, tree, started, crashes, edits, first>>

Hashes(c, s) ==
  /\ s.op = "hash"
  /\ Continue(c, [proc[c] EXCEPT !.says.code = tree.code])
  /\ UNCHANGED <<camp, disk, rows, tree, started, crashes, edits, first>>

Chooses(c, s) ==
  LET p == proc[c] IN
  /\ s.op = "perhaps" /\ \E n \in {0, s.skip} : Goto(c, p, p.at + 1 + n)
  /\ UNCHANGED <<camp, disk, rows, tree, started, crashes, edits, first>>

Opens(c, s) ==
  /\ s.op = "open"
  /\ disk' = [disk EXCEPT ![s.file] = [Missing EXCEPT !.st = "torn", !.by = proc[c].run]]
  /\ Continue(c, proc[c])
  /\ UNCHANGED <<camp, rows, tree, started, crashes, edits, first>>

Output(p) == [st |-> "whole", by |-> p.run, made |-> p.made, base |-> p.says, added |-> {}, says |-> p.says, from |-> p.from]

\* The registration after an amendment by p, in the three forms in use.
\* Fault: the amendment takes the place of the first hash.
Appended_Fault(p) == [p.reg EXCEPT !.by = p.run, !.base = p.says, !.says = p.says]
Appended(p) == [p.reg EXCEPT !.by = p.run, !.added = @ \cup {p.says}, !.says = p.says]
Swapped(p) ==
  LET new == [p.reg.says EXCEPT !.code = p.says.code] IN
  [p.reg EXCEPT !.by = p.run, !.added = @ \cup {p.reg.says, new}, !.base = new, !.says = new]
Replaced(p) == [p.reg EXCEPT !.by = p.run, !.added = @ \cup {p.says}, !.base = p.says, !.says = p.says]

Content(p, kind) ==
  CASE kind = "append" -> Appended(p)
    [] kind = "swap" -> Swapped(p)
    [] kind = "replace" -> Replaced(p)
    [] OTHER -> Output(p)

Writes(c, s) ==
  LET p == proc[c]  f == s.file IN
  /\ \E kind \in {"output", "publish", "register", "append", "swap", "replace"} :
       /\ s.op = kind
       /\ disk' = [disk EXCEPT ![f] = Content(p, kind)]
       /\ first' = IF kind = "register" /\ first = NoVersion THEN p.says ELSE first
       /\ Continue(c, [p EXCEPT !.from = IF f = "prereg" THEN @ ELSE @ \cup {p.made}])
  /\ UNCHANGED <<camp, rows, tree, started, crashes, edits>>

Moves(c, s) ==
  /\ s.op = "move"
  /\ \E g \in s.keys : disk' = [disk EXCEPT ![g] = disk[s.file], ![s.file] = Missing]
  /\ Continue(c, proc[c])
  /\ UNCHANGED <<camp, rows, tree, started, crashes, edits, first>>

(* A line of the ledger is identified by config_hash of the frozen         *)
(* variant, which follows from the code that froze it; the baseline's by   *)
(* nothing but its name, and so are the lines of the other tables (kind,   *)
(* mu and seed of a control, the name of a file, the id of a row).         *)
Hashed(table, key) == table \in {"ledger", "looks"} /\ key # "baseline"
Line(p, table, key) == [table |-> table, key |-> key, of |-> IF Hashed(table, key) THEN p.input ELSE NoVersion]
\* Fault: what an earlier run has written is not looked at.
Unwritten_Fault(p, table, keys) == keys
Unwritten(p, table, keys) ==
  {k \in keys : ~ \E r \in rows : [table |-> r.table, key |-> r.key, of |-> r.of] = Line(p, table, k)}
\* Fault: the table is opened for writing, not for appending.
Write_Fault(p, table, keys) ==
  rows' = {r \in rows : r.table # table}
          \cup {[table |-> table, key |-> k, of |-> Line(p, table, k).of, run |-> p.run] : k \in keys}
Write(p, table, keys) ==
  rows' = rows \cup {[table |-> table, key |-> k, of |-> Line(p, table, k).of, run |-> p.run] : k \in keys}

Tables(c, s) ==
  LET p == proc[c]  table == s.file  keys == s.keys
      left == Unwritten(p, table, keys) IN
  /\ \/ s.op = "line" /\ Write(p, table, keys) /\ Continue(c, p)
     \/ s.op = "lineTodo" /\ Write(p, table, keys \cap p.todo) /\ Continue(c, p)
     \/ /\ s.op = "todo" \/ (s.op = "todoOrEnd" /\ left # {})
        /\ Continue(c, [p EXCEPT !.todo = left])
        /\ UNCHANGED rows
     \/ s.op = "todoOrEnd" /\ left = {} /\ End(c) /\ UNCHANGED rows
  /\ UNCHANGED <<camp, disk, tree, started, crashes, edits, first>>

Crash(c) ==
  /\ proc[c] # Idle
  /\ crashes < MaxCrashes
  /\ crashes' = crashes + 1
  /\ End(c)
  /\ UNCHANGED <<camp, disk, rows, tree, started, edits, first>>

Edit ==
  /\ edits < MaxEdits
  /\ edits' = edits + 1
  /\ \/ \E code \in Codes \ {tree.code} : tree' = [tree EXCEPT !.code = code]
     \/ \E digest \in Digests \ {tree.digest} : tree' = [tree EXCEPT !.digest = digest]
  /\ UNCHANGED <<camp, disk, rows, proc, started, crashes, first>>

\* The next step of a running command.
Takes(c) ==
  /\ proc[c].at > 0
  /\ \E s \in {Campaigns[camp][c][proc[c].at]} :
       Asks(c, s) \/ Reads(c, s) \/ Hashes(c, s) \/ Chooses(c, s) \/ Opens(c, s) \/ Writes(c, s) \/ Moves(c, s) \/ Tables(c, s)

Init ==
  /\ camp \in DOMAIN Campaigns
  /\ disk = [f \in FilesOf(camp) |-> Missing]
  /\ rows = {}
  /\ tree = [code |-> 1, digest |-> 1]
  /\ proc = [c \in DOMAIN Campaigns[camp] |-> Idle]
  /\ started = 0 /\ crashes = 0 /\ edits = 0
  /\ first = NoVersion

Next ==
  \/ \E c \in Commands : Start(c) \/ Takes(c) \/ Crash(c)
  \/ Edit

Spec == Init /\ [][Next]_vars
=============================================================================
