---------------------------- MODULE ResearchSteps ----------------------------
(***************************************************************************)
(* What a command of a research script (docs/research/registry) does to    *)
(* the files beside it, one record per step.  A command is a sequence of   *)
(* steps; each operator below is the sequence for one thing the scripts    *)
(* do, ResearchPinned and ResearchOpen join them with \o, and              *)
(* ResearchProtocol says what a step does.                                 *)
(*                                                                         *)
(* Computing, printing and reading market data are no steps: they change   *)
(* nothing that another command sees, and a crash in them is a crash       *)
(* before the next step.                                                   *)
(***************************************************************************)
EXTENDS Naturals, Sequences

Step(op, file) == [op |-> op, file |-> file, keys |-> {}, skip |-> 0]

\* assert not os.path.exists(f), or sys.exit: the command ends when f is there.
Refuse(f) == <<Step("refuse", f)>>

\* assert os.path.exists(f): the command ends when f is not there.
Require(f) == <<Step("require", f)>>

\* json.load, np.load, pd.read_*: the command dies unless f is there and whole.
Load(f) == <<Step("load", f)>>

\* The same, where the code reads f only if it is there.
LoadIfThere(f) == <<Step("loadIfThere", f)>>

\* Load the registration and assert that it names what this process imported:
\* pins says which of "code" and "digest" the code compares.  "now" compares
\* the script's file as it is on disk at that moment.
LoadPinned(pins) == <<[Step("loadPinned", "prereg") EXCEPT !.keys = pins]>>

\* Hash the script's file now; what is written later carries that hash
\* instead of the one taken at import.
HashNow == <<Step("hash", "prereg")>>

\* open(f, "w") empties the file, and the file is whole again when the last
\* byte is written.  kind says what is written: the output of a run, a new
\* registration, or an amended one.
Written(f, kind) == <<Step("open", f), Step(kind, f)>>
Dump(f) == Written(f, "output")
Register == Written("prereg", "register")

\* amendments += the hashes of now, the registration as it was stays below it.
AmendByAppending == Load("prereg") \o Written("prereg", "append")
\* amendments += {old_sha, new_sha}, code_sha256 := new_sha.
AmendBySwapping == Load("prereg") \o Written("prereg", "swap")
\* amendments += the hashes of now, code_sha256 := the hashes of now.
AmendByReplacing == Load("prereg") \o Written("prereg", "replace")

\* os.replace(f, g), sqlite's commit: g is whole at once.
Publish(f) == <<Step("publish", f)>>

\* os.replace(f, g): f is gone, and g is what f was.
Move(f, g) == <<[Step("move", f) EXCEPT !.keys = {g}]>>

\* if os.path.exists(f): return what f holds; else make it.
Cache(f, making) == <<[Step("cached", f) EXCEPT !.skip = Len(making)]>> \o making
\* if os.path.exists(f): continue; else make it.
Unless(f, making) == <<[Step("unless", f) EXCEPT !.skip = Len(making)]>> \o making
\* A part that some runs leave out, for a reason the files do not show.
Perhaps(steps) == <<[Step("perhaps", "prereg") EXCEPT !.skip = Len(steps)]>> \o steps
\* Append one line, or commit one row, to an append-only table.
Append1(table, key) == <<[Step("line", table) EXCEPT !.keys = {key}]>>
\* The table's rows decide what is left to do; the command ends if nothing is.
TodoOrEnd(table, keys) == <<[Step("todoOrEnd", table) EXCEPT !.keys = keys]>>
Todo(table, keys) == <<[Step("todo", table) EXCEPT !.keys = keys]>>
\* Append only what was left to do.
AppendTodo(table, keys) == <<[Step("lineTodo", table) EXCEPT !.keys = keys]>>

\* Score a frozen variant on the data kept for that: a line of the history
\* "looks", which is no file of the code.
Look(key) == Append1("looks", key)
LookTodo(key) == AppendTodo("looks", {key})

\* validate.log_trial: one line of trials.jsonl.  Two stand for all the lines
\* of a command, so that a crash falls between them.
Trials == Append1("trials", "one") \o Append1("trials", "two")

-----------------------------------------------------------------------------
(* What can be read off a script, a sequence of steps.                     *)

Steps ==
  [op : {"refuse", "require", "load", "loadIfThere", "loadPinned", "cached", "unless", "hash", "perhaps",
         "open", "output", "publish", "register", "append", "swap", "replace", "move",
         "line", "todo", "todoOrEnd", "lineTodo"},
   file : STRING, keys : SUBSET STRING, skip : Nat]

\* A process past step j of s has taken it: no step before j jumps over it.
Always(s, j) == \A i \in 1..(j - 1) : i + 1 + s[i].skip <= j

\* The steps of s that every process takes before it takes step i.
Before(s, i) == {j \in 1..(i - 1) : Always(s, j)}

\* The files that step t writes.
WriteOps == {"open", "output", "publish", "register", "append", "swap", "replace"}
Puts(t) == IF t.op \in WriteOps THEN {t.file} ELSE IF t.op = "move" THEN {t.file} \cup t.keys ELSE {}
=============================================================================
