----------------------------- MODULE Orchestrate -----------------------------
(***************************************************************************)
(* orchestrate.py: the process that runs one test server after another and *)
(* keeps the table TestResults and the event logs.  A row counts the       *)
(* passes and failures of one plan; a plan that failed is run again until  *)
(* it passes once or has failed MaxFails times.  Of the plan a row keeps   *)
(* which one it is: the n-th of reproduce, or 0 for one of fuzz.           *)
(*                                                                         *)
(* The process may be killed between any two of its steps and started      *)
(* again with any command.  sqlite commits each statement on its own       *)
(* (isolation_level=None).  pc is the place the process is at:             *)
(*   off       no process          count, generate   reproduce's beginning *)
(*   fuzz, deflake   the beginning of fuzz_one, deflake_one                *)
(*   run       run_instance reads the output of the server                 *)
(*   spins     run_instance reads past the end of that output              *)
(*   judged, recorded, dumping   the verdict is known, is in the table,    *)
(*                               and its log is being written              *)
(*   done, refused   reproduce is over, or exits with an error             *)
(***************************************************************************)
EXTENDS Integers, Sequences, FiniteSets

CONSTANTS MaxFails,    \* failures that settle a plan, 5 in the code
          NumConfigs,  \* plans that reproduce generates, 1600 in the code
          MaxRows,     \* bound on the rows fuzzing adds
          MaxKills     \* bound on how often the process is killed

ASSUME OrchestrateAssumption ==
  /\ MaxFails \in Nat \ {0} /\ NumConfigs \in Nat \ {0}
  /\ MaxRows \in Nat /\ MaxKills \in Nat

Command == {"fuzz", "deflake", "fuzz-deflake", "reproduce"}

Verdict == {"passed", "failed"}

VARIABLES table,    \* TestResults: a sequence of rows, rowid is the index
          next,     \* the plan reproduce generates next, 0 outside its loops
          logs,     \* files, [row, suffix, content]
          command,  \* the subcommand
          pc,
          task,     \* which function waits for the verdict
          row,      \* rowid, 0 before fuzz_one has inserted its row
          verdict,  \* what check_ok finds in the events
          kills     \* history

vars == <<table, next, logs, command, pc, task, row, verdict, kills>>

Rows == DOMAIN table

Init ==
  /\ table = <<>> /\ next = 0 /\ logs = {}
  /\ command \in Command /\ pc = "off"
  /\ task = "fuzz" /\ row = 0 /\ verdict = "failed"
  /\ kills = 0

-----------------------------------------------------------------------------
\* The operator starts a command.
Start(c) ==
  /\ pc = "off"
  /\ command' = c
  /\ pc' = CASE c \in {"fuzz", "fuzz-deflake"} -> "fuzz"
             [] c = "deflake"   -> "deflake"
             [] c = "reproduce" -> "count"
  /\ UNCHANGED <<table, next, logs, task, row, verdict, kills>>

\* fuzz_one draws a plan and runs it.
FuzzOne ==
  /\ pc = "fuzz" /\ Len(table) < MaxRows
  /\ task' = "fuzz" /\ row' = 0 /\ pc' = "run"
  /\ UNCHANGED <<table, next, logs, command, verdict, kills>>

\* Mutant of Undecided: a plan that passed once is run again.
UndecidedByFails == {i \in Rows : table[i].fail < MaxFails}

\* Mutant of Undecided: one failure too many.
UndecidedOneMore ==
  {i \in Rows : table[i].pass = 0 /\ table[i].fail <= MaxFails}

\* WHERE pass = 0 AND fail < 5
Undecided == {i \in Rows : table[i].pass = 0 /\ table[i].fail < MaxFails}

\* deflake_one runs a row that is not decided yet, in random order.
DeflakeOne ==
  /\ pc = "deflake"
  /\ task' = "deflake" /\ row' \in Undecided /\ pc' = "run"
  /\ UNCHANGED <<table, next, logs, command, verdict, kills>>

\* The next function of the command.
NextCall(after) ==
  CASE command = "fuzz"         -> "fuzz"
    [] command = "fuzz-deflake" -> IF after = "fuzz" THEN "deflake" ELSE "fuzz"
    [] OTHER                    -> "deflake"

\* With nothing to deflake, reproduce is done; the others sleep and go on.
NothingToDeflake ==
  /\ pc = "deflake" /\ Undecided = {}
  /\ pc' = IF command = "reproduce" THEN "done" ELSE NextCall("deflake")
  /\ UNCHANGED <<table, next, logs, command, task, row, verdict, kills>>

\* Mutant of Resumable: a table with rows is taken to be the whole one.
ResumableIfAny == table # <<>>

\* The number of rows that reproduce accepts besides none.
Resumable == Len(table) = NumConfigs

\* reproduce looks whether its plans were generated before.
Count ==
  /\ pc = "count"
  /\ pc' = IF table = <<>> THEN "generate"
           ELSE IF Resumable THEN "deflake" ELSE "refused"
  /\ next' = IF table = <<>> THEN 1 ELSE 0
  /\ UNCHANGED <<table, logs, command, task, row, verdict, kills>>

\* A row of a plan that has not been run.
Untested(plan) == [plan |-> plan, pass |-> 0, fail |-> 0]

\* insert_config, NumConfigs times.
Generate ==
  /\ pc = "generate"
  /\ table' = Append(table, Untested(next))
  /\ IF next < NumConfigs THEN next' = next + 1 /\ UNCHANGED pc
     ELSE next' = 0 /\ pc' = "deflake"
  /\ UNCHANGED <<logs, command, task, row, verdict, kills>>

-----------------------------------------------------------------------------
\* The server prints its verdict; run_instance returns, waiting for the server
\* 30 seconds at most.
Judge(v) ==
  /\ pc = "run"
  /\ verdict' = v /\ pc' = "judged"
  /\ UNCHANGED <<table, next, logs, command, task, row, kills>>

\* The server ends without one: readline answers b'' for good, which is not the
\* sentinel ''.
ServerDies ==
  /\ pc = "run" /\ pc' = "spins"
  /\ UNCHANGED <<table, next, logs, command, task, row, verdict, kills>>

\* Mutant of Counted: failures of a rerun are not counted.
CountedPassOnly(r, v) ==
  IF v = "passed" THEN [r EXCEPT !.pass = @ + 1] ELSE r

Counted(r, v) ==
  IF v = "passed" THEN [r EXCEPT !.pass = @ + 1] ELSE [r EXCEPT !.fail = @ + 1]

\* Mutant of NewRow: the number of rows before the insertion.
NewRowOffByOne == Len(table)

\* cur.lastrowid after the insertion.
NewRow == Len(table) + 1

\* The INSERT of fuzz_one or the UPDATE of deflake_one.
Record ==
  /\ pc = "judged"
  /\ IF task = "fuzz"
     THEN /\ row' = NewRow
          /\ table' = Append(table, Counted(Untested(0), verdict))
     ELSE /\ table' = [table EXCEPT ![row] = Counted(@, verdict)]
          /\ UNCHANGED row
  /\ pc' = "recorded"
  /\ UNCHANGED <<next, logs, command, task, verdict, kills>>

\* Mutant of Suffix: all runs of a row share one file.
NoSuffix == ""

\* The suffix of the log's name.
Suffix == CASE task = "fuzz"       -> ""
            [] verdict = "passed"  -> "_pass"
            [] OTHER               -> "_fail"

\* The file with the events, in place of one of the same name.
Written(content) ==
  {f \in logs : ~ (f.row = row /\ f.suffix = Suffix)}
    \cup {[row |-> row, suffix |-> Suffix, content |-> content]}

\* dump_events opens the file, which empties it, and writes the events, the
\* verdict last.
OpenLog ==
  /\ pc = "recorded"
  /\ logs' = Written("partial") /\ pc' = "dumping"
  /\ UNCHANGED <<table, next, command, task, row, verdict, kills>>

WriteLog ==
  /\ pc = "dumping"
  /\ logs' = Written(verdict) /\ pc' = NextCall(task)
  /\ UNCHANGED <<table, next, command, task, row, verdict, kills>>

-----------------------------------------------------------------------------
\* The process is killed, or loses an exception, between two steps.
Kill ==
  /\ pc \notin {"off", "done", "refused"} /\ kills < MaxKills
  /\ pc' = "off" /\ next' = 0 /\ kills' = kills + 1
  /\ UNCHANGED <<table, logs, command, task, row, verdict>>

Exit ==
  /\ pc \in {"done", "refused"} /\ pc' = "off"
  /\ UNCHANGED <<table, next, logs, command, task, row, verdict, kills>>

Step ==
  \/ FuzzOne \/ DeflakeOne \/ NothingToDeflake \/ Count \/ Generate
  \/ \E v \in Verdict : Judge(v)
  \/ ServerDies
  \/ Record \/ OpenLog \/ WriteLog

Next == \/ \E c \in Command : Start(c)
        \/ Step
        \/ Kill
        \/ Exit

Spec == Init /\ [][Next]_vars

\* The process runs on, and its test server ends, with a verdict or without:
\* a test case has a timeout.  The verdict and the choice of the row to rerun
\* are not constrained.
FairSpec == Spec /\ WF_vars(Step)

-----------------------------------------------------------------------------
(***************************************************************************)
(* Properties.                                                             *)
(***************************************************************************)

\* The table counts no more failures than the query allows, a first run
\* included, and one pass at most.
TypeOK ==
  /\ table \in Seq([plan : 0 .. NumConfigs, pass : 0 .. 1,
                    fail : 0 .. MaxFails])
  /\ next \in 0 .. NumConfigs
  /\ logs \subseteq [row : Rows, suffix : {"", "_pass", "_fail"},
                     content : Verdict \cup {"partial"}]
  /\ command \in Command /\ task \in {"fuzz", "deflake"}
  /\ pc \in {"off", "count", "generate", "fuzz", "deflake", "run", "spins",
             "judged", "recorded", "dumping", "done", "refused"}
  /\ row \in Rows \cup {0} /\ verdict \in Verdict /\ kills \in 0 .. MaxKills

Happened(i, v) ==
  /\ i \in Rows
  /\ IF v = "passed" THEN table[i].pass > 0 ELSE table[i].fail > 0

Evidence(i, v) == \E f \in logs : f.row = i /\ f.content = v

\* The verdicts in the table that no complete log shows, without the one that
\* is about to be written.
Unwritten ==
  IF pc \in {"recorded", "dumping"} THEN {<<row, verdict>>} ELSE {}

Missing ==
  {x \in (Rows \X Verdict) \ Unwritten : Happened(x[1], x[2])
                                           /\ ~ Evidence(x[1], x[2])}

\* Each kind of verdict counted for a plan has a log that shows it, later runs
\* of the plan do not destroy it, and a kill between the two writes loses one
\* at most (orchestrate.py:134-141, 170-175).
KillLosesOneLog == Cardinality(Missing) <= kills

\* A log never shows a verdict that the table does not count for its row.
LogsAreCounted ==
  \A f \in logs : f.content \in Verdict => Happened(f.row, f.content)

\* Once a plan passed, or failed MaxFails times, its row is final, whatever
\* commands run, are killed, and run again.
DecidedIsFinal ==
  [][\A i \in Rows :
       table[i].pass > 0 \/ table[i].fail = MaxFails => table'[i] = table[i]]_vars

\* reproduce is done when it has a decision on each of its plans, however often
\* its generation of them was interrupted (orchestrate.py:204-219); unless fuzz
\* wrote to the table: as only the rows are counted, its plans can take the place
\* of those that an interrupted generation left out.
DoneIsComplete ==
  pc = "done" =>
    /\ Len(table) = NumConfigs
    /\ \A i \in Rows : table[i].pass > 0 \/ table[i].fail = MaxFails
    /\ \/ \E i \in Rows : table[i].plan = 0
       \/ \A n \in 1 .. NumConfigs : \E i \in Rows : table[i].plan = n

\* reproduce comes to an end, unless it is killed or a server dies under it:
\* each run settles a plan or brings it closer, in whatever order rows are
\* chosen and however the runs end.
ReproduceEnds ==
  pc = "count" ~> pc \in {"done", "refused", "off", "spins"}
=============================================================================
