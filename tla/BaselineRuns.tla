----------------------------- MODULE BaselineRuns -----------------------------
(***************************************************************************)
(* baseline.py: one process runs NumRuns baseline tests in order, prints   *)
(* running totals and writes the events of run i into file i.  Started     *)
(* again, it skips the runs whose file exists.  It may be killed at any    *)
(* step.  pc is the place the process is at:                               *)
(*   off      no process         check    the top of the loop              *)
(*   run      reading the output of the server                             *)
(*   spins    reading past the end of that output                          *)
(*   counted  the verdict is counted     dumping   file i is being written *)
(*   done     the loop is over                                             *)
(***************************************************************************)
EXTENDS Integers, FiniteSets

CONSTANTS NumRuns,    \* 200 in the code
          MaxKills    \* bound on how often the process is killed

ASSUME BaselineAssumption == NumRuns \in Nat /\ MaxKills \in Nat

Run == 0 .. NumRuns - 1

VARIABLES pc, i, passed, failed, total,
          file,     \* file[k]: "none", "partial" or "complete"
          kills     \* history

vars == <<pc, i, passed, failed, total, file, kills>>

Init ==
  /\ pc = "off" /\ i = 0
  /\ passed = 0 /\ failed = 0 /\ total = 0
  /\ file = [k \in Run |-> "none"]
  /\ kills = 0

-----------------------------------------------------------------------------
\* Mutant of Start: the totals go on from those of the process before.
StartWithTotals ==
  /\ pc = "off" /\ pc' = "check"
  /\ i' = 0
  /\ UNCHANGED <<passed, failed, total, file, kills>>

Start ==
  /\ pc = "off" /\ pc' = "check"
  /\ i' = 0 /\ passed' = 0 /\ failed' = 0 /\ total' = 0
  /\ UNCHANGED <<file, kills>>

\* Mutant of Processed: no run is skipped.
NeverProcessed(k) == FALSE

\* os.path.isfile
Processed(k) == file[k] # "none"

\* Mutant of Skip: the run after a processed one is skipped, too.
SkipTwo ==
  /\ pc = "check" /\ i \in Run /\ Processed(i)
  /\ i' = IF i + 1 \in Run THEN i + 2 ELSE i + 1
  /\ UNCHANGED <<pc, passed, failed, total, file, kills>>

Skip ==
  /\ pc = "check" /\ i \in Run /\ Processed(i)
  /\ i' = i + 1
  /\ UNCHANGED <<pc, passed, failed, total, file, kills>>

RunBaseline ==
  /\ pc = "check" /\ i \in Run /\ ~ Processed(i)
  /\ pc' = "run"
  /\ UNCHANGED <<i, passed, failed, total, file, kills>>

\* The server prints its verdict and the totals are updated and printed.
Judge ==
  /\ pc = "run" /\ pc' = "counted"
  /\ total' = total + 1
  /\ \/ passed' = passed + 1 /\ UNCHANGED failed
     \/ failed' = failed + 1 /\ UNCHANGED passed
  /\ UNCHANGED <<i, file, kills>>

\* The server ends without one: readline answers b'' for good, which is not the
\* sentinel ''.
ServerDies ==
  /\ pc = "run" /\ pc' = "spins"
  /\ UNCHANGED <<i, passed, failed, total, file, kills>>

\* Opening the file creates it; the events follow.
OpenLog ==
  /\ pc = "counted" /\ pc' = "dumping"
  /\ file' = [file EXCEPT ![i] = "partial"]
  /\ UNCHANGED <<i, passed, failed, total, kills>>

WriteLog ==
  /\ pc = "dumping" /\ pc' = "check"
  /\ file' = [file EXCEPT ![i] = "complete"]
  /\ i' = i + 1
  /\ UNCHANGED <<passed, failed, total, kills>>

Finish ==
  /\ pc = "check" /\ i = NumRuns /\ pc' = "done"
  /\ UNCHANGED <<i, passed, failed, total, file, kills>>

Kill ==
  /\ pc \notin {"off", "done"} /\ kills < MaxKills
  /\ pc' = "off" /\ kills' = kills + 1
  /\ UNCHANGED <<i, passed, failed, total, file>>

Step == \/ Skip \/ RunBaseline \/ Judge \/ ServerDies
        \/ OpenLog \/ WriteLog \/ Finish

Next == Start \/ Step \/ Kill

Spec == Init /\ [][Next]_vars

\* The process runs on and its server ends, with a verdict or without.
FairSpec == Spec /\ WF_vars(Step)

-----------------------------------------------------------------------------
(***************************************************************************)
(* Properties.                                                             *)
(***************************************************************************)
Complete == {k \in Run : file[k] = "complete"}
Partial  == {k \in Run : file[k] = "partial"}

\* The totals are those of one start of the process and stay within the runs.
TypeOK ==
  /\ pc \in {"off", "check", "run", "spins", "counted", "dumping", "done"}
  /\ i \in 0 .. NumRuns /\ total \in 0 .. NumRuns /\ kills \in 0 .. MaxKills
  /\ passed \in 0 .. total /\ failed = total - passed
  /\ file \in [Run -> {"none", "partial", "complete"}]

\* The runs before i have a file, and a kill leaves at most one file
\* unfinished: starting again repeats no finished run and loses at most one
\* log for each kill (baseline.py:43-47, 57-60).
KillSpoilsOneLog ==
  /\ Cardinality(IF pc = "dumping" THEN Partial \ {i} ELSE Partial) <= kills
  /\ pc \in {"check", "run", "spins", "counted", "done"} =>
       \A k \in Run : k < i => file[k] # "none"

\* No log that was written to its end is opened again.
LogsAreKept == [][Complete \subseteq Complete']_vars

\* "This will execute 200 runs": once started, the process gets through all
\* its runs unless it is killed (README.md:33).
AllRunsExecuted == pc = "check" ~> pc \in {"done", "off"}

=============================================================================
