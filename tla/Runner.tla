-------------------------------- MODULE Runner --------------------------------
(***************************************************************************)
(* The test server process (cmd/server.go and netrix/unittests.go): a      *)
(* subcommand runs test cases one after the other, each with a fresh       *)
(* cluster of nodes, and "fuzz" writes each result to the database and the *)
(* spec log next to it. mode is one of the five subcommands; "reference"   *)
(* is unittest with use-byzzfuzz=false, and "netrix" is RunUnitTests,      *)
(* which no subcommand calls. Beside the main goroutine there are, for     *)
(* each test, one that starts the nodes five seconds later, one that stops *)
(* the server on a signal or at the end of the test case, and the handler  *)
(* of SpecCheck. The process may crash or be killed at any step; fuzz.sh   *)
(* then launches it again. The nodes, spec.log and the database outlive    *)
(* the process.                                                            *)
(*                                                                         *)
(* pc is where the main goroutine is: begin, prep, serve, stopNodes,       *)
(* check, discard, insert, insertLog, leave.  run holds the variables of   *)
(* one call of runSingleTestCase.                                          *)
(***************************************************************************)
EXTENDS Integers, Sequences, FiniteSets, Functions

CONSTANTS Mode,        \* the modes to choose from
          Iterations,  \* the flag of fuzz; the number of unit tests
          Events,      \* what the nodes may report
          Node, Faulty, Capacity,    \* see SpecCheck
          MaxTests, MaxEvents, MaxCrashes, MaxSignals   \* bounds

VARIABLES mode,
          proc,        \* "up", "crashed" (a non-zero exit), "ended"
          pc,
          i,           \* tests begun by this process
          test,        \* tests begun by all of them
          notified,    \* signal.Notify was called
          run,
          nodes,       \* the tests whose nodes are running
          rows, logs,  \* tables TestResults and SpecLogs
          \* SpecCheck's:
          phase, pending, ch, closed, file, specOk, handled,
          \* History and bounds:
          crashed,     \* the tests during which the process crashed
          interrupted, \* the tests that a signal stopped
          crashes, signals

SC == INSTANCE SpecCheck

check   == <<phase, pending, ch, closed, file, specOk, handled>>
main    == <<mode, i, test, notified>>
db      == <<rows, logs>>
history == <<crashed, interrupted, crashes, signals>>

vars == <<mode, proc, pc, i, test, notified, run, nodes, rows, logs, check,
          history>>

ASSUME RunnerAssumption ==
  /\ Mode \subseteq {"fuzz", "run-instance", "verify", "unittest",
                     "reference", "baseline", "netrix"}
  /\ Iterations \in Nat /\ Capacity \in Nat
  /\ MaxTests \in Nat /\ MaxEvents \in Nat
  /\ MaxCrashes \in Nat /\ MaxSignals \in Nat

NewRun == [termCh |-> FALSE, doneCh |-> FALSE, terminate |-> FALSE,
           watching |-> TRUE, stopped |-> FALSE, starter |-> "none"]

Init ==
  /\ mode \in Mode
  /\ proc = "up" /\ pc = "begin" /\ i = 0 /\ test = 0
  /\ notified = FALSE /\ run = NewRun /\ nodes = {}
  /\ rows = <<>> /\ logs = <<>>
  /\ SC!Init
  /\ crashed = {} /\ interrupted = {} /\ crashes = 0 /\ signals = 0

At(label) == proc = "up" /\ pc = label

-----------------------------------------------------------------------------
(***************************************************************************)
(* runSingleTestCase.                                                      *)
(***************************************************************************)
Tests == IF mode \in {"fuzz", "netrix"} THEN Iterations ELSE 1

\* A test case, its channel, a channel for signals and the server are made.
\* The channels of former tests still get signals; no one reads them.  A
\* handler of the former test still at its channel, closed now, panics first.
Begin ==
  /\ At("begin") /\ i < Tests /\ test < MaxTests
  /\ pending = SC!NoEvent
  /\ pc' = "prep" /\ i' = i + 1 /\ test' = test + 1
  /\ notified' = TRUE /\ run' = NewRun
  /\ phase' = "running" /\ ch' = <<>> /\ closed' = FALSE
  /\ specOk' = FALSE /\ handled' = <<>>
  /\ UNCHANGED <<mode, proc, nodes, db, pending, file, history>>

\* Mutant of PrepDockerCompose: no "make localnet-stop".
PrepWithoutStop ==
  /\ At("prep") /\ pc' = "serve"
  /\ run' = [run EXCEPT !.starter = "asleep"]
  /\ UNCHANGED <<main, proc, nodes, db, check, history>>

\* "make localnet-stop" and "docker-compose up --no-start"; then the goroutines
\* are started, and the server.
PrepDockerCompose ==
  /\ At("prep") /\ pc' = "serve"
  /\ nodes' = {}
  /\ run' = [run EXCEPT !.starter = "asleep"]
  /\ UNCHANGED <<main, proc, db, check, history>>

StartNodes ==
  /\ proc = "up" /\ run.starter = "asleep"
  /\ run' = [run EXCEPT !.starter = "started"]
  /\ nodes' = nodes \cup {test}
  /\ UNCHANGED <<main, proc, pc, db, check, history>>

\* External: the test case ends itself or times out.
TestOver ==
  /\ At("serve") /\ ~ run.doneCh
  /\ run' = [run EXCEPT !.doneCh = TRUE]
  /\ UNCHANGED <<main, proc, pc, nodes, db, check, history>>

\* The goroutine at the select.  When both channels are ready either is taken.
SelectSignal ==
  /\ At("serve") /\ run.watching /\ run.termCh
  /\ run' = [run EXCEPT !.watching = FALSE, !.termCh = FALSE,
                        !.terminate = TRUE, !.stopped = TRUE]
  /\ interrupted' = interrupted \cup {test}
  /\ UNCHANGED <<main, proc, pc, nodes, db, check, crashed, crashes, signals>>

\* Mutant of SelectDone: the server is not stopped.
DoneWithoutStop ==
  /\ At("serve") /\ run.watching /\ run.doneCh
  /\ run' = [run EXCEPT !.watching = FALSE]
  /\ UNCHANGED <<main, proc, pc, nodes, db, check, history>>

SelectDone ==
  /\ At("serve") /\ run.watching /\ run.doneCh
  /\ run' = [run EXCEPT !.watching = FALSE, !.stopped = TRUE]
  /\ UNCHANGED <<main, proc, pc, nodes, db, check, history>>

\* "Returns once the server has been stopped"
ServerReturns ==
  /\ At("serve") /\ run.stopped /\ pc' = "stopNodes"
  /\ SC!Stop
  /\ UNCHANGED <<main, proc, run, nodes, db, history>>

-----------------------------------------------------------------------------
\* What follows runSingleTestCase in each mode.

\* Mutant of AfterFuzz: the answer of runSingleTestCase is ignored.
AfterFuzzGoesOn == "check"

AfterFuzz == IF run.terminate THEN "leave" ELSE "check"

AfterUnittest == IF mode = "unittest" THEN "check" ELSE "leave"

AfterVerify == "check"

AfterRunInstance == "discard"

AfterBaseline == "leave"

AfterNetrix == IF run.terminate THEN "leave" ELSE "begin"

AfterTest ==
  CASE mode = "fuzz"                      -> AfterFuzz
    [] mode \in {"unittest", "reference"} -> AfterUnittest
    [] mode = "verify"                    -> AfterVerify
    [] mode = "run-instance"              -> AfterRunInstance
    [] mode = "baseline"                  -> AfterBaseline
    [] mode = "netrix"                    -> AfterNetrix

\* The process exits with an error.
Die == proc' = "crashed" /\ crashed' = crashed \cup {test}

\* Nobody has set Process while the starter sleeps: a nil dereference.  Docker
\* may or may not stop the nodes when make is terminated.
StopNodes ==
  /\ At("stopNodes")
  /\ \/ /\ run.starter = "asleep"
        /\ Die /\ UNCHANGED <<pc, nodes>>
     \/ /\ run.starter = "started"
        /\ pc' = AfterTest /\ nodes' \in {nodes, {}}
        /\ UNCHANGED <<proc, crashed>>
  /\ UNCHANGED <<main, run, db, check, interrupted, crashes, signals>>

\* spec.Check
Close ==
  /\ At("check") /\ SC!Close
  /\ UNCHANGED <<main, proc, pc, run, nodes, db, history>>

Drain ==
  /\ At("check") /\ SC!Drain
  /\ UNCHANGED <<main, proc, pc, run, nodes, db, history>>

Analyse ==
  /\ At("check") /\ SC!Analyse
  /\ pc' = IF mode = "fuzz" THEN "insert" ELSE "leave"
  /\ UNCHANGED <<main, proc, run, nodes, db, history>>

\* run-instance empties the closed channel and keeps nothing of it.
Discard ==
  /\ At("discard")
  /\ IF ~ closed THEN closed' = TRUE /\ UNCHANGED <<ch, pc>>
     ELSE ch' = <<>> /\ pc' = "leave" /\ UNCHANGED closed
  /\ UNCHANGED <<main, proc, run, nodes, db, phase, pending, file, specOk,
                 handled, history>>

\* addTestResult, in two transactions.
InsertResult ==
  /\ At("insert") /\ pc' = "insertLog"
  /\ rows' = Append(rows, [test |-> test, spec |-> specOk,
                           handled |-> handled])
  /\ UNCHANGED <<main, proc, run, nodes, logs, check, history>>

\* Mutant of InsertLog: an empty log is not stored.
InsertLogUnlessEmpty ==
  /\ At("insertLog") /\ pc' = "begin"
  /\ logs' = IF file = <<>> THEN logs
             ELSE Append(logs, [test_id |-> Len(rows), log |-> file])
  /\ UNCHANGED <<main, proc, run, nodes, rows, check, history>>

\* Mutant of InsertLog: the log is stored under the number of the test.
InsertLogOfTest ==
  /\ At("insertLog") /\ pc' = "begin"
  /\ logs' = Append(logs, [test_id |-> test, log |-> file])
  /\ UNCHANGED <<main, proc, run, nodes, rows, check, history>>

InsertLog ==
  /\ At("insertLog") /\ pc' = "begin"
  /\ logs' = Append(logs, [test_id |-> Len(rows), log |-> file])
  /\ UNCHANGED <<main, proc, run, nodes, rows, check, history>>

Leave ==
  /\ At("leave") \/ (At("begin") /\ i = Tests)
  /\ proc' = "ended"
  /\ UNCHANGED <<main, pc, run, nodes, db, check, history>>

-----------------------------------------------------------------------------
\* Running nodes report to the handler.
Handle ==
  /\ At("serve") /\ test \in nodes
  /\ mode \notin {"reference", "baseline", "netrix"}
  /\ Len(handled) < MaxEvents
  /\ \E e \in Events : SC!Handle(e)
  /\ UNCHANGED <<main, proc, pc, run, nodes, db, history>>

Send ==
  /\ proc = "up" /\ SC!Send
  /\ UNCHANGED <<main, proc, pc, run, nodes, db, history>>

SendOnClosed ==
  /\ proc = "up" /\ SC!SendOnClosed
  /\ Die
  /\ UNCHANGED <<main, pc, run, nodes, db, interrupted, crashes, signals>>

\* An interrupt.  Before the first signal.Notify it ends the process, later it
\* waits in the channels, which have room for one.
Signal ==
  /\ proc = "up" /\ signals < MaxSignals
  /\ signals' = signals + 1
  /\ IF notified
     THEN run' = [run EXCEPT !.termCh = TRUE] /\ UNCHANGED <<proc, crashed>>
     ELSE Die /\ UNCHANGED run
  /\ UNCHANGED <<main, pc, nodes, db, check, interrupted, crashes>>

\* log.Fatal, a panic elsewhere, or a kill.
Crash ==
  /\ proc = "up" /\ crashes < MaxCrashes
  /\ crashes' = crashes + 1
  /\ Die
  /\ UNCHANGED <<main, pc, run, nodes, db, check, interrupted, signals>>

\* The tables are created unless they exist.
openTestDb == UNCHANGED db

\* fuzz.sh: "Crashed, restarting in 30 seconds".
Relaunch ==
  /\ proc = "crashed" /\ mode = "fuzz"
  /\ proc' = "up" /\ pc' = "begin" /\ i' = 0
  /\ notified' = FALSE /\ run' = NewRun /\ pending' = SC!NoEvent
  /\ openTestDb
  /\ UNCHANGED <<mode, test, nodes, phase, ch, closed, file, specOk,
                 handled, history>>

\* The test server's own goroutines, and netrix/unittests.go's, which has the
\* same ones.
runTestCase ==
  \/ Begin \/ PrepDockerCompose \/ StartNodes
  \/ SelectSignal \/ SelectDone \/ ServerReturns \/ StopNodes

Steps ==
  \/ runTestCase \/ TestOver \/ Close \/ Drain \/ Analyse \/ Discard
  \/ InsertResult \/ InsertLog \/ Leave \/ Send \/ SendOnClosed

Next == Steps \/ Handle \/ Signal \/ Crash \/ Relaunch

Spec == Init /\ [][Next]_vars

\* The goroutines keep running, test cases have a timeout, starting the nodes
\* takes its five seconds, server.Start returns after Stop, and the nodes end
\* when they are told to (dockerCompose.Wait).  Nothing is asked of signals.
FairSpec ==
  /\ Spec
  /\ WF_vars(Begin \/ PrepDockerCompose) /\ WF_vars(TestOver)
  /\ WF_vars(SelectSignal \/ SelectDone) /\ WF_vars(ServerReturns)
  /\ WF_vars(StartNodes) /\ WF_vars(StopNodes)
  /\ WF_vars(Close \/ Drain \/ Analyse \/ Discard)
  /\ WF_vars(InsertResult \/ InsertLog)

-----------------------------------------------------------------------------
(***************************************************************************)
(* Properties.                                                             *)
(***************************************************************************)

\* Every variable holds what the code may store in it.
TypeOK ==
  /\ mode \in Mode /\ proc \in {"up", "crashed", "ended"}
  /\ pc \in {"begin", "prep", "serve", "stopNodes", "check", "discard",
             "insert", "insertLog", "leave"}
  /\ i \in 0 .. Tests /\ test \in 0 .. MaxTests /\ notified \in BOOLEAN
  /\ run \in [termCh : BOOLEAN, doneCh : BOOLEAN, terminate : BOOLEAN,
              watching : BOOLEAN, stopped : BOOLEAN,
              starter : {"none", "asleep", "started"}]
  /\ phase \in {"running", "stopped", "draining", "checked", "dead"}
  /\ Len(ch) <= Capacity
  /\ \A l \in Range(logs) : l.test_id \in DOMAIN rows

\* The log stored with a result is the log of that test, all of it, and the
\* spec verdict of the result is the answer of the analysis for that log; no
\* result has two (cmd/server.go:246-267 reads spec.log, a file that all tests
\* share, after the verdict was stored).
RowsHaveTheirLogs ==
  /\ \A l \in Range(logs) :
       /\ l.log = rows[l.test_id].handled
       /\ rows[l.test_id].spec = SC!runAnalysis(l.log)
  /\ \A l, m \in DOMAIN logs : logs[l].test_id = logs[m].test_id => l = m

\* A result has no log only when the process crashed during that very test, or
\* is about to store it.
OnlyCrashesLoseLogs ==
  \A k \in DOMAIN rows :
    \/ \E l \in Range(logs) : l.test_id = k
    \/ rows[k].test \in crashed
    \/ pc = "insertLog" /\ k = Len(rows)

\* A test that a signal stopped is over before its time: its verdict is not
\* recorded, and the process that got the signal begins no other test
\* (cmd/server.go:173-175, netrix/unittests.go:53-55).
InterruptEndsLoop ==
  /\ \A k \in DOMAIN rows : rows[k].test \notin interrupted
  /\ proc = "up" /\ mode \in {"fuzz", "netrix"} /\ run.terminate
     => pc \in {"serve", "stopNodes", "leave"}

\* Messages and blocks of one test never get into another: while a test is
\* served no node of an earlier test runs, whether that test ended, was
\* interrupted or crashed with its nodes running.
FreshCluster == pc = "serve" => nodes \subseteq {test}

\* Each test of fuzz that is begun comes to a result with its log, unless it is
\* interrupted or the process crashes.
TestsEnd ==
  \A n \in 1 .. MaxTests :
    mode = "fuzz" /\ test = n ~>
      \/ \E l \in Range(logs) : rows[l.test_id].test = n
      \/ n \in interrupted \cup crashed
=============================================================================
