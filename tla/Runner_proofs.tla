----------------------------- MODULE Runner_proofs -----------------------------
(***************************************************************************)
(* Proofs about Runner.  The invariant has four parts: the types; what the *)
(* channel and the file of the present test hold, at each place of the main*)
(* goroutine; the results and logs in the database; and the tests that were*)
(* interrupted.  The handler and the main goroutine share the first two,   *)
(* only the main goroutine touches the others.                             *)
(***************************************************************************)
EXTENDS Runner, LogSequences, TLAPS

Event == Events \cup {SC!NoEvent}
Row == [test : Nat, spec : BOOLEAN, handled : Seq(Event)]
Log == [test_id : Nat, log : Seq(Event)]
RunType == [termCh : BOOLEAN, doneCh : BOOLEAN, terminate : BOOLEAN,
            watching : BOOLEAN, stopped : BOOLEAN,
            starter : {"none", "asleep", "started"}]

\* Every variable holds what the code may store in it.
Types ==
  /\ mode \in Mode /\ proc \in {"up", "crashed", "ended"}
  /\ pc \in {"begin", "prep", "serve", "stopNodes", "check", "discard",
             "insert", "insertLog", "leave"}
  /\ i \in 0 .. Tests /\ test \in 0 .. MaxTests /\ notified \in BOOLEAN
  /\ run \in RunType
  /\ phase \in {"running", "stopped", "draining", "checked", "dead"}
  /\ pending \in Event /\ closed \in BOOLEAN /\ specOk \in BOOLEAN
  /\ ch \in Seq(Event) /\ file \in Seq(Event) /\ handled \in Seq(Event)
  /\ Len(ch) <= Capacity

\* How far the events of the test have come, by the place of the main goroutine.
LogFits ==
  proc = "up" =>
    /\ pc \in {"prep", "serve"} => phase = "running"
    /\ pc = "stopNodes" => phase = "stopped"
    /\ pc = "check" => phase \in {"stopped", "draining"}
    /\ pc \in {"insert", "insertLog"} =>
         /\ phase = "checked" /\ closed /\ file = handled
         /\ specOk = SC!runAnalysis(file)
    /\ pc \in {"prep", "serve", "stopNodes", "check"} =>
         /\ phase \in {"running", "stopped"} => ch = handled /\ ~ closed
         /\ phase = "draining" => file \o ch = handled /\ closed

\* The results are of the tests begun so far, at most one of each, and the
\* present one is the last.  A log names a result that is complete.
RowsFit ==
  /\ rows \in Seq(Row) /\ logs \in Seq(Log)
  /\ \A k \in DOMAIN rows :
       /\ rows[k].test <= test
       /\ pc \in {"prep", "serve", "stopNodes", "check", "insert"}
            => rows[k].test < test
  /\ pc = "insertLog" =>
       /\ Len(rows) > 0
       /\ rows[Len(rows)] = [test |-> test, spec |-> specOk,
                             handled |-> handled]
  /\ \A l \in DOMAIN logs :
       /\ logs[l].test_id \in DOMAIN rows
       /\ pc = "insertLog" => logs[l].test_id # Len(rows)
       /\ logs[l].log = rows[logs[l].test_id].handled
       /\ rows[logs[l].test_id].spec = SC!runAnalysis(logs[l].log)
  /\ \A l, m \in DOMAIN logs : logs[l].test_id = logs[m].test_id => l = m
  /\ proc = "crashed" => test \in crashed
  /\ \A k \in DOMAIN rows :
       \/ \E l \in DOMAIN logs : logs[l].test_id = k
       \/ rows[k].test \in crashed
       \/ pc = "insertLog" /\ k = Len(rows)

\* A test gets a result only if no signal stopped it, and a signal is answered.
InterruptsFit ==
  /\ interrupted \subseteq 0 .. test
  /\ \A k \in DOMAIN rows : rows[k].test \notin interrupted
  /\ pc = "prep" => test \notin interrupted
  /\ pc \in {"serve", "stopNodes"} => (test \in interrupted => run.terminate)
  /\ pc = "check" /\ mode = "fuzz" => test \notin interrupted
  /\ pc \in {"insert", "insertLog"} => mode = "fuzz" /\ test \notin interrupted
  /\ mode \in {"fuzz", "netrix"} /\ run.terminate
       => pc \in {"serve", "stopNodes", "leave"}

IInv == Types /\ LogFits /\ RowsFit /\ InterruptsFit

-----------------------------------------------------------------------------
\* What a test, or a process, starts with.
LEMMA Fresh ==
  /\ <<>> \in Seq(Event) /\ Len(<<>>) = 0 /\ Len(<<>>) <= Capacity
  /\ NewRun \in RunType /\ Tests \in Nat /\ 0 \in 0 .. Tests
  /\ 0 \in 0 .. MaxTests /\ SC!NoEvent \in Event
<1>1. <<>> \in Seq(Event) /\ Len(<<>>) = 0
  BY EmptySeq
<1>2. Len(<<>>) <= Capacity
  BY <1>1, RunnerAssumption
<1>3. NewRun \in RunType
  BY DEF NewRun, RunType
<1>4. Tests \in Nat /\ 0 \in 0 .. Tests /\ 0 \in 0 .. MaxTests
  BY RunnerAssumption DEF Tests
<1> QED
  BY <1>1, <1>2, <1>3, <1>4 DEF Event

LEMMA InitIInv == Init => IInv
<1> SUFFICES ASSUME Init PROVE IInv
  OBVIOUS
<1>1. <<>> \in Seq(Event) /\ <<>> \in Seq(Row) /\ <<>> \in Seq(Log)
      /\ Len(<<>>) = 0 /\ DOMAIN <<>> = {}
  BY EmptySeq
<1>3. Types
  <2>1. /\ mode \in Mode /\ proc = "up" /\ pc = "begin" /\ i = 0 /\ test = 0
        /\ notified = FALSE /\ run = NewRun
        /\ phase = "running" /\ pending = SC!NoEvent /\ ch = <<>>
        /\ closed = FALSE /\ file = <<>> /\ specOk = FALSE /\ handled = <<>>
    BY DEF Init, SC!Init
  <2> QED
    BY <2>1, Fresh DEF Types
<1>4. LogFits
  BY DEF Init, LogFits
<1>5. RowsFit
  BY <1>1 DEF Init, RowsFit
<1>6. InterruptsFit
  BY <1>1 DEF Init, NewRun, InterruptsFit
<1> QED
  BY <1>3, <1>4, <1>5, <1>6 DEF IInv

LEMMA AfterTestType ==
  ASSUME Types
  PROVE  AfterTest \in {"begin", "check", "discard", "leave"}
<1> QED
  BY RunnerAssumption
  DEF Types, AfterTest, AfterFuzz, AfterUnittest, AfterVerify,
      AfterRunInstance, AfterBaseline, AfterNetrix

\* Every step is of an action; a proof by cases over them follows.
LEMMA TypesStep == Types /\ [Next]_vars => Types'
<1> SUFFICES ASSUME Types, [Next]_vars PROVE Types'
  OBVIOUS
<1> USE DEF Types, RunType, main, check, db, history
<1>0. Tests' = Tests \/ mode' # mode
  BY DEF Tests
<1>1. CASE Begin
  <2>1. /\ pc' = "prep" /\ i' = i + 1 /\ test' = test + 1 /\ notified' = TRUE
        /\ run' = NewRun /\ phase' = "running" /\ ch' = <<>>
        /\ closed' = FALSE /\ specOk' = FALSE /\ handled' = <<>>
        /\ UNCHANGED <<mode, proc, pending, file>>
        /\ i < Tests /\ test < MaxTests
    BY <1>1 DEF Begin
  <2>2. i' \in 0 .. Tests' /\ test' \in 0 .. MaxTests
    BY <1>0, <2>1, Fresh, RunnerAssumption
  <2> QED
    BY <2>1, <2>2, Fresh DEF RunType
<1>2. CASE PrepDockerCompose
  BY <1>2, <1>0 DEF PrepDockerCompose, At
<1>3. CASE StartNodes
  BY <1>3, <1>0 DEF StartNodes
<1>4. CASE TestOver
  BY <1>4, <1>0 DEF TestOver, At
<1>5. CASE SelectSignal
  BY <1>5, <1>0 DEF SelectSignal, At
<1>6. CASE SelectDone
  BY <1>6, <1>0 DEF SelectDone, At
<1>7. CASE ServerReturns
  BY <1>7, <1>0 DEF ServerReturns, At, SC!Stop
<1>8. CASE StopNodes
  <2>1. AfterTest \in {"begin", "check", "discard", "leave"}
    BY AfterTestType
  <2> QED
    BY <1>8, <1>0, <2>1 DEF StopNodes, At, Die
<1>9. CASE Close
  BY <1>9, <1>0, EmptySeq DEF Close, At, SC!Close
<1>10. CASE Drain
  <2>1. /\ ch # <<>> /\ file' = Append(file, Head(ch)) /\ ch' = Tail(ch)
        /\ UNCHANGED <<mode, proc, pc, i, test, notified, run, phase, pending,
                       closed, specOk, handled>>
    BY <1>10 DEF Drain, At, SC!Drain, SC!Drained
  <2>2. file' \in Seq(Event) /\ ch' \in Seq(Event) /\ Len(ch') = Len(ch) - 1
    BY <2>1, DrainKeeps
  <2>3. Len(ch') <= Capacity
    BY <2>2, LenProperties, RunnerAssumption
  <2> QED
    BY <1>0, <2>1, <2>2, <2>3
<1>11. CASE Analyse
  <2>1. SC!runAnalysis(file) \in BOOLEAN
    BY DEF SC!runAnalysis
  <2> QED
    BY <1>11, <1>0, <2>1 DEF Analyse, At, SC!Analyse
<1>12. CASE Discard
  <2>1. /\ ch' \in {ch, <<>>} /\ closed' \in {closed, TRUE}
        /\ pc' \in {"discard", "leave"}
        /\ UNCHANGED <<mode, proc, i, test, notified, run, phase, pending, file,
                       specOk, handled>>
    BY <1>12 DEF Discard, At
  <2> QED
    <3>1. Len(ch') <= Capacity /\ ch' \in Seq(Event) /\ closed' \in BOOLEAN
      BY <2>1, Fresh
    <3>2. i' \in 0 .. Tests'
      BY <1>0, <2>1
    <3> QED
      BY <2>1, <3>1, <3>2
<1>13. CASE InsertResult
  BY <1>13, <1>0 DEF InsertResult, At
<1>14. CASE InsertLog
  BY <1>14, <1>0 DEF InsertLog, At
<1>15. CASE Leave
  BY <1>15, <1>0 DEF Leave, At
<1>16. CASE Handle
  BY <1>16, <1>0 DEF Handle, At, SC!Handle, Event
<1>17. CASE Send
  <2>1. /\ Len(ch) < Capacity /\ ch' = Append(ch, pending)
        /\ handled' = Append(handled, pending) /\ pending' = SC!NoEvent
        /\ UNCHANGED <<mode, proc, pc, i, test, notified, run, phase, closed,
                       file, specOk>>
    BY <1>17 DEF Send, SC!Send
  <2>2. ch' \in Seq(Event) /\ handled' \in Seq(Event) /\ Len(ch') = Len(ch) + 1
    BY <2>1, AppendProperties
  <2>3. Len(ch') <= Capacity
    BY <2>1, <2>2, LenProperties, RunnerAssumption
  <2>4. pending' \in Event
    BY <2>1 DEF Event
  <2> QED
    BY <1>0, <2>1, <2>2, <2>3, <2>4
<1>18. CASE SendOnClosed
  BY <1>18, <1>0 DEF SendOnClosed, SC!SendOnClosed, Die
<1>19. CASE Signal
  BY <1>19, <1>0 DEF Signal, Die
<1>20. CASE Crash
  BY <1>20, <1>0 DEF Crash, Die
<1>21. CASE Relaunch
  BY <1>21, <1>0, Fresh DEF Relaunch, RunType
<1>22. CASE UNCHANGED vars
  BY <1>22, <1>0 DEF vars
<1> QED
  BY <1>1, <1>2, <1>3, <1>4, <1>5, <1>6, <1>7, <1>8, <1>9, <1>10, <1>11,
     <1>12, <1>13, <1>14, <1>15, <1>16, <1>17, <1>18, <1>19, <1>20, <1>21,
     <1>22
  DEF Next, Steps, runTestCase

\* The handler adds to the channel of the test what it adds to the history;
\* Check moves it from the channel to the file.
LEMMA LogStep == IInv /\ [Next]_vars => LogFits'
<1> SUFFICES ASSUME IInv, [Next]_vars PROVE LogFits'
  OBVIOUS
<1> USE DEF main, check, db, history
<1>0. Types /\ LogFits
  BY DEF IInv
<1>a. /\ ch \in Seq(Event) /\ file \in Seq(Event) /\ handled \in Seq(Event)
      /\ pending \in Event
  BY <1>0 DEF Types
<1>1. CASE Begin
  BY <1>1 DEF Begin, LogFits
<1>2. CASE PrepDockerCompose
  BY <1>2, <1>0 DEF PrepDockerCompose, At, LogFits
<1>3. CASE StartNodes
  BY <1>3, <1>0 DEF StartNodes, LogFits
<1>4. CASE TestOver
  BY <1>4, <1>0 DEF TestOver, At, LogFits
<1>5. CASE SelectSignal
  BY <1>5, <1>0 DEF SelectSignal, At, LogFits
<1>6. CASE SelectDone
  BY <1>6, <1>0 DEF SelectDone, At, LogFits
<1>7. CASE ServerReturns
  BY <1>7, <1>0 DEF ServerReturns, At, SC!Stop, LogFits
<1>8. CASE StopNodes
  <2>1. CASE run.starter = "asleep" /\ Die
    BY <2>1 DEF Die, LogFits
  <2>2. CASE pc' = AfterTest /\ UNCHANGED proc
    <3>1. AfterTest \in {"begin", "check", "discard", "leave"}
      BY <1>0, AfterTestType
    <3>2. pc = "stopNodes" /\ UNCHANGED check
      BY <1>8 DEF StopNodes, At
    <3> QED
      BY <1>0, <2>2, <3>1, <3>2 DEF LogFits
  <2> QED
    BY <1>8, <2>1, <2>2 DEF StopNodes
<1>9. CASE Close
  <2>1. <<>> \o ch = ch
    BY <1>a, ConcatEmptySeq
  <2> QED
    BY <1>9, <1>0, <2>1 DEF Close, At, SC!Close, LogFits
<1>10. CASE Drain
  <2>1. /\ ch # <<>> /\ file' = Append(file, Head(ch)) /\ ch' = Tail(ch)
        /\ phase = "draining" /\ pc = "check" /\ proc = "up"
        /\ UNCHANGED <<proc, pc, phase, closed, specOk, handled>>
    BY <1>10 DEF Drain, At, SC!Drain, SC!Drained
  <2>2. file' \o ch' = file \o ch
    BY <1>a, <2>1, DrainKeeps
  <2> QED
    BY <1>0, <2>1, <2>2 DEF LogFits
<1>11. CASE Analyse
  <2>1. /\ phase = "draining" /\ ch = <<>> /\ pc = "check" /\ proc = "up"
        /\ specOk' = SC!runAnalysis(file) /\ phase' = "checked"
        /\ pc' \in {"insert", "leave"}
        /\ UNCHANGED <<proc, ch, closed, file, handled>>
    BY <1>11 DEF Analyse, At, SC!Analyse, SC!Drained
  <2>2. file \o <<>> = file
    BY <1>a, ConcatEmptySeq
  <2>3. SC!runAnalysis(file)' = SC!runAnalysis(file)
    BY <2>1
  <2> QED
    BY <1>0, <2>1, <2>2 DEF LogFits
<1>12. CASE Discard
  BY <1>12, <1>0 DEF Discard, At, LogFits
<1>13. CASE InsertResult
  BY <1>13, <1>0 DEF InsertResult, At, LogFits
<1>14. CASE InsertLog
  BY <1>14, <1>0 DEF InsertLog, At, LogFits
<1>15. CASE Leave
  BY <1>15, <1>0 DEF Leave, At, LogFits
<1>16. CASE Handle
  BY <1>16, <1>0 DEF Handle, At, SC!Handle, LogFits
<1>17. CASE Send
  <2>1. /\ ~ closed /\ ch' = Append(ch, pending)
        /\ handled' = Append(handled, pending)
        /\ UNCHANGED <<proc, pc, phase, closed, file, specOk>>
    BY <1>17 DEF Send, SC!Send
  <2> QED
    BY <1>0, <2>1 DEF LogFits
<1>18. CASE SendOnClosed
  BY <1>18 DEF SendOnClosed, Die, LogFits
<1>19. CASE Signal
  BY <1>19, <1>0 DEF Signal, Die, LogFits
<1>20. CASE Crash
  BY <1>20 DEF Crash, Die, LogFits
<1>21. CASE Relaunch
  BY <1>21 DEF Relaunch, LogFits
<1>22. CASE UNCHANGED vars
  BY <1>22, <1>0 DEF vars, LogFits
<1> QED
  BY <1>1, <1>2, <1>3, <1>4, <1>5, <1>6, <1>7, <1>8, <1>9, <1>10, <1>11,
     <1>12, <1>13, <1>14, <1>15, <1>16, <1>17, <1>18, <1>19, <1>20, <1>21,
     <1>22
  DEF Next, Steps, runTestCase

\* Results and logs are added by the main goroutine; a crash is noted with the
\* test it hits.
LEMMA RowsStep == IInv /\ [Next]_vars => RowsFit'
<1> SUFFICES ASSUME IInv, [Next]_vars PROVE RowsFit'
  OBVIOUS
<1>0. Types /\ LogFits /\ RowsFit
  BY DEF IInv
<1>a. test \in Nat /\ proc \in {"up", "crashed", "ended"}
  BY <1>0, RunnerAssumption DEF Types
<1>b. rows \in Seq(Row) /\ logs \in Seq(Log)
  BY <1>0 DEF RowsFit
\* Steps that leave the database alone.
<1>c. ASSUME UNCHANGED <<rows, logs, test>>, crashed \subseteq crashed',
             proc' = "crashed" => test \in crashed',
             pc' = "insertLog" => pc = "insertLog"
                                  /\ UNCHANGED <<specOk, handled>>,
             pc = "insertLog" /\ pc' # "insertLog" => proc = "crashed",
             pc' \in {"prep", "serve", "stopNodes", "check", "insert"}
               => pc \in {"prep", "serve", "stopNodes", "check", "insert"}
      PROVE  RowsFit'
  <2>1. \A k \in DOMAIN rows :
          \/ \E l \in DOMAIN logs : logs[l].test_id = k
          \/ rows[k].test \in crashed'
          \/ pc' = "insertLog" /\ k = Len(rows)
    BY <1>0, <1>c DEF RowsFit
  <2>2. \A l \in DOMAIN logs : pc' = "insertLog" => logs[l].test_id # Len(rows)
    BY <1>0, <1>c DEF RowsFit
  <2>3. pc' = "insertLog" =>
          /\ Len(rows) > 0
          /\ rows[Len(rows)] = [test |-> test, spec |-> specOk',
                                handled |-> handled']
    BY <1>0, <1>c DEF RowsFit
  <2> QED
    BY <1>0, <1>c, <2>1, <2>2, <2>3 DEF RowsFit
<1> USE DEF main, check, db, history
<1>1. CASE Begin
  <2>1. /\ pc' = "prep" /\ test' = test + 1 /\ proc = "up" /\ pc = "begin"
        /\ UNCHANGED <<proc, rows, logs, crashed>>
    BY <1>1 DEF Begin, At
  <2>2. \A k \in DOMAIN rows : rows[k].test \in Nat
    <3> SUFFICES ASSUME NEW k \in DOMAIN rows PROVE rows[k].test \in Nat
      OBVIOUS
    <3>1. rows[k] \in Row
      BY <1>b, LenProperties, ElementOfSeq
    <3> QED
      BY <3>1 DEF Row
  <2>3. \A k \in DOMAIN rows : rows[k].test < test'
    BY <1>0, <1>a, <2>1, <2>2 DEF RowsFit
  <2> QED
    BY <1>0, <2>1, <2>3, <2>2, <1>a DEF RowsFit
<1>2. CASE PrepDockerCompose
  BY <1>2, <1>0, <1>a, <1>c DEF PrepDockerCompose, At
<1>3. CASE StartNodes
  BY <1>3, <1>0, <1>a, <1>c DEF StartNodes
<1>4. CASE TestOver
  BY <1>4, <1>0, <1>a, <1>c DEF TestOver, At
<1>5. CASE SelectSignal
  BY <1>5, <1>0, <1>a, <1>c DEF SelectSignal, At
<1>6. CASE SelectDone
  BY <1>6, <1>0, <1>a, <1>c DEF SelectDone, At
<1>7. CASE ServerReturns
  BY <1>7, <1>0, <1>a, <1>c DEF ServerReturns, At
<1>8. CASE StopNodes
  <2>1. AfterTest \in {"begin", "check", "discard", "leave"}
    BY <1>0, AfterTestType
  <2>2. /\ pc = "stopNodes" /\ proc = "up" /\ UNCHANGED <<rows, logs, test>>
        /\ \/ pc' = pc /\ proc' = "crashed" /\ crashed' = crashed \cup {test}
           \/ pc' = AfterTest /\ UNCHANGED <<proc, crashed>>
    BY <1>8 DEF StopNodes, At, Die
  <2> QED
    BY <1>a, <1>c, <2>1, <2>2
<1>9. CASE Close
  BY <1>9, <1>0, <1>a, <1>c DEF Close, At
<1>10. CASE Drain
  BY <1>10, <1>0, <1>a, <1>c DEF Drain, At
<1>11. CASE Analyse
  BY <1>11, <1>0, <1>a, <1>c DEF Analyse, At
<1>12. CASE Discard
  BY <1>12, <1>0, <1>a, <1>c DEF Discard, At
<1>13. CASE InsertResult
  <2> DEFINE row == [test |-> test, spec |-> specOk, handled |-> handled]
  <2>1. /\ pc = "insert" /\ pc' = "insertLog" /\ proc = "up"
        /\ rows' = Append(rows, row)
        /\ UNCHANGED <<proc, test, logs, crashed, specOk, handled>>
    BY <1>13 DEF InsertResult, At
  <2>2. row \in Row /\ row.test = test
    BY <1>0, <1>a DEF Types, Row
  <2> HIDE DEF row
  <2>3. /\ rows' \in Seq(Row) /\ Len(rows') = Len(rows) + 1
        /\ rows'[Len(rows')] = row /\ DOMAIN rows = 1 .. Len(rows)
        /\ DOMAIN rows' = 1 .. Len(rows') /\ Len(rows) \in Nat
        /\ \A k \in DOMAIN rows : rows'[k] = rows[k]
    BY <1>b, <2>1, <2>2, AppendProperties, LenProperties
  <2>4. \A k \in DOMAIN rows' : k \in DOMAIN rows \/ k = Len(rows')
    BY <2>3
  <2>5. \A k \in DOMAIN rows' : rows'[k].test <= test
    BY <1>0, <1>a, <2>2, <2>3, <2>4 DEF RowsFit
  <2>6. \A l \in DOMAIN logs :
          /\ logs[l].test_id \in DOMAIN rows
          /\ logs[l].test_id \in DOMAIN rows'
          /\ logs[l].test_id # Len(rows')
    BY <1>0, <2>3 DEF RowsFit
  <2>7. \A l \in DOMAIN logs :
          /\ logs[l].log = rows'[logs[l].test_id].handled
          /\ rows'[logs[l].test_id].spec = SC!runAnalysis(logs[l].log)
    BY <1>0, <2>3, <2>6 DEF RowsFit
  <2>8. \A k \in DOMAIN rows' :
          \/ \E l \in DOMAIN logs : logs[l].test_id = k
          \/ rows'[k].test \in crashed
          \/ k = Len(rows')
    BY <1>0, <2>1, <2>3, <2>4 DEF RowsFit
  <2>9. Len(rows') > 0
    BY <2>3
  <2> QED
    BY <1>0, <1>b, <2>1, <2>3, <2>5, <2>6, <2>7, <2>8, <2>9 DEF RowsFit, row
<1>14. CASE InsertLog
  <2> DEFINE log == [test_id |-> Len(rows), log |-> file]
  <2>1. /\ pc = "insertLog" /\ pc' = "begin" /\ proc = "up"
        /\ logs' = Append(logs, log)
        /\ UNCHANGED <<proc, test, rows, crashed>>
    BY <1>14 DEF InsertLog, At
  <2>2. /\ file = handled /\ specOk = SC!runAnalysis(file)
        /\ file \in Seq(Event)
    BY <1>0, <2>1 DEF LogFits, Types
  <2>3. Len(rows) \in Nat /\ Len(rows) \in DOMAIN rows
    BY <1>0, <1>b, <2>1, LenProperties DEF RowsFit
  <2>4. /\ log \in Log /\ log.test_id = Len(rows)
        /\ log.log = rows[log.test_id].handled
        /\ rows[log.test_id].spec = SC!runAnalysis(log.log)
    BY <1>0, <2>1, <2>2, <2>3 DEF RowsFit, Log
  <2> HIDE DEF log
  <2>5. /\ logs' \in Seq(Log) /\ Len(logs') = Len(logs) + 1
        /\ logs'[Len(logs')] = log /\ DOMAIN logs = 1 .. Len(logs)
        /\ DOMAIN logs' = 1 .. Len(logs') /\ Len(logs) \in Nat
        /\ \A l \in DOMAIN logs : logs'[l] = logs[l]
    BY <1>b, <2>1, <2>4, AppendProperties, LenProperties
  <2>6. /\ \A l \in DOMAIN logs' : l \in DOMAIN logs \/ l = Len(logs')
        /\ DOMAIN logs \subseteq DOMAIN logs' /\ Len(logs') \in DOMAIN logs'
    BY <2>5
  <2>7. \A l \in DOMAIN logs' :
          /\ logs'[l].test_id \in DOMAIN rows
          /\ logs'[l].log = rows[logs'[l].test_id].handled
          /\ rows[logs'[l].test_id].spec = SC!runAnalysis(logs'[l].log)
    BY <1>0, <2>3, <2>4, <2>5, <2>6 DEF RowsFit
  <2>8. \A l, m \in DOMAIN logs' :
          logs'[l].test_id = logs'[m].test_id => l = m
    <3>1. \A l \in DOMAIN logs : logs'[l].test_id # Len(rows)
      BY <1>0, <2>1, <2>5 DEF RowsFit
    <3> QED
      BY <1>0, <2>4, <2>5, <2>6, <3>1 DEF RowsFit
  <2>9. \A k \in DOMAIN rows :
          \/ \E l \in DOMAIN logs' : logs'[l].test_id = k
          \/ rows[k].test \in crashed
    <3> SUFFICES ASSUME NEW k \in DOMAIN rows, rows[k].test \notin crashed
                 PROVE  \E l \in DOMAIN logs' : logs'[l].test_id = k
      OBVIOUS
    <3>1. CASE k = Len(rows)
      BY <2>4, <2>5, <2>6, <3>1
    <3>2. CASE k # Len(rows)
      <4>1. PICK l \in DOMAIN logs : logs[l].test_id = k
        BY <1>0, <3>2 DEF RowsFit
      <4> QED
        BY <2>5, <2>6, <4>1
    <3> QED
      BY <3>1, <3>2
  <2> QED
    BY <1>0, <2>1, <2>5, <2>7, <2>8, <2>9 DEF RowsFit
<1>15. CASE Leave
  BY <1>15, <1>0, <1>a, <1>c DEF Leave, At
<1>16. CASE Handle
  BY <1>16, <1>0, <1>a, <1>c DEF Handle, At
<1>17. CASE Send
  <2>1. UNCHANGED <<rows, logs, test, crashed, proc, pc, specOk>> /\ ~ closed
        /\ proc = "up"
    BY <1>17 DEF Send, SC!Send
  <2>2. pc # "insertLog"
    BY <1>0, <2>1 DEF LogFits
  <2> QED
    BY <1>a, <1>c, <2>1, <2>2
<1>18. CASE SendOnClosed
  BY <1>18, <1>0, <1>a, <1>c DEF SendOnClosed, SC!SendOnClosed, Die
<1>19. CASE Signal
  BY <1>19, <1>0, <1>a, <1>c DEF Signal, Die, RowsFit
<1>20. CASE Crash
  BY <1>20, <1>0, <1>a, <1>c DEF Crash, Die
<1>21. CASE Relaunch
  BY <1>21, <1>0, <1>a, <1>c DEF Relaunch, openTestDb
<1>22. CASE UNCHANGED vars
  BY <1>22, <1>0, <1>a, <1>c DEF vars, RowsFit
<1> QED
  BY <1>1, <1>2, <1>3, <1>4, <1>5, <1>6, <1>7, <1>8, <1>9, <1>10, <1>11,
     <1>12, <1>13, <1>14, <1>15, <1>16, <1>17, <1>18, <1>19, <1>20, <1>21,
     <1>22
  DEF Next, Steps, runTestCase

\* A signal is noted while its test is served, before that test has a result.
LEMMA InterruptsStep == IInv /\ [Next]_vars => InterruptsFit'
<1> SUFFICES ASSUME IInv, [Next]_vars PROVE InterruptsFit'
  OBVIOUS
<1>0. Types /\ RowsFit /\ InterruptsFit
  BY DEF IInv
<1>a. test \in Nat /\ run \in RunType
  BY <1>0, RunnerAssumption DEF Types, RunType
<1>b. \A k \in DOMAIN rows : rows[k].test \in Nat
  <2> SUFFICES ASSUME NEW k \in DOMAIN rows PROVE rows[k].test \in Nat
    OBVIOUS
  <2>1. rows[k] \in Row
    BY <1>0, LenProperties, ElementOfSeq DEF RowsFit
  <2> QED
    BY <2>1 DEF Row
\* Steps that stay where they are, or go on to a place with no more to show.
<1>c. ASSUME UNCHANGED <<mode, test, rows, interrupted>>,
             run'.terminate = run.terminate, pc' = pc
      PROVE  InterruptsFit'
  BY <1>0, <1>c DEF InterruptsFit
<1> USE DEF main, check, db, history
<1>1. CASE Begin
  <2>1. /\ pc' = "prep" /\ test' = test + 1 /\ run'.terminate = FALSE
        /\ UNCHANGED <<mode, rows, interrupted>>
    BY <1>1 DEF Begin, NewRun
  <2>2. interrupted \subseteq 0 .. test' /\ test' \notin interrupted
    BY <1>0, <1>a, <2>1 DEF InterruptsFit
  <2> QED
    BY <1>0, <2>1, <2>2 DEF InterruptsFit
<1>2. CASE PrepDockerCompose
  BY <1>2, <1>0, <1>a DEF PrepDockerCompose, At, InterruptsFit, RunType
<1>3. CASE StartNodes
  BY <1>3, <1>c, <1>a DEF StartNodes, RunType
<1>4. CASE TestOver
  BY <1>4, <1>c, <1>a DEF TestOver, At, RunType
<1>5. CASE SelectSignal
  <2>1. /\ pc = "serve" /\ pc' = pc /\ run'.terminate = TRUE
        /\ interrupted' = interrupted \cup {test}
        /\ UNCHANGED <<mode, test, rows>>
    BY <1>5, <1>a DEF SelectSignal, At, RunType
  <2>2. \A k \in DOMAIN rows : rows[k].test # test
    BY <1>0, <1>a, <1>b, <2>1 DEF RowsFit
  <2>3. interrupted' \subseteq 0 .. test
    BY <1>0, <1>a, <2>1 DEF InterruptsFit
  <2> QED
    BY <1>0, <2>1, <2>2, <2>3 DEF InterruptsFit
<1>6. CASE SelectDone
  BY <1>6, <1>c, <1>a DEF SelectDone, At, RunType
<1>7. CASE ServerReturns
  BY <1>7, <1>0 DEF ServerReturns, At, InterruptsFit
<1>8. CASE StopNodes
  <2>1. /\ pc = "stopNodes" /\ pc' \in {pc, AfterTest}
        /\ UNCHANGED <<mode, test, rows, run, interrupted>>
    BY <1>8 DEF StopNodes, At
  <2>2. CASE pc' = pc
    BY <1>c, <2>1, <2>2
  <2>3. CASE pc' = AfterTest
    <3>1. /\ AfterTest \in {"begin", "check", "discard", "leave"}
          /\ mode = "fuzz" => AfterTest = IF run.terminate THEN "leave"
                                          ELSE "check"
          /\ mode = "netrix" => AfterTest = IF run.terminate THEN "leave"
                                            ELSE "begin"
      BY <1>0, AfterTestType DEF AfterTest, AfterFuzz, AfterNetrix
    <3> QED
      BY <1>0, <2>1, <2>3, <3>1 DEF InterruptsFit
  <2> QED
    BY <2>1, <2>2, <2>3
<1>9. CASE Close
  BY <1>9, <1>c DEF Close, At
<1>10. CASE Drain
  BY <1>10, <1>c DEF Drain, At
<1>11. CASE Analyse
  BY <1>11, <1>0 DEF Analyse, At, InterruptsFit
<1>12. CASE Discard
  BY <1>12, <1>0 DEF Discard, At, InterruptsFit
<1>13. CASE InsertResult
  <2> DEFINE row == [test |-> test, spec |-> specOk, handled |-> handled]
  <2>1. /\ pc = "insert" /\ pc' = "insertLog"
        /\ rows' = Append(rows, row)
        /\ UNCHANGED <<mode, run, test, interrupted>>
    BY <1>13 DEF InsertResult, At
  <2>2. row \in Row /\ row.test = test
    BY <1>0, <1>a DEF Types, Row
  <2> HIDE DEF row
  <2>3. \A k \in DOMAIN rows' : \/ k \in DOMAIN rows /\ rows'[k] = rows[k]
                                \/ rows'[k] = row
    <3>1. /\ rows \in Seq(Row) /\ DOMAIN rows = 1 .. Len(rows)
          /\ Len(rows) \in Nat
      BY <1>0, LenProperties DEF RowsFit
    <3>2. DOMAIN rows' = 1 .. Len(rows) + 1 /\ rows'[Len(rows) + 1] = row
          /\ \A k \in 1 .. Len(rows) : rows'[k] = rows[k]
      BY <2>1, <2>2, <3>1, AppendProperties
    <3> QED
      BY <3>1, <3>2
  <2>4. \A k \in DOMAIN rows' : rows'[k].test \notin interrupted
    BY <1>0, <2>1, <2>2, <2>3 DEF InterruptsFit
  <2> QED
    BY <1>0, <2>1, <2>4 DEF InterruptsFit
<1>14. CASE InsertLog
  BY <1>14, <1>0 DEF InsertLog, At, InterruptsFit
<1>15. CASE Leave
  BY <1>15, <1>c DEF Leave, At
<1>16. CASE Handle
  BY <1>16, <1>c DEF Handle, At
<1>17. CASE Send
  BY <1>17, <1>c DEF Send
<1>18. CASE SendOnClosed
  BY <1>18, <1>c DEF SendOnClosed
<1>19. CASE Signal
  BY <1>19, <1>c, <1>a DEF Signal, RunType
<1>20. CASE Crash
  BY <1>20, <1>c DEF Crash
<1>21. CASE Relaunch
  BY <1>21, <1>0 DEF Relaunch, openTestDb, NewRun, InterruptsFit
<1>22. CASE UNCHANGED vars
  BY <1>22, <1>c DEF vars
<1> QED
  BY <1>1, <1>2, <1>3, <1>4, <1>5, <1>6, <1>7, <1>8, <1>9, <1>10, <1>11,
     <1>12, <1>13, <1>14, <1>15, <1>16, <1>17, <1>18, <1>19, <1>20, <1>21,
     <1>22
  DEF Next, Steps, runTestCase

-----------------------------------------------------------------------------
\* The types, the log of the present test, the database and the interrupts
\* stay consistent at every step of every goroutine (cmd/server.go).
THEOREM Invariance == Spec => []IInv
<1>1. IInv /\ [Next]_vars => IInv'
  BY TypesStep, LogStep, RowsStep, InterruptsStep DEF IInv
<1> QED
  BY <1>1, InitIInv, PTL DEF Spec

\* Every variable holds what the code may store in it, and a stored log names
\* a stored result.
THEOREM TypeCorrect == Spec => []TypeOK
<1>1. IInv => TypeOK
  BY DEF IInv, Types, RunType, RowsFit, TypeOK, Range
<1> QED
  BY <1>1, Invariance, PTL

\* The log stored with a result is the whole log of that test, whatever tests,
\* crashes and restarts came before (cmd/server.go:246-267).
THEOREM LogsBelong == Spec => []RowsHaveTheirLogs
<1>1. IInv => RowsHaveTheirLogs
  BY DEF IInv, RowsFit, RowsHaveTheirLogs, Range
<1> QED
  BY <1>1, Invariance, PTL

\* A result without a log is of a test during which the process crashed
\* (cmd/server.go:246-267, fuzz.sh).
THEOREM LogsLost == Spec => []OnlyCrashesLoseLogs
<1>1. IInv => OnlyCrashesLoseLogs
  BY DEF IInv, RowsFit, OnlyCrashesLoseLogs, Range
<1> QED
  BY <1>1, Invariance, PTL

\* An interrupted test is not recorded and ends the loop (cmd/server.go:173-175,
\* netrix/unittests.go:53-55).
THEOREM Interrupts == Spec => []InterruptEndsLoop
<1>1. IInv => InterruptEndsLoop
  BY DEF IInv, InterruptsFit, InterruptEndsLoop
<1> QED
  BY <1>1, Invariance, PTL

\* No node of an earlier test runs while a test is served
\* (docker/docker.go:8-22, cmd/server.go:304-312).
THEOREM Cluster == Spec => []FreshCluster
<1>1. Init => FreshCluster
  BY DEF Init, FreshCluster
<1>2. IInv /\ FreshCluster /\ [Next]_vars => FreshCluster'
  <2> SUFFICES ASSUME IInv, FreshCluster, [Next]_vars PROVE FreshCluster'
    OBVIOUS
  <2> USE DEF FreshCluster, At, main, check, db, history
  <2>1. CASE pc' = pc /\ test' = test /\ nodes' = nodes
    BY <2>1
  <2>2. CASE StartNodes
    BY <2>2 DEF StartNodes
  <2>3. CASE PrepDockerCompose
    BY <2>3 DEF PrepDockerCompose
  <2>4. CASE pc' # "serve"
    BY <2>4
  <2>5. CASE StopNodes
    <3>1. AfterTest # "serve"
      BY AfterTestType DEF IInv
    <3> QED
      BY <2>5, <3>1 DEF StopNodes
  <2> QED
    BY <2>1, <2>2, <2>3, <2>4, <2>5
    DEF Next, Steps, runTestCase, Begin, TestOver, SelectSignal, SelectDone,
        ServerReturns, Close, Drain, Analyse, Discard, InsertResult, InsertLog,
        Leave, Handle, Send, SendOnClosed, Signal, Crash, Relaunch, vars
<1> QED
  BY <1>1, <1>2, Invariance, PTL DEF Spec
=============================================================================
