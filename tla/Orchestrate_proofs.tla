-------------------------- MODULE Orchestrate_proofs --------------------------
(***************************************************************************)
(* Proofs about Orchestrate, for every number of plans, failures, rows and *)
(* kills: the table and the logs agree, whatever commands are given and    *)
(* wherever they are killed.                                               *)
(***************************************************************************)
EXTENDS Orchestrate, SequenceTheorems, FiniteSetTheorems, TLAPS

Row == [plan : 0 .. NumConfigs, pass : 0 .. 1, fail : 0 .. MaxFails]

\* The row a run was started for is still not decided when its verdict comes.
RowIsOpen ==
  pc \in {"run", "judged"} /\ task = "deflake" => row \in Undecided

\* A verdict that is being written down is counted.
RecordedIsCounted ==
  pc \in {"recorded", "dumping"} => Happened(row, verdict)

\* The n-th plan of reproduce is in row n, if it is anywhere.
PlansInPlace ==
  /\ \A i \in Rows : table[i].plan \in {0, i}
  /\ pc = "generate" => next = Len(table) + 1

\* reproduce runs plans only when there are as many as it generates.
ReproduceHasAll ==
  /\ pc = "generate" => command = "reproduce" /\ Len(table) < NumConfigs
  /\ command = "reproduce" /\ pc \notin {"off", "count", "generate", "refused"}
     => /\ Len(table) = NumConfigs /\ pc # "fuzz"
        /\ pc \in {"run", "judged", "recorded", "dumping"} => task = "deflake"
  /\ pc \in {"count", "done"} => command = "reproduce"
  /\ pc = "done" => Undecided = {}

\* The name of a log tells its verdict; opening a log destroys none that shows
\* another verdict.
LogsFit ==
  /\ \A f \in logs : f.content \in Verdict =>
       /\ f.suffix = "_pass" => f.content = "passed"
       /\ f.suffix = "_fail" => f.content = "failed"
  /\ pc = "recorded" /\ task = "fuzz" => \A f \in logs : f.row # row
  /\ pc = "dumping" =>
       \A f \in logs : f.row = row /\ f.suffix = Suffix => f.content = "partial"

\* KillLosesOneLog, of a set that is known to be finite.
FewMissing == IsFiniteSet(Missing) /\ Cardinality(Missing) <= kills

\* The invariant: kept by every step, and enough for the properties.
IInv ==
  /\ TypeOK
  /\ RowIsOpen /\ RecordedIsCounted /\ PlansInPlace /\ ReproduceHasAll
  /\ LogsAreCounted /\ LogsFit

-----------------------------------------------------------------------------
LEMMA TableIsSeq ==
  ASSUME TypeOK
  PROVE  /\ table \in Seq(Row) /\ Len(table) \in Nat
         /\ Rows = 1 .. Len(table)
         /\ \A i \in Rows : table[i] \in Row
<1>1. table \in Seq(Row)
  BY DEF TypeOK, Row
<1> QED
  BY <1>1, LenProperties, ElementOfSeq DEF Rows

\* What is counted stays counted when a row is added or counts more.
LEMMA CountsGrow ==
  ASSUME table \in Seq(Row), table' \in Seq(Row), Len(table') >= Len(table),
         \A i \in Rows : /\ table'[i].pass >= table[i].pass
                         /\ table'[i].fail >= table[i].fail,
         NEW i, NEW v, Happened(i, v)
  PROVE  Happened(i, v)'
<1>1. Rows = 1 .. Len(table) /\ Rows' = 1 .. Len(table')
  BY DEF Rows
<1>2. i \in Rows /\ i \in Rows'
  BY <1>1, LenProperties DEF Happened
<1>3. table[i] \in Row /\ table'[i] \in Row
  BY <1>1, <1>2, ElementOfSeq
<1> QED
  BY <1>2, <1>3 DEF Happened, Row

\* Recording a verdict: the row fits the table, other rows stay, and the
\* verdict is counted.
LEMMA RecordEffect ==
  ASSUME TypeOK, RowIsOpen, Record
  PROVE  /\ table' \in Seq(Row)
         /\ Len(table') >= Len(table)
         /\ Len(table') = Len(table) \/ task = "fuzz"
         /\ \A i \in Rows : /\ table'[i].pass >= table[i].pass
                            /\ table'[i].fail >= table[i].fail
                            /\ i \notin Undecided => table'[i] = table[i]
         /\ row' \in Rows' /\ Happened(row, verdict)'
         /\ \A i \in Rows', v \in Verdict :
              Happened(i, v)' => Happened(i, v) \/ (i = row' /\ v = verdict)
         /\ task = "fuzz" => row' \notin Rows
         /\ \A i \in Rows' : \/ table'[i].plan = 0
                             \/ i \in Rows /\ table'[i].plan = table[i].plan
<1>1. table \in Seq(Row) /\ Rows = 1 .. Len(table) /\ verdict \in Verdict
      /\ Len(table) \in Nat /\ pc = "judged"
  BY TableIsSeq DEF TypeOK, Record
<1>2. MaxFails \in Nat \ {0}
  BY OrchestrateAssumption
<1>3. \A i \in Rows : /\ table[i] \in Row
                       /\ table[i].pass \in Int /\ table[i].fail \in Int
  BY TableIsSeq DEF Row
<1>4. CASE task = "fuzz"
  <2> DEFINE new == Counted(Untested(0), verdict)
  <2>1. new \in Row /\ new.plan = 0
        /\ IF verdict = "passed" THEN new.pass > 0 ELSE new.fail > 0
    BY <1>1, <1>2, OrchestrateAssumption DEF Counted, Untested, Verdict, Row
  <2>2. table' = Append(table, new) /\ row' = Len(table) + 1
        /\ verdict' = verdict
    BY <1>4 DEF Record, NewRow
  <2>3. /\ table' \in Seq(Row) /\ Len(table') = Len(table) + 1
        /\ \A i \in 1 .. Len(table) : table'[i] = table[i]
        /\ table'[row'] = new
    <3> HIDE DEF new
    <3> QED BY <1>1, <2>1, <2>2, AppendProperties
  <2>4. Rows' = 1 .. Len(table) + 1
    BY <2>3, LenProperties DEF Rows
  <2>5. Happened(row, verdict)'
    <3> HIDE DEF new
    <3> QED BY <1>1, <2>1, <2>2, <2>3, <2>4 DEF Happened
  <2>6. \A i \in Rows : /\ table'[i].pass >= table[i].pass
                        /\ table'[i].fail >= table[i].fail
                        /\ table'[i] = table[i]
    BY <1>1, <1>3, <2>3
  <2>7. \A v \in Verdict :
          (IF v = "passed" THEN new.pass > 0 ELSE new.fail > 0) => v = verdict
    BY <1>1 DEF Counted, Untested, Verdict
  <2>8. \A i \in Rows', v \in Verdict :
          Happened(i, v)' => Happened(i, v) \/ (i = row' /\ v = verdict)
    <3> HIDE DEF new
    <3> QED BY <1>1, <2>2, <2>3, <2>4, <2>7 DEF Happened
  <2>9. \A i \in Rows' : \/ table'[i].plan = 0
                         \/ i \in Rows /\ table'[i].plan = table[i].plan
    <3> HIDE DEF new
    <3> QED BY <1>1, <2>1, <2>2, <2>3, <2>4
  <2>10. row' \in Rows' /\ row' \notin Rows
    BY <1>1, <2>2, <2>4
  <2>11. table' \in Seq(Row) /\ Len(table') >= Len(table)
    BY <1>1, <2>3
  <2> HIDE DEF new
  <2> QED
    BY <1>4, <2>5, <2>6, <2>8, <2>9, <2>10, <2>11
<1>5. CASE task # "fuzz"
  <2>1. row \in Undecided /\ row' = row /\ verdict' = verdict
    BY <1>1, <1>5 DEF Record, RowIsOpen, TypeOK
  <2>2. row \in Rows /\ table[row].pass = 0 /\ table[row].fail < MaxFails
        /\ table[row] \in Row
    BY <1>3, <2>1 DEF Undecided
  <2> DEFINE new == Counted(table[row], verdict)
  <2>3. new \in Row /\ new.pass >= table[row].pass
        /\ new.plan = table[row].plan
        /\ new.fail >= table[row].fail
        /\ IF verdict = "passed" THEN new.pass > 0 ELSE new.fail > 0
    <3> DEFINE old == table[row]
    <3>1. PICK p \in 0 .. NumConfigs, f \in 0 .. MaxFails - 1 :
            old = [plan |-> p, pass |-> 0, fail |-> f]
      BY <1>2, <2>2 DEF Row
    <3>2. CASE verdict = "passed"
      <4>1. new = [plan |-> p, pass |-> 1, fail |-> f]
        BY <3>1, <3>2 DEF Counted
      <4> HIDE DEF new
      <4> QED BY <1>2, <3>1, <3>2, <4>1 DEF Row
    <3>3. CASE verdict # "passed"
      <4>1. new = [plan |-> p, pass |-> 0, fail |-> f + 1]
        BY <3>1, <3>3 DEF Counted
      <4> HIDE DEF new
      <4> QED BY <1>2, <3>1, <3>3, <4>1 DEF Row
    <3> QED BY <3>2, <3>3
  <2>4. table' = [table EXCEPT ![row] = new]
    BY <1>5 DEF Record
  <2>5. /\ table' \in Seq(Row) /\ Len(table') = Len(table)
        /\ \A i \in Rows : table'[i] = IF i = row THEN new ELSE table[i]
    <3> HIDE DEF new
    <3> QED BY <1>1, <2>2, <2>3, <2>4, ExceptSeq
  <2>6. Rows' = Rows
    BY <1>1, <2>5, LenProperties DEF Rows
  <2>7. Happened(row, verdict)'
    <3> HIDE DEF new
    <3> QED BY <2>1, <2>2, <2>3, <2>5, <2>6 DEF Happened
  <2>8. \A i \in Rows : i \notin Undecided => i # row
    BY <2>1
  <2>9. \A i \in Rows : /\ table'[i].pass >= table[i].pass
                        /\ table'[i].fail >= table[i].fail
                        /\ i \notin Undecided => table'[i] = table[i]
    <3>1. new.pass >= table[row].pass /\ new.fail >= table[row].fail
      BY <2>3
    <3> HIDE DEF new
    <3> QED BY <1>3, <2>5, <2>8, <3>1
  <2>10. \A v \in Verdict :
          (IF v = "passed" THEN new.pass > 0 ELSE new.fail > 0) =>
             v = verdict
               \/ IF v = "passed" THEN table[row].pass > 0
                                 ELSE table[row].fail > 0
    BY <1>1, <2>2 DEF Counted, Verdict, Row
  <2>11. \A i \in Rows', v \in Verdict :
          Happened(i, v)' => Happened(i, v) \/ (i = row' /\ v = verdict)
    <3> HIDE DEF new
    <3> QED BY <1>1, <2>1, <2>2, <2>5, <2>6, <2>10 DEF Happened
  <2>12. \A i \in Rows' : i \in Rows /\ table'[i].plan = table[i].plan
    <3>1. new.plan = table[row].plan
      BY <2>3
    <3> HIDE DEF new
    <3> QED BY <2>5, <2>6, <3>1
  <2> QED
    BY <1>1, <1>5, <2>1, <2>2, <2>5, <2>6, <2>7, <2>9, <2>11, <2>12
<1> QED
  BY <1>4, <1>5

\* The same when a plan is generated.
LEMMA GenerateEffect ==
  ASSUME TypeOK, Generate
  PROVE  /\ table' \in Seq(Row) /\ Len(table') = Len(table) + 1
         /\ \A i \in Rows : table'[i] = table[i]
         /\ table'[Len(table) + 1] = Untested(next)
         /\ Rows' = 1 .. Len(table) + 1
<1> DEFINE new == Untested(next)
<1>1. new \in Row
  <2>1. next \in 0 .. NumConfigs
    BY DEF TypeOK
  <2> QED
    BY <2>1, OrchestrateAssumption DEF Row, Untested
<1>2. table \in Seq(Row) /\ Rows = 1 .. Len(table)
  BY TableIsSeq
<1>3. table' = Append(table, new)
  BY DEF Generate
<1>4. /\ table' \in Seq(Row) /\ Len(table') = Len(table) + 1
      /\ \A i \in 1 .. Len(table) : table'[i] = table[i]
      /\ table'[Len(table) + 1] = new
  <2> HIDE DEF new
  <2> QED BY <1>1, <1>2, <1>3, AppendProperties
<1> QED
  BY <1>2, <1>4, LenProperties DEF Rows

-----------------------------------------------------------------------------
LEMMA TypeInit == Init => TypeOK
BY OrchestrateAssumption
DEF Init, TypeOK, Rows, Verdict, Command

\* The suffix of a log.
LEMMA SuffixType == Suffix \in {"", "_pass", "_fail"}
BY DEF Suffix

\* What writing a log leaves and adds.
LEMMA WrittenLogs ==
  ASSUME NEW content, NEW f \in Written(content)
  PROVE  f \in logs \/ (f.row = row /\ f.content = content)
BY DEF Written

LEMMA TypeStep == TypeOK /\ RowIsOpen /\ RecordedIsCounted /\ Next => TypeOK'
<1> SUFFICES ASSUME TypeOK, RowIsOpen, RecordedIsCounted, Next
             PROVE  TypeOK'
  OBVIOUS
<1> USE DEF Command, Verdict
<1>0. table \in Seq(Row) /\ Rows = 1 .. Len(table) /\ Len(table) \in Nat
  BY TableIsSeq
<1>1. ASSUME table' = table, logs' = logs
      PROVE  /\ table' \in Seq(Row)
             /\ logs' \subseteq [row : Rows', suffix : {"", "_pass", "_fail"},
                                 content : Verdict \cup {"partial"}]
             /\ Rows' = Rows
  BY <1>1 DEF TypeOK, Rows, Row
<1>2. CASE \E c \in Command : Start(c)
  BY <1>1, <1>2 DEF Start, TypeOK, Row
<1>3. CASE FuzzOne
  BY <1>1, <1>3 DEF FuzzOne, TypeOK, Row
<1>4. CASE DeflakeOne
  BY <1>1, <1>4 DEF DeflakeOne, TypeOK, Undecided, Row
<1>5. CASE NothingToDeflake
  BY <1>1, <1>5 DEF NothingToDeflake, NextCall, TypeOK, Row
<1>6. CASE Count
  <2>1. next' \in 0 .. NumConfigs
    BY <1>6, OrchestrateAssumption DEF Count
  <2> QED
    BY <1>1, <1>6, <2>1 DEF Count, TypeOK, Row
<1>7. CASE Generate
  <2>1. /\ table' \in Seq(Row)
        /\ Rows \subseteq Rows'
    BY <1>0, <1>7, GenerateEffect
  <2>2. next' \in 0 .. NumConfigs /\ pc' \in {"generate", "deflake"}
    <3>1. next \in 0 .. NumConfigs /\ NumConfigs \in Nat
      BY OrchestrateAssumption DEF TypeOK
    <3> QED
      BY <1>7, <3>1 DEF Generate
  <2> QED
    BY <1>7, <2>1, <2>2 DEF Generate, TypeOK, Row
<1>8. CASE \E v \in Verdict : Judge(v)
  BY <1>1, <1>8 DEF Judge, TypeOK, Row
<1>9. CASE ServerDies
  BY <1>1, <1>9 DEF ServerDies, TypeOK, Row
<1>10. CASE Record
  <2>1. /\ table' \in Seq(Row) /\ Len(table') >= Len(table) /\ row' \in Rows'
        /\ Rows' = 1 .. Len(table') /\ Len(table') \in Nat
    BY <1>10, RecordEffect, LenProperties DEF Rows
  <2>2. Rows \subseteq Rows'
    BY <1>0, <2>1
  <2> QED
    BY <1>10, <2>1, <2>2 DEF Record, TypeOK, Row
<1>11. ASSUME NEW content \in Verdict \cup {"partial"},
              row \in Rows, logs' = Written(content), table' = table
       PROVE  logs' \subseteq [row : Rows', suffix : {"", "_pass", "_fail"},
                               content : Verdict \cup {"partial"}]
  <2>1. [row |-> row, suffix |-> Suffix, content |-> content]
          \in [row : Rows', suffix : {"", "_pass", "_fail"},
              content : Verdict \cup {"partial"}]
    BY <1>11, SuffixType DEF Rows
  <2> QED
    BY <1>1, <1>11, <2>1 DEF Written, TypeOK, Rows
<1>12. CASE OpenLog
  <2>1. row \in Rows /\ logs' = Written("partial") /\ table' = table
    BY <1>12 DEF OpenLog, RecordedIsCounted, Happened
  <2> QED
    BY <1>11, <1>12, <2>1 DEF OpenLog, TypeOK, Rows, Row
<1>13. CASE WriteLog
  <2>1. row \in Rows /\ logs' = Written(verdict) /\ table' = table
    BY <1>13 DEF WriteLog, RecordedIsCounted, Happened
  <2> QED
    BY <1>11, <1>13, <2>1 DEF WriteLog, NextCall, TypeOK, Rows, Row
<1>14. CASE Kill
  <2>1. kills \in 0 .. MaxKills /\ MaxKills \in Nat
    BY OrchestrateAssumption DEF TypeOK
  <2>2. kills < MaxKills /\ kills' = kills + 1
    BY <1>14 DEF Kill
  <2>3. kills' \in 0 .. MaxKills
    BY <2>1, <2>2
  <2>4. next' \in 0 .. NumConfigs
    BY <1>14, OrchestrateAssumption DEF Kill
  <2> QED
    BY <1>1, <1>14, <2>3, <2>4 DEF Kill, TypeOK, Row
<1>15. CASE Exit
  BY <1>1, <1>15 DEF Exit, TypeOK, Row
<1> QED
  BY <1>2, <1>3, <1>4, <1>5, <1>6, <1>7, <1>8, <1>9, <1>10, <1>12, <1>13,
     <1>14, <1>15 DEF Next, Step

-----------------------------------------------------------------------------
LEMMA InitIInv == Init => IInv
BY TypeInit, OrchestrateAssumption
DEF Init, IInv, RowIsOpen, RecordedIsCounted, PlansInPlace, ReproduceHasAll,
    LogsAreCounted, LogsFit, Rows

LEMMA RowIsOpenStep == TypeOK /\ RowIsOpen /\ Next => RowIsOpen'
<1> SUFFICES ASSUME TypeOK, RowIsOpen, Next,
                    pc' \in {"run", "judged"}, task' = "deflake"
             PROVE  row' \in Undecided'
  BY DEF RowIsOpen
<1>1. CASE DeflakeOne
  BY <1>1 DEF DeflakeOne, Undecided, Rows
<1>2. CASE \E v \in Verdict : Judge(v)
  BY <1>2 DEF Judge, RowIsOpen, Undecided, Rows
<1>3. CASE ~ DeflakeOne /\ ~ \E v \in Verdict : Judge(v)
  BY <1>3 DEF Next, Step, Start, Command, FuzzOne, NothingToDeflake, NextCall,
              Count, Generate, ServerDies, Record, OpenLog, WriteLog, Kill, Exit
<1> QED
  BY <1>1, <1>2, <1>3

LEMMA RecordedIsCountedStep ==
  TypeOK /\ RowIsOpen /\ RecordedIsCounted /\ Next => RecordedIsCounted'
<1> SUFFICES ASSUME TypeOK, RowIsOpen, RecordedIsCounted, Next,
                    pc' \in {"recorded", "dumping"}
             PROVE  Happened(row, verdict)'
  BY DEF RecordedIsCounted
<1>1. CASE Record
  BY <1>1, RecordEffect
<1>2. CASE OpenLog
  BY <1>2 DEF OpenLog, RecordedIsCounted, Happened, Rows
<1>3. CASE ~ Record /\ ~ OpenLog
  BY <1>3 DEF Next, Step, Start, Command, FuzzOne, DeflakeOne,
              NothingToDeflake, NextCall, Count, Generate, Judge, ServerDies,
              WriteLog, Kill, Exit
<1> QED
  BY <1>1, <1>2, <1>3

LEMMA ReproduceHasAllStep ==
  TypeOK /\ RowIsOpen /\ PlansInPlace /\ ReproduceHasAll /\ Next
    => ReproduceHasAll'
<1> SUFFICES ASSUME TypeOK, RowIsOpen, PlansInPlace, ReproduceHasAll, Next
             PROVE  ReproduceHasAll'
  OBVIOUS
<1> USE DEF ReproduceHasAll
<1>1. CASE Generate
  <2>1. Len(table') = Len(table) + 1 /\ Len(table) \in Nat
    BY <1>1, GenerateEffect, TableIsSeq
  <2>2. NumConfigs \in Nat
    BY OrchestrateAssumption
  <2>3. next = Len(table) + 1
    BY <1>1 DEF Generate, PlansInPlace
  <2> QED
    BY <1>1, <2>1, <2>2, <2>3 DEF Generate
<1>2. CASE Count
  <2>1. table = <<>> => Len(table) = 0
    OBVIOUS
  <2> QED
    BY <1>2, <2>1, OrchestrateAssumption DEF Count, Resumable
<1>3. CASE Record
  <2>1. Len(table') = Len(table) \/ task = "fuzz"
    BY <1>3, RecordEffect
  <2> QED
    BY <1>3, <2>1 DEF Record
<1>4. CASE NothingToDeflake
  BY <1>4 DEF NothingToDeflake, NextCall, TypeOK, Command, Undecided, Rows
<1>5. CASE WriteLog
  BY <1>5 DEF WriteLog, NextCall, TypeOK, Command
<1>6. CASE ~ (Generate \/ Count \/ Record \/ NothingToDeflake \/ WriteLog)
  BY <1>6 DEF Next, Step, Start, Command, FuzzOne, DeflakeOne, Judge,
              ServerDies, OpenLog, Kill, Exit
<1> QED
  BY <1>1, <1>2, <1>3, <1>4, <1>5, <1>6

\* A row keeps its plan, and a new one is of fuzz or the next of reproduce.
LEMMA PlansInPlaceStep ==
  TypeOK /\ RowIsOpen /\ PlansInPlace /\ Next => PlansInPlace'
<1> SUFFICES ASSUME TypeOK, RowIsOpen, PlansInPlace, Next PROVE PlansInPlace'
  OBVIOUS
<1>1. CASE Generate
  <2>1. /\ Rows = 1 .. Len(table) /\ Rows' = 1 .. Len(table) + 1
        /\ Len(table) \in Nat /\ Len(table') = Len(table) + 1
        /\ \A i \in Rows : table'[i] = table[i]
        /\ table'[Len(table) + 1] = Untested(next)
    BY <1>1, GenerateEffect, TableIsSeq
  <2>2. next = Len(table) + 1
    BY <1>1 DEF Generate, PlansInPlace
  <2>3. \A i \in Rows' : table'[i].plan \in {0, i}
    BY <2>1, <2>2 DEF PlansInPlace, Untested
  <2>4. pc' = "generate" => next' = next + 1
    BY <1>1 DEF Generate
  <2> QED
    BY <2>1, <2>2, <2>3, <2>4 DEF PlansInPlace
<1>2. CASE Record
  BY <1>2, RecordEffect DEF Record, PlansInPlace
<1>3. CASE Count
  <2>1. table = <<>> => Len(table) = 0
    OBVIOUS
  <2> QED
    BY <1>3, <2>1 DEF Count, PlansInPlace, Rows
<1>4. CASE ~ (Generate \/ Record \/ Count)
  <2>1. table' = table /\ pc' # "generate"
    BY <1>4 DEF Next, Step, Start, Command, FuzzOne, DeflakeOne,
                NothingToDeflake, NextCall, Judge, ServerDies, OpenLog,
                WriteLog, Kill, Exit
  <2> QED
    BY <2>1 DEF PlansInPlace, Rows
<1> QED
  BY <1>1, <1>2, <1>3, <1>4

LEMMA LogsAreCountedStep ==
  TypeOK /\ RowIsOpen /\ RecordedIsCounted /\ LogsAreCounted /\ Next
    => LogsAreCounted'
<1> SUFFICES ASSUME TypeOK, RowIsOpen, RecordedIsCounted, LogsAreCounted, Next,
                    NEW f \in logs', f.content \in Verdict
             PROVE  Happened(f.row, f.content)'
  BY DEF LogsAreCounted
<1>0. ASSUME logs' = logs PROVE Happened(f.row, f.content)
  BY <1>0 DEF LogsAreCounted
<1>1. CASE Generate \/ Record
  <2>1. /\ table' \in Seq(Row) /\ Len(table') >= Len(table)
        /\ \A i \in Rows : /\ table'[i].pass >= table[i].pass
                            /\ table'[i].fail >= table[i].fail
    <3>1. CASE Record
      BY <3>1, RecordEffect
    <3>2. CASE Generate
      <4>1. \A i \in Rows : table[i].pass \in Int /\ table[i].fail \in Int
        BY TableIsSeq DEF Row
      <4> QED
        BY <3>2, <4>1, GenerateEffect, TableIsSeq
    <3> QED
      BY <1>1, <3>1, <3>2
  <2>2. Happened(f.row, f.content)
    BY <1>0, <1>1 DEF Generate, Record
  <2> QED
    BY <2>1, <2>2, TableIsSeq, CountsGrow
<1>2. CASE OpenLog
  BY <1>2, WrittenLogs
  DEF OpenLog, LogsAreCounted, Verdict, Happened, Rows
<1>3. CASE WriteLog
  BY <1>3, WrittenLogs
  DEF WriteLog, LogsAreCounted, RecordedIsCounted, Happened, Rows
<1>4. CASE ~ (Generate \/ Record \/ OpenLog \/ WriteLog)
  <2>1. logs' = logs /\ table' = table
    BY <1>4 DEF Next, Step, Start, FuzzOne, DeflakeOne, NothingToDeflake, Count,
                Judge, ServerDies, Kill, Exit
  <2> QED
    BY <1>0, <2>1 DEF Happened, Rows
<1> QED
  BY <1>1, <1>2, <1>3, <1>4

LEMMA LogsFitStep == TypeOK /\ RowIsOpen /\ LogsFit /\ Next => LogsFit'
<1> SUFFICES ASSUME TypeOK, RowIsOpen, LogsFit, Next PROVE LogsFit'
  OBVIOUS
<1>1. CASE Record
  <2>1. task = "fuzz" => \A f \in logs : f.row # row'
    BY <1>1, RecordEffect DEF TypeOK
  <2> QED
    BY <1>1, <2>1 DEF Record, LogsFit
<1>2. CASE OpenLog
  <2>1. Suffix' = Suffix
    BY <1>2 DEF OpenLog, Suffix
  <2> QED
    BY <1>2, <2>1 DEF OpenLog, Written, LogsFit, Verdict
<1>3. CASE WriteLog
  <2>1. Suffix = "_pass" => verdict = "passed"
    BY DEF Suffix
  <2>2. Suffix = "_fail" => verdict = "failed"
    BY DEF Suffix, TypeOK, Verdict
  <2>3. pc' \notin {"recorded", "dumping"}
    BY <1>3 DEF WriteLog, NextCall
  <2> QED
    BY <1>3, <2>1, <2>2, <2>3 DEF WriteLog, Written, LogsFit
<1>4. CASE ~ (Record \/ OpenLog \/ WriteLog)
  <2>1. logs' = logs /\ pc' \notin {"recorded", "dumping"}
    BY <1>4 DEF Next, Step, Start, Command, FuzzOne, DeflakeOne,
                NothingToDeflake, NextCall, Count, Generate, Judge, ServerDies,
                Kill, Exit
  <2> QED
    BY <2>1 DEF LogsFit
<1> QED
  BY <1>1, <1>2, <1>3, <1>4

LEMMA StepIInv == IInv /\ [Next]_vars => IInv'
<1>1. CASE Next
  BY <1>1, TypeStep, RowIsOpenStep, RecordedIsCountedStep, PlansInPlaceStep,
     ReproduceHasAllStep, LogsAreCountedStep, LogsFitStep
  DEF IInv
<1>2. CASE UNCHANGED vars
  BY <1>2 DEF vars, IInv, TypeOK, RowIsOpen, RecordedIsCounted,
              PlansInPlace, ReproduceHasAll, LogsAreCounted, LogsFit, Rows,
              Undecided,
              Happened, Suffix
<1> QED
  BY <1>1, <1>2

\* The invariant of table, logs and the place the process is at.
THEOREM Invariance == Spec => []IInv
<1> QED
  BY InitIInv, StepIInv, PTL DEF Spec

\* Every variable holds what the code may store in it; the counts of a row never
\* exceed one pass and MaxFails failures (orchestrate.py:128-174).
THEOREM TypeCorrect == Spec => []TypeOK
<1>1. IInv => TypeOK
  BY DEF IInv
<1> QED
  BY <1>1, Invariance, PTL

\* A log never shows a verdict that the table does not count for its row
\* (orchestrate.py:134-141).
THEOREM LogsCounted == Spec => []LogsAreCounted
<1>1. IInv => LogsAreCounted
  BY DEF IInv
<1> QED
  BY <1>1, Invariance, PTL

\* When reproduce is done no row is left to run.
LEMMA DoneDecided ==
  IInv /\ pc = "done" =>
    /\ Len(table) = NumConfigs
    /\ \A i \in Rows : table[i].pass > 0 \/ table[i].fail = MaxFails
<1> SUFFICES ASSUME IInv, pc = "done"
             PROVE  /\ Len(table) = NumConfigs
                    /\ \A i \in Rows : table[i].pass > 0
                                      \/ table[i].fail = MaxFails
  OBVIOUS
<1>1. Len(table) = NumConfigs /\ Undecided = {}
  BY DEF IInv, ReproduceHasAll
<1>2. \A i \in Rows : table[i] \in Row
  BY TableIsSeq DEF IInv
<1> QED
  BY <1>1, <1>2, OrchestrateAssumption DEF Undecided, Row

\* When reproduce is done it has a decision on each of its plans, wherever its
\* generation was cut, unless fuzz wrote to the table (orchestrate.py:204-219):
\* there are as many rows as plans, and each plan can only be in its own row.
THEOREM Complete == Spec => []DoneIsComplete
<1>1. IInv => DoneIsComplete
  <2> SUFFICES ASSUME IInv, pc = "done", \A i \in Rows : table[i].plan # 0
               PROVE  /\ Len(table) = NumConfigs
                      /\ \A i \in Rows : table[i].pass > 0
                                        \/ table[i].fail = MaxFails
                      /\ \A n \in 1 .. NumConfigs :
                           \E i \in Rows : table[i].plan = n
    BY DoneDecided DEF DoneIsComplete
  <2>1. Rows = 1 .. NumConfigs
    BY DoneDecided, TableIsSeq DEF IInv
  <2>2. \A i \in Rows : table[i].plan = i
    BY DEF IInv, PlansInPlace
  <2> QED
    BY <2>1, <2>2, DoneDecided
<1> QED
  BY <1>1, Invariance, PTL

\* The row of a decided plan is final (orchestrate.py:157-174).
THEOREM Final == Spec => DecidedIsFinal
<1> DEFINE Stays == \A i \in Rows : table[i].pass > 0 \/ table[i].fail = MaxFails
                                   => table'[i] = table[i]
<1>1. IInv /\ [Next]_vars => [Stays]_vars
  <2> SUFFICES ASSUME IInv, Next PROVE Stays
    OBVIOUS
  <2>1. CASE Generate
    BY <2>1, GenerateEffect DEF IInv
  <2>2. CASE Record
    <3>1. \A i \in Rows : table[i].pass > 0 \/ table[i].fail = MaxFails
                            => i \notin Undecided
      <4>1. \A i \in Rows : table[i] \in Row
        BY TableIsSeq DEF IInv
      <4> QED
        BY <4>1, OrchestrateAssumption DEF Undecided, Row
    <3> QED
      BY <2>2, <3>1, RecordEffect DEF IInv
  <2>3. CASE ~ Generate /\ ~ Record
    BY <2>3 DEF Next, Step, Start, FuzzOne, DeflakeOne, NothingToDeflake, Count,
                Judge, ServerDies, OpenLog, WriteLog, Kill, Exit
  <2> QED
    BY <2>1, <2>2, <2>3
<1> QED
  BY <1>1, Invariance, PTL DEF Spec, DecidedIsFinal

-----------------------------------------------------------------------------
(***************************************************************************)
(* KillLosesOneLog: only a kill adds to the verdicts that no log shows.    *)
(***************************************************************************)

\* A pair is missing when it is counted, not about to be written, and not shown.
LEMMA MissingPair ==
  ASSUME NEW x
  PROVE  x \in Missing <=>
           /\ x \in Rows \X Verdict /\ x \notin Unwritten
           /\ Happened(x[1], x[2]) /\ ~ Evidence(x[1], x[2])
BY DEF Missing

\* Every pair that is missing after a step was missing before, unless the step
\* is a kill.
LEMMA MissingStep ==
  ASSUME IInv, Next
  PROVE  \/ Missing' \subseteq Missing /\ kills' = kills
         \/ Missing' \subseteq Missing \cup {<<row, verdict>>}
              /\ kills' = kills + 1
<1>0. \A x \in Missing' :
        /\ x \in Rows' \X Verdict /\ x \notin Unwritten'
        /\ Happened(x[1], x[2])' /\ ~ Evidence(x[1], x[2])'
        /\ x = <<x[1], x[2]>> /\ x[1] \in Rows' /\ x[2] \in Verdict
  BY DEF Missing
<1>1. CASE Record
  <2>1. \A i \in Rows', v \in Verdict :
          Happened(i, v)' => Happened(i, v) \/ (i = row' /\ v = verdict)
    BY <1>1, RecordEffect DEF IInv
  <2>2. Unwritten = {} /\ Unwritten' = {<<row', verdict>>} /\ logs' = logs
        /\ kills' = kills
    BY <1>1 DEF Record, Unwritten
  <2>3. \A x \in Missing' : x \in Missing
    BY <1>0, <2>1, <2>2 DEF Missing, Evidence, Happened
  <2> QED
    BY <2>2, <2>3
<1>2. CASE Generate
  <2>1. \A i \in Rows : table'[i] = table[i]
    BY <1>2, GenerateEffect DEF IInv
  <2>2. Rows' = 1 .. Len(table) + 1 /\ Rows = 1 .. Len(table)
        /\ Len(table) \in Nat
    BY <1>2, GenerateEffect, TableIsSeq DEF IInv
  <2>3. /\ table'[Len(table) + 1].pass = 0
        /\ table'[Len(table) + 1].fail = 0
    BY <1>2, GenerateEffect DEF IInv, Untested
  <2>4. Unwritten = {} /\ logs' = logs /\ kills' = kills
    BY <1>2 DEF Generate, Unwritten
  <2>5. \A i \in Rows' : \A v : Happened(i, v)' => i \in Rows /\ Happened(i, v)
    BY <2>1, <2>2, <2>3 DEF Happened
  <2>6. \A x \in Missing' : x \in Missing
    BY <1>0, <2>4, <2>5 DEF Missing, Evidence
  <2> QED
    BY <2>4, <2>6
<1>3. CASE OpenLog
  <2>1. Rows' = Rows /\ (\A i, v : Happened(i, v)' <=> Happened(i, v))
        /\ Unwritten' = Unwritten /\ Unwritten = {<<row, verdict>>}
        /\ kills' = kills
    BY <1>3 DEF OpenLog, Rows, Happened, Unwritten
  <2>2. ASSUME NEW x \in Missing', NEW f \in logs,
               f.row = x[1], f.content = x[2]
        PROVE  FALSE
    <3>1. f \notin logs'
      BY <1>0, <2>2 DEF Evidence
    <3>2. f.row = row /\ f.suffix = Suffix
      BY <1>3, <3>1 DEF OpenLog, Written
    <3>3. task = "deflake"
      BY <1>3, <3>2 DEF OpenLog, IInv, LogsFit, TypeOK
    <3>4. f.content = verdict
      BY <1>0, <2>2, <3>2, <3>3 DEF Suffix, IInv, LogsFit, TypeOK, Verdict
    <3> QED
      BY <1>0, <2>1, <2>2, <3>2, <3>4
  <2>3. \A x \in Missing' : x \in Missing
    BY <1>0, <2>1, <2>2 DEF Missing, Evidence
  <2> QED
    BY <2>1, <2>3
<1>4. CASE WriteLog
  <2>1. Rows' = Rows /\ (\A i, v : Happened(i, v)' <=> Happened(i, v))
        /\ Unwritten = {<<row, verdict>>} /\ kills' = kills
    BY <1>4 DEF WriteLog, Rows, Happened, Unwritten
  <2>2. ASSUME NEW x \in Missing' PROVE x \notin Unwritten
    <3> DEFINE new == [row |-> row, suffix |-> Suffix, content |-> verdict]
    <3>1. new \in logs' /\ new.row = row /\ new.content = verdict
      BY <1>4 DEF WriteLog, Written
    <3> HIDE DEF new
    <3> QED
      BY <1>0, <2>1, <3>1 DEF Evidence
  <2>3. ASSUME NEW x \in Missing', NEW f \in logs,
               f.row = x[1], f.content = x[2]
        PROVE  FALSE
    <3>1. f \notin logs'
      BY <1>0, <2>3 DEF Evidence
    <3>2. f.row = row /\ f.suffix = Suffix
      BY <1>4, <3>1 DEF WriteLog, Written
    <3>3. f.content = "partial"
      BY <1>4, <3>2 DEF WriteLog, IInv, LogsFit
    <3> QED
      BY <1>0, <2>3, <3>3 DEF Verdict
  <2>4. \A x \in Missing' : x \in Missing
    BY <1>0, <2>1, <2>2, <2>3 DEF Missing, Evidence
  <2> QED
    BY <2>1, <2>4
<1>5. CASE Kill
  <2>1. Rows' = Rows /\ (\A i, v : Happened(i, v)' <=> Happened(i, v))
        /\ logs' = logs /\ kills' = kills + 1
        /\ Unwritten \subseteq {<<row, verdict>>}
    BY <1>5 DEF Kill, Rows, Happened, Unwritten
  <2>2. \A x \in Missing' : x \in Missing \cup {<<row, verdict>>}
    BY <1>0, <2>1 DEF Missing, Evidence
  <2> QED
    BY <2>1, <2>2
<1>6. CASE ~ (Record \/ Generate \/ OpenLog \/ WriteLog \/ Kill)
  <2>1. table' = table /\ logs' = logs /\ kills' = kills /\ Unwritten = {}
    BY <1>6 DEF Next, Step, Start, FuzzOne, DeflakeOne, NothingToDeflake, Count,
                Judge, ServerDies, Exit, Unwritten
  <2>2. \A x \in Missing' : x \in Missing
    BY <1>0, <2>1 DEF Missing, Evidence, Happened, Rows
  <2> QED
    BY <2>1, <2>2
<1> QED
  BY <1>1, <1>2, <1>3, <1>4, <1>5, <1>6

LEMMA FewMissingStep == IInv /\ FewMissing /\ [Next]_vars => FewMissing'
<1> SUFFICES ASSUME IInv, FewMissing, [Next]_vars PROVE FewMissing'
  OBVIOUS
<1>1. kills \in Nat
  <2>1. kills \in 0 .. MaxKills
    BY DEF IInv, TypeOK
  <2> QED
    BY <2>1
<1>2. CASE Missing' \subseteq Missing /\ kills' = kills
  BY <1>1, <1>2, FS_Subset, FS_CardinalityType DEF FewMissing
<1>3. CASE Missing' \subseteq Missing \cup {<<row, verdict>>}
             /\ kills' = kills + 1
  <2> DEFINE more == Missing \cup {<<row, verdict>>}
  <2>1. IsFiniteSet(more) /\ Cardinality(more) <= kills + 1
        /\ Cardinality(more) \in Nat
    <3>1. IsFiniteSet(more) /\ Cardinality(Missing) \in Nat
          /\ \/ Cardinality(more) = Cardinality(Missing)
             \/ Cardinality(more) = Cardinality(Missing) + 1
      BY FS_AddElement, FS_CardinalityType DEF FewMissing
    <3> HIDE DEF more
    <3> QED
      BY <1>1, <3>1 DEF FewMissing
  <2>2. IsFiniteSet(Missing') /\ Cardinality(Missing') <= Cardinality(more)
        /\ Cardinality(Missing') \in Nat
    <3> HIDE DEF more
    <3>1. Missing' \subseteq more
      BY <1>3 DEF more
    <3> QED
      BY <2>1, <3>1, FS_Subset, FS_CardinalityType
  <2> QED
    <3> HIDE DEF more
    <3> QED BY <1>1, <1>3, <2>1, <2>2 DEF FewMissing
<1>4. CASE UNCHANGED vars
  <2>1. Missing' = Missing /\ kills' = kills
    BY <1>4 DEF vars, Missing, Rows, Unwritten, Happened, Evidence
  <2> QED
    BY <2>1 DEF FewMissing
<1> QED
  BY <1>2, <1>3, <1>4, MissingStep

\* Each kind of verdict counted for a plan has a log that shows it, but for one
\* lost with each kill (orchestrate.py:134-141, 170-175).
THEOREM OneLogPerKill == Spec => []KillLosesOneLog
<1>1. Init => FewMissing
  <2>1. Init => Missing = {} /\ kills = 0
    BY DEF Init, Missing, Rows
  <2> QED
    BY <2>1, FS_EmptySet DEF FewMissing
<1>2. FewMissing => KillLosesOneLog
  BY DEF FewMissing, KillLosesOneLog
<1> QED
  BY <1>1, <1>2, FewMissingStep, Invariance, PTL DEF Spec
=============================================================================
