------------------------- MODULE BaselineRuns_proofs -------------------------
(***************************************************************************)
(* Proofs about BaselineRuns, for every number of runs and of kills.       *)
(***************************************************************************)
EXTENDS BaselineRuns, FiniteSetTheorems, TLAPS

\* The totals of a process count runs before i, and run i once it is judged.
TotalsFit ==
  /\ pc \in {"run", "spins", "counted", "dumping"} => i \in Run
  /\ pc \in {"check", "run", "spins", "done"} => total <= i
  /\ pc \in {"counted", "dumping"} => total <= i + 1

\* Below i every run has a file; run i gets its file when it is dumped.
FilesFit ==
  /\ pc # "off" => \A k \in Run : k < i => file[k] # "none"
  /\ pc \in {"run", "spins", "counted"} => file[i] = "none"
  /\ pc = "dumping" => file[i] = "partial"

\* The runs whose log was cut off by a kill.
Spoiled == IF pc = "dumping" THEN Partial \ {i} ELSE Partial

FewSpoiled == Cardinality(Spoiled) <= kills

\* The invariant: kept by every step, and enough for the properties.
IInv == TypeOK /\ TotalsFit /\ FilesFit /\ FewSpoiled

-----------------------------------------------------------------------------
LEMMA PartialFinite ==
  /\ IsFiniteSet(Partial)
  /\ \A S : S \subseteq Partial =>
       /\ IsFiniteSet(S) /\ Cardinality(S) \in Nat
       /\ Cardinality(S) <= Cardinality(Partial)
<1>1. IsFiniteSet(Run)
  BY BaselineAssumption, FS_Interval DEF Run
<1>2. IsFiniteSet(Partial)
  BY <1>1, FS_Subset DEF Partial
<1> QED
  BY <1>2, FS_Subset, FS_CardinalityType

LEMMA InitIInv == Init => IInv
<1> SUFFICES ASSUME Init PROVE IInv
  OBVIOUS
<1> USE DEF Init
<1>1. Spoiled = {} /\ kills = 0
  BY DEF Spoiled, Partial
<1>2. FewSpoiled
  BY <1>1, FS_EmptySet DEF FewSpoiled
<1> QED
  BY <1>2, BaselineAssumption DEF IInv, TypeOK, TotalsFit, FilesFit, Run

\* Types, totals and files, step by step.
LEMMA FilesStep ==
  TypeOK /\ TotalsFit /\ FilesFit /\ Next => TypeOK' /\ TotalsFit' /\ FilesFit'
<1> SUFFICES ASSUME TypeOK, TotalsFit, FilesFit, Next
             PROVE  TypeOK' /\ TotalsFit' /\ FilesFit'
  OBVIOUS
<1> USE BaselineAssumption DEF TypeOK, TotalsFit, FilesFit, Run
<1>1. CASE Start
  BY <1>1 DEF Start
<1>2. CASE Skip
  BY <1>2 DEF Skip, Processed
<1>3. CASE RunBaseline
  BY <1>3 DEF RunBaseline, Processed
<1>4. CASE Judge
  BY <1>4 DEF Judge
<1>5. CASE ServerDies
  BY <1>5 DEF ServerDies
<1>6. CASE OpenLog
  BY <1>6 DEF OpenLog
<1>7. CASE WriteLog
  BY <1>7 DEF WriteLog
<1>8. CASE Finish
  BY <1>8 DEF Finish
<1>9. CASE Kill
  BY <1>9 DEF Kill
<1> QED
  BY <1>1, <1>2, <1>3, <1>4, <1>5, <1>6, <1>7, <1>8, <1>9 DEF Next, Step

\* A kill while run i is dumped spoils run i; nothing else spoils a log.
LEMMA SpoiledStep ==
  ASSUME IInv, Next
  PROVE  \/ Spoiled' \subseteq Spoiled /\ kills' = kills
         \/ Spoiled' \subseteq Spoiled \cup {i} /\ kills' = kills + 1
<1>1. CASE OpenLog
  BY <1>1 DEF OpenLog, Spoiled, Partial, IInv, TypeOK
<1>2. CASE WriteLog
  BY <1>2 DEF WriteLog, Spoiled, Partial, IInv, TypeOK
<1>3. CASE Kill
  BY <1>3 DEF Kill, Spoiled, Partial
<1>4. CASE ~ OpenLog /\ ~ WriteLog /\ ~ Kill
  BY <1>4 DEF Next, Step, Start, Skip, RunBaseline, Judge, ServerDies, Finish,
              Spoiled, Partial
<1> QED
  BY <1>1, <1>2, <1>3, <1>4

LEMMA FewSpoiledStep == IInv /\ [Next]_vars => FewSpoiled'
<1> SUFFICES ASSUME IInv, [Next]_vars PROVE FewSpoiled'
  OBVIOUS
<1>1. kills \in Nat
  <2>1. kills \in 0 .. MaxKills
    BY DEF IInv, TypeOK
  <2> QED
    BY <2>1
<1>2. IsFiniteSet(Spoiled) /\ Cardinality(Spoiled) \in Nat
      /\ Cardinality(Spoiled) <= kills
  BY PartialFinite DEF IInv, FewSpoiled, Spoiled
<1>3. CASE Spoiled' \subseteq Spoiled /\ kills' = kills
  BY <1>1, <1>2, <1>3, FS_Subset, FS_CardinalityType DEF FewSpoiled
<1>4. CASE Spoiled' \subseteq Spoiled \cup {i} /\ kills' = kills + 1
  <2> DEFINE more == Spoiled \cup {i}
  <2>1. IsFiniteSet(more)
        /\ \/ Cardinality(more) = Cardinality(Spoiled)
           \/ Cardinality(more) = Cardinality(Spoiled) + 1
    BY <1>2, FS_AddElement
  <2>2. Spoiled' \subseteq more
    BY <1>4
  <2> HIDE DEF more
  <2>3. Cardinality(Spoiled') <= Cardinality(more)
        /\ Cardinality(Spoiled') \in Nat
    BY <2>1, <2>2, FS_Subset, FS_CardinalityType
  <2> QED
    BY <1>1, <1>2, <1>4, <2>1, <2>3 DEF FewSpoiled
<1>5. CASE UNCHANGED vars
  <2>1. Spoiled' = Spoiled /\ kills' = kills
    BY <1>5 DEF vars, Spoiled, Partial
  <2> QED
    BY <1>2, <2>1 DEF FewSpoiled
<1> QED
  BY <1>3, <1>4, <1>5, SpoiledStep

LEMMA StepIInv == IInv /\ [Next]_vars => IInv'
<1>1. IInv /\ Next => TypeOK' /\ TotalsFit' /\ FilesFit'
  BY FilesStep DEF IInv
<1>2. IInv /\ UNCHANGED vars => TypeOK' /\ TotalsFit' /\ FilesFit'
  BY DEF vars, IInv, TypeOK, TotalsFit, FilesFit
<1> QED
  BY <1>1, <1>2, FewSpoiledStep DEF IInv

\* The invariant of the totals, the files and the place the process is at.
THEOREM Invariance == Spec => []IInv
<1> QED
  BY InitIInv, StepIInv, PTL DEF Spec

\* The totals are those of one start of the process and stay within the runs
\* (baseline.py:38-55).
THEOREM TypeCorrect == Spec => []TypeOK
<1>1. IInv => TypeOK
  BY DEF IInv
<1> QED
  BY <1>1, Invariance, PTL

\* Starting again repeats no finished run and each kill spoils one log at most
\* (baseline.py:43-47, 57-60).
THEOREM OneLogPerKill == Spec => []KillSpoilsOneLog
<1>1. IInv => KillSpoilsOneLog
  BY DEF IInv, FilesFit, FewSpoiled, Spoiled, KillSpoilsOneLog
<1> QED
  BY <1>1, Invariance, PTL

\* No log that was written to its end is opened again (baseline.py:44-47).
THEOREM Kept == Spec => LogsAreKept
<1>1. IInv /\ [Next]_vars => [Complete \subseteq Complete']_vars
  <2> SUFFICES ASSUME IInv, Next PROVE Complete \subseteq Complete'
    OBVIOUS
  <2>1. CASE OpenLog
    BY <2>1 DEF OpenLog, Complete, IInv, TypeOK, FilesFit
  <2>2. CASE WriteLog
    BY <2>2 DEF WriteLog, Complete, IInv, TypeOK
  <2>3. CASE ~ OpenLog /\ ~ WriteLog
    BY <2>3 DEF Next, Step, Start, Skip, RunBaseline, Judge, ServerDies, Finish,
                Kill, Complete
  <2> QED
    BY <2>1, <2>2, <2>3
<1> QED
  BY <1>1, Invariance, PTL DEF Spec, LogsAreKept
=============================================================================
