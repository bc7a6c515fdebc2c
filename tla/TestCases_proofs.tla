-------------------------- MODULE TestCases_proofs --------------------------
(***************************************************************************)
(* Proofs about TestCases: of the plans of faults, for any steps and any   *)
(* number of faults; of the baseline test case, for any cluster, blocks    *)
(* and messages; and of the reference test case, for any cluster, F and    *)
(* messages.                                                               *)
(***************************************************************************)
EXTENDS TestCases, FiniteSetTheorems, TLAPS

\* A behaviour is one of each of the three modules.
LEMMA Projection == Spec => P!Spec /\ B!Spec /\ E!Spec
<1>1. Init => P!Init /\ B!Init /\ E!Init
  BY DEF Init
<1>2. [Next]_vars => [P!Next]_(P!vars) /\ [B!Next]_(B!vars) /\ [E!Next]_(E!vars)
  BY DEF Next, vars, plan, baseline, reference, P!vars, B!vars, B!others, E!vars
<1> QED
  BY <1>1, <1>2, PTL DEF Spec, P!Spec, B!Spec, E!Spec

-----------------------------------------------------------------------------
(***************************************************************************)
(* The reference test case.                                                *)
(***************************************************************************)
\* The inductive invariant.  The state machine leaves its first two states as
\* soon as h moves, it is in the third only after that, and it stores a block
\* only with its verdict.
LabelFits ==
  /\ refLabel \in {"init", "newRoundMessagesDelivered"} => ~ moved
  /\ refLabel = "NewRound" => moved
  /\ refLabel \in {"init", "newRoundMessagesDelivered", "NewRound"}
       => firstBlock = NilBlock

\* What VerdictIsMove says of a step.
FitsMove ==
  refLabel' # refLabel =>
    /\ refLabel' \in {"NewRound", "success"} => moved'
    /\ refLabel' = "fail" => ~ moved'

\* An event that is no commit and no move of h changes the label only to
\* "newRoundMessagesDelivered".
LEMMA ReferenceOther ==
  ASSUME LabelFits, NEW e, E!Step(e), ~ E!Commits(e), ~ E!MovesH(e),
         moved' <=> moved
  PROVE  LabelFits' /\ FitsMove
<1>1. \/ refLabel' = refLabel
      \/ refLabel = "init" /\ refLabel' = "newRoundMessagesDelivered"
  BY DEF E!Step, E!NextLabel, E!DiffCommits
<1>2. firstBlock' = firstBlock
  BY DEF E!Step
<1> QED
  BY <1>1, <1>2 DEF LabelFits, FitsMove

LEMMA ReferenceMove ==
  ASSUME LabelFits, NEW r, NEW round, E!NewRound(r, round)
  PROVE  LabelFits' /\ FitsMove
<1> DEFINE e == [kind |-> "newRound", replica |-> r, round |-> round]
<1>1. /\ E!Step(e) /\ refEvent' = e
      /\ moved' = (moved \/ E!MovesH(e))
  BY DEF E!NewRound, E!Step
<1>2. ~ E!Commits(e)
  BY DEF E!Commits
<1> HIDE DEF e
<1>3. CASE ~ E!MovesH(e)
  <2>1. moved' <=> moved
    BY <1>1, <1>3
  <2> QED
    BY <1>1, <1>2, <1>3, <2>1, ReferenceOther
<1>4. CASE E!MovesH(e)
  <2>1. moved' /\ firstBlock' = firstBlock
    BY <1>1, <1>2, <1>4 DEF E!Step
  <2>2. CASE refLabel \in {"init", "newRoundMessagesDelivered"}
    <3>1. refLabel' \in {"success", "NewRound"}
      BY <1>1, <1>2, <1>4, <2>2 DEF E!Step, E!NextLabel
    <3> QED
      BY <2>1, <2>2, <3>1 DEF LabelFits, FitsMove
  <2>3. CASE refLabel \notin {"init", "newRoundMessagesDelivered"}
    <3>1. refLabel' = refLabel
      BY <1>1, <1>2, <2>3 DEF E!Step, E!NextLabel, E!DiffCommits
    <3> QED
      BY <2>1, <2>3, <3>1 DEF LabelFits, FitsMove
  <2> QED
    BY <2>2, <2>3
<1> QED
  BY <1>3, <1>4

\* A commit means failure before the votes of round 1 are delivered, nothing
\* before h moves, and success after that: DiffCommits, asked then for the first
\* time, is false.
LEMMA ReferenceCommit ==
  ASSUME LabelFits, NEW b, E!Commit(b)
  PROVE  LabelFits' /\ FitsMove
<1> DEFINE e == [kind |-> "commit", block |-> b]
<1>1. E!Step(e) /\ UNCHANGED moved
  BY DEF E!Commit
<1>2. E!Commits(e) /\ ~ E!MovesH(e)
  BY DEF E!Commits, E!MovesH
<1> HIDE DEF e
<1>3. CASE refLabel = "init"
  <2>1. refLabel' \in {"newRoundMessagesDelivered", "fail"}
        /\ firstBlock' = firstBlock
    BY <1>1, <1>2, <1>3 DEF E!Step, E!NextLabel
  <2> QED
    BY <1>1, <1>3, <2>1 DEF LabelFits, FitsMove
<1>4. CASE refLabel = "NewRound"
  <2>1. ~ E!DiffCommits(e)
    BY <1>4 DEF E!DiffCommits, LabelFits
  <2>2. refLabel' = "success"
    BY <1>1, <1>2, <1>4, <2>1 DEF E!Step, E!NextLabel
  <2> QED
    BY <1>1, <1>4, <2>2 DEF LabelFits, FitsMove
<1>5. CASE refLabel \notin {"init", "NewRound"}
  <2>1. refLabel' = refLabel /\ firstBlock' = firstBlock
    BY <1>1, <1>2, <1>5 DEF E!Step, E!NextLabel
  <2> QED
    BY <1>1, <1>5, <2>1 DEF LabelFits, FitsMove
<1> QED
  BY <1>3, <1>4, <1>5

LEMMA ReferenceStep == LabelFits /\ E!Next => LabelFits' /\ FitsMove
<1> SUFFICES ASSUME LabelFits, E!Next PROVE LabelFits' /\ FitsMove
  OBVIOUS
<1>1. ASSUME NEW m, E!Send(m) \/ E!Receive(m) PROVE LabelFits' /\ FitsMove
  <2>1. PICK e : E!Step(e) /\ e.kind \in {"send", "receive"} /\ moved' = moved
    BY <1>1 DEF E!Send, E!Receive
  <2> QED
    BY <2>1, ReferenceOther DEF E!Commits, E!MovesH
<1> QED
  BY <1>1, ReferenceMove, ReferenceCommit DEF E!Next

\* The label, the stored block and the move of h stay consistent at every event
\* (reference.go:19-49).
LEMMA ReferenceInvariance == E!Spec => []LabelFits
<1>1. E!Init => LabelFits
  BY DEF E!Init, LabelFits
<1>2. LabelFits /\ UNCHANGED E!vars => LabelFits'
  BY DEF E!vars, LabelFits
<1> QED
  BY <1>1, <1>2, ReferenceStep, PTL DEF E!Spec

\* The test succeeds only after h moved to round 1, and fails only before: its
\* transition on DiffCommits, which is one to failure after the move, is dead,
\* in a cluster of any size and for any blocks (reference.go:15-35).
THEOREM VerdictFollowsMove == Spec => VerdictIsMove
<1>1. LabelFits /\ [E!Next]_(E!vars) => [FitsMove]_(E!vars)
  BY ReferenceStep
<1> QED
  BY <1>1, ReferenceInvariance, Projection, PTL
     DEF E!Spec, VerdictIsMove, E!VerdictIsMove, FitsMove

\* In round 0, h hears of votes only the nil votes of the faulty replica, and no
\* other replica hears one of h (reference.go:50-60).
THEOREM Isolated == Spec => []RoundZeroIsolated
<1>1. E!Init => E!RoundZeroIsolated
  BY DEF E!Init, E!RoundZeroIsolated, E!NoEvent
<1>2. E!RoundZeroIsolated /\ [E!Next]_(E!vars) => E!RoundZeroIsolated'
  <2> SUFFICES ASSUME E!RoundZeroIsolated, [E!Next]_(E!vars)
               PROVE  E!RoundZeroIsolated'
    OBVIOUS
  <2>1. ASSUME NEW m \in ReferenceMessages, E!Send(m) PROVE E!RoundZeroIsolated'
    <3>1. m \in [from : ReferenceReplica, to : ReferenceReplica,
                 type : P!F!Type, round : Int, block : Block \cup {NilBlock}]
      BY CaseAssumption
    <3>2. /\ refEvent' = [kind |-> "send", message |-> m]
          /\ refResult' = E!Answer(m)
      BY <2>1 DEF E!Send, E!Step
    <3>3. [m EXCEPT !.block = NilBlock].from = m.from
          /\ [m EXCEPT !.block = NilBlock].block = NilBlock
      BY <3>1
    <3> SUFFICES ASSUME E!IsVote(m), m.round = 0, NEW k \in DOMAIN refResult'
                 PROVE  /\ E!h \in {refResult'[k].from, refResult'[k].to}
                             => refResult'[k].from = E!faulty
                        /\ refResult'[k].from = E!faulty
                             => refResult'[k].block = NilBlock
      BY <3>2 DEF E!RoundZeroIsolated, E!IsVote
    <3>4. CASE m.from = E!faulty
      <4>1. refResult' = <<[m EXCEPT !.block = NilBlock]>>
        BY <3>2, <3>4 DEF E!Answer
      <4>2. refResult'[k] = [m EXCEPT !.block = NilBlock]
        BY <4>1
      <4> QED
        BY <3>3, <3>4, <4>2
    <3>5. CASE m.from # E!faulty
      <4>1. CASE E!Dropped(m)
        BY <3>2, <3>5, <4>1 DEF E!Answer
      <4>2. CASE ~ E!Dropped(m)
        <5>1. refResult' = <<m>> /\ m.to # E!h /\ m.from # E!h
          BY <3>2, <3>5, <4>2 DEF E!Answer, E!Dropped
        <5> QED
          BY <3>5, <5>1
      <4> QED
        BY <4>1, <4>2
    <3> QED
      BY <3>4, <3>5
  <2>2. ASSUME NEW e, E!Step(e), e.kind # "send" PROVE E!RoundZeroIsolated'
    BY <2>2 DEF E!Step, E!RoundZeroIsolated
  <2>3. CASE UNCHANGED E!vars
    BY <2>3 DEF E!vars, E!RoundZeroIsolated, E!IsVote
  <2>4. ASSUME NEW m, E!Receive(m) PROVE E!RoundZeroIsolated'
    BY <2>2, <2>4 DEF E!Receive
  <2>5. ASSUME NEW r, NEW round, E!NewRound(r, round) PROVE E!RoundZeroIsolated'
    BY <2>2, <2>5 DEF E!NewRound
  <2>6. ASSUME NEW b, E!Commit(b) PROVE E!RoundZeroIsolated'
    BY <2>2, <2>6 DEF E!Commit
  <2> QED
    BY <2>1, <2>3, <2>4, <2>5, <2>6 DEF E!Next
<1>3. E!RoundZeroIsolated => RoundZeroIsolated
  BY DEF RoundZeroIsolated
<1> QED
  BY <1>1, <1>2, <1>3, Projection, PTL DEF E!Spec
-----------------------------------------------------------------------------
(***************************************************************************)
(* The baseline test case: what its two filters may do to a message.  Both *)
(* read the flag after the event began, and the flag is never lowered.     *)
(***************************************************************************)
BaselineIInv == /\ healedBefore => testFinished
                /\ HealedNetworkUntouched
                /\ OnlyNode0Lies

\* A step that takes an event answers it only by ending the test.
LEMMA BaselineBegin ==
  ASSUME BaselineIInv, NEW e, B!BF!Begin(e),
         phase' = "done" => label' = "success"
  PROVE  BaselineIInv'
BY DEF BaselineIInv, HealedNetworkUntouched, OnlyNode0Lies,
       B!HealedNetworkUntouched, B!BF!HealedNetworkUntouched, B!OnlyNode0Lies,
       B!BF!Answered, B!BF!Begin

\* A filter answers only while the network is not healed, and only the one that
\* garbles answers with another message.
LEMMA BaselineFilter ==
  ASSUME BaselineIInv, B!RandomDrop \/ B!GarbleMessage
  PROVE  BaselineIInv'
<1>1. /\ ~ testFinished /\ UNCHANGED B!others
      /\ B!IsConsensusMessage(event.message)
      /\ result' = <<>> \/ event.message.from = 0
  BY DEF B!RandomDrop, B!GarbleMessage, B!randomlyPick
<1>2. UNCHANGED <<healedBefore, testFinished, event, label>>
  BY <1>1 DEF B!others
<1> QED
  BY <1>1, <1>2
     DEF BaselineIInv, HealedNetworkUntouched, OnlyNode0Lies,
         B!HealedNetworkUntouched, B!BF!HealedNetworkUntouched,
         B!OnlyNode0Lies, B!BF!Answered, B!IsConsensusMessage

LEMMA BaselineStep == BaselineIInv /\ [B!Next]_(B!vars) => BaselineIInv'
<1> SUFFICES ASSUME BaselineIInv, [B!Next]_(B!vars) PROVE BaselineIInv'
  OBVIOUS
<1>1. ASSUME NEW r, NEW height, NEW round, B!BF!NewStep(r, height, round)
      PROVE  BaselineIInv'
  BY <1>1, BaselineBegin DEF B!BF!NewStep, B!BF!EndTestOr
<1>2. ASSUME NEW r, NEW height, NEW block, B!BF!Commit(r, height, block)
      PROVE  BaselineIInv'
  BY <1>2, BaselineBegin DEF B!BF!Commit, B!BF!EndTestOr
<1>3. ASSUME NEW m, B!BF!Send(m) \/ B!BF!Receive(m) PROVE BaselineIInv'
  BY <1>3, BaselineBegin
     DEF B!BF!Send, B!BF!Receive, B!BF!MessageEvent, B!BF!EndTestOr
<1>4. ASSUME UNCHANGED <<event, label, healedBefore, testFinished>>,
             \/ phase' = "done" =>
                  event.kind # "send" \/ result' = <<event.message>>
             \/ phase' = phase /\ result' = result
      PROVE  BaselineIInv'
  BY <1>4 DEF BaselineIInv, HealedNetworkUntouched, OnlyNode0Lies,
              B!HealedNetworkUntouched, B!BF!HealedNetworkUntouched,
              B!OnlyNode0Lies, B!BF!Answered
<1>5. CASE B!LogConsensusMessages
  BY <1>4, <1>5 DEF B!LogConsensusMessages, B!others
<1>6. CASE B!Skip(1) \/ B!Skip(2)
  BY <1>4, <1>6 DEF B!Skip, B!others
<1>7. CASE B!Deliver
  BY <1>4, <1>7 DEF B!Deliver, B!BF!Deliver, B!BF!history, B!BF!verdict
<1>8. ASSUME UNCHANGED healedBefore, testFinished => testFinished',
             \/ phase' = "idle"
             \/ UNCHANGED <<phase, event, result, label>>
      PROVE  BaselineIInv'
  BY <1>8 DEF BaselineIInv, HealedNetworkUntouched, OnlyNode0Lies,
              B!HealedNetworkUntouched, B!BF!HealedNetworkUntouched,
              B!OnlyNode0Lies, B!BF!Answered
<1>9. CASE B!BF!Dispatch
  BY <1>8, <1>9 DEF B!BF!Dispatch, B!BF!history
<1>10. CASE B!BF!LivenessTimer
  BY <1>8, <1>10 DEF B!BF!LivenessTimer, B!BF!handler, B!BF!verdict
<1>11. CASE B!BF!TestTimeout
  BY <1>8, <1>11 DEF B!BF!TestTimeout, B!BF!handler, B!BF!history
<1>12. CASE UNCHANGED B!vars
  BY <1>8, <1>12 DEF B!vars, B!others
<1> QED
  BY <1>1, <1>2, <1>3, <1>5, <1>6, <1>7, <1>9, <1>10, <1>11, <1>12,
     BaselineFilter DEF B!Next, B!HandlerStep

LEMMA BaselineInvariance == B!Spec => []BaselineIInv
<1>1. B!Init => BaselineIInv
  BY DEF B!Init, B!BF!Init, BaselineIInv, HealedNetworkUntouched,
         OnlyNode0Lies, B!HealedNetworkUntouched,
         B!BF!HealedNetworkUntouched, B!OnlyNode0Lies, B!BF!Answered
<1> QED
  BY <1>1, BaselineStep, PTL DEF B!Spec

\* After the liveness timer fired, neither filter touches a message
\* (randomlyPick in baseline.go asks IsTestFinished when it is its turn).
THEOREM BaselineHealed == Spec => []HealedNetworkUntouched
<1>1. BaselineIInv => HealedNetworkUntouched
  BY DEF BaselineIInv
<1> QED
  BY <1>1, BaselineInvariance, Projection, PTL

\* Whatever the chances say, only consensus messages are lost or changed, and
\* only those of node0 are changed (baseline.go:42-66).
THEOREM BaselineLies == Spec => []OnlyNode0Lies
<1>1. BaselineIInv => OnlyNode0Lies
  BY DEF BaselineIInv
<1> QED
  BY <1>1, BaselineInvariance, Projection, PTL

-----------------------------------------------------------------------------
(***************************************************************************)
(* Plans of faults.  First the partitions, and sequences.                  *)
(***************************************************************************)

\* A partition splits the nodes into parts: each node is in one part, and two
\* nodes are isolated.
Splits(p) ==
  /\ p \in SUBSET SUBSET P!Node
  /\ \A a \in P!Node : \E q \in p : a \in q /\ \A r \in p \ {q} : a \notin r
  /\ \E a, b \in P!Node : P!F!isolates(p, a, b)

\* There are four shapes of partitions, and each of the 14 is one of them with
\* the nodes in some order.
LEMMA PartitionsSplit == \A p \in P!allPartitions : Splits(p)
<1>1. P!Node = {0, 1, 2, 3}
  BY DEF P!Node
<1>2. ASSUME NEW a, NEW b, NEW c, NEW d, {a, b, c, d} = {0, 1, 2, 3}
      PROVE  /\ Splits({{a, b}, {c, d}}) /\ Splits({{a}, {b, c, d}})
             /\ Splits({{a}, {b}, {c, d}}) /\ Splits({{a}, {b}, {c}, {d}})
  <2>1. a # b /\ a # c /\ a # d /\ b # c /\ b # d /\ c # d
    BY <1>2
  <2>2. Splits({{a, b}, {c, d}})
    BY <1>1, <1>2, <2>1 DEF Splits, P!F!isolates
  <2>3. Splits({{a}, {b, c, d}})
    BY <1>1, <1>2, <2>1 DEF Splits, P!F!isolates
  <2>4. Splits({{a}, {b}, {c, d}})
    BY <1>1, <1>2, <2>1 DEF Splits, P!F!isolates
  <2>5. Splits({{a}, {b}, {c}, {d}})
    BY <1>1, <1>2, <2>1 DEF Splits, P!F!isolates
  <2> QED
    BY <2>2, <2>3, <2>4, <2>5
<1>3. /\ {0, 2, 1, 3} = {0, 1, 2, 3} /\ {0, 3, 1, 2} = {0, 1, 2, 3}
      /\ {1, 0, 2, 3} = {0, 1, 2, 3} /\ {2, 0, 1, 3} = {0, 1, 2, 3}
      /\ {3, 0, 1, 2} = {0, 1, 2, 3} /\ {1, 2, 0, 3} = {0, 1, 2, 3}
      /\ {1, 3, 0, 2} = {0, 1, 2, 3} /\ {2, 3, 0, 1} = {0, 1, 2, 3}
  OBVIOUS
<1>4. /\ Splits({{0, 1}, {2, 3}}) /\ Splits({{0, 2}, {1, 3}})
      /\ Splits({{0, 3}, {1, 2}})
  BY <1>2, <1>3
<1>5. /\ Splits({{0}, {1, 2, 3}}) /\ Splits({{1}, {0, 2, 3}})
      /\ Splits({{2}, {0, 1, 3}}) /\ Splits({{3}, {0, 1, 2}})
  BY <1>2, <1>3
<1>6. /\ Splits({{0}, {1}, {2, 3}}) /\ Splits({{0}, {2}, {1, 3}})
      /\ Splits({{0}, {3}, {1, 2}}) /\ Splits({{1}, {2}, {0, 3}})
      /\ Splits({{1}, {3}, {0, 2}}) /\ Splits({{2}, {3}, {0, 1}})
      /\ Splits({{0}, {1}, {2}, {3}})
  BY <1>2, <1>3
<1> QED
  BY <1>4, <1>5, <1>6 DEF P!allPartitions

LEMMA FunctionIsSeq ==
  ASSUME NEW S, NEW n \in Nat, NEW f \in [1 .. n -> S]
  PROVE  f \in Seq(S) /\ Len(f) = n
OBVIOUS

LEMMA AppendIs ==
  ASSUME NEW S, NEW s \in Seq(S), NEW e \in S
  PROVE  /\ Append(s, e) \in Seq(S)
         /\ DOMAIN Append(s, e) = DOMAIN s \cup {Len(s) + 1}
         /\ \A i \in DOMAIN s : Append(s, e)[i] = s[i]
         /\ Append(s, e)[Len(s) + 1] = e
OBVIOUS

-----------------------------------------------------------------------------
(***************************************************************************)
(* The invariant of a plan.                                                *)
(***************************************************************************)
PlannedDrop == [step : Nat, partition : P!allPartitions]

\* The type of a corruption is one that the message type of its step calls for,
\* unless the plan is of any scope.
Fitting(step) == IF step % 3 = 0 THEN {"ChangeProposalToNil", "Omit"}
                 ELSE {"ChangeVoteToNil", "ChangeVoteRound", "Omit"}

PlannedCorruption ==
  {c \in P!F!MessageCorruption :
     source # "any" => c.corruption \in Fitting(c.step)}

PlanTypes ==
  /\ source \in P!Generator \cup P!Predefined
  /\ steps \in Nat \ {0} /\ nDrops \in Nat
  /\ byzantineNode \in P!Node
  /\ drops \in Seq(PlannedDrop)
  /\ corruptions \in Seq(PlannedCorruption)
  /\ pc \in {"drops", "node", "corruptions", "done", "panicked"}
  /\ pc # "done" => source \in P!Generator

PlanIInv == PlanTypes /\ P!OneDropPerStep

LEMMA PredefinedDrops ==
  ASSUME NEW name \in P!Predefined
  PROVE  /\ P!Plan(name) \in Seq(PlannedDrop)
         /\ \A i, j \in DOMAIN P!Plan(name) :
              P!Plan(name)[i].step = P!Plan(name)[j].step => i = j
<1> DEFINE Good(s) == /\ s \in Seq(PlannedDrop)
                      /\ \A i, j \in DOMAIN s : s[i].step = s[j].step => i = j
<1>1. ASSUME NEW d \in PlannedDrop, NEW e \in PlannedDrop, d.step # e.step
      PROVE  Good(<<d, e>>)
  BY <1>1
<1>2. ASSUME NEW step \in Nat, NEW p \in P!allPartitions
      PROVE  P!Drop(step, p) \in PlannedDrop /\ P!Drop(step, p).step = step
  BY DEF P!Drop, PlannedDrop
<1>3. /\ {{1}, {3}, {0, 2}} \in P!allPartitions
      /\ {{0, 2}, {1, 3}} \in P!allPartitions
      /\ {{0}, {3}, {1, 2}} \in P!allPartitions
      /\ {{0}, {2}, {1, 3}} \in P!allPartitions
      /\ {{0}, {1, 2, 3}} \in P!allPartitions
      /\ {{3}, {0, 1, 2}} \in P!allPartitions
  BY DEF P!allPartitions
<1>4. CASE name = "Bug001"
  <2>1. P!Plan(name) = <<P!Drop(1, {{1}, {3}, {0, 2}}),
                         P!Drop(6, {{0, 2}, {1, 3}})>>
    BY <1>4 DEF P!Plan
  <2> QED
    BY <1>1, <1>2, <1>3, <2>1
<1>5. CASE name = "Bug002"
  <2>1. P!Plan(name) = <<P!Drop(6, {{0}, {3}, {1, 2}}),
                         P!Drop(2, {{0}, {2}, {1, 3}})>>
    BY <1>5 DEF P!Plan
  <2> QED
    BY <1>1, <1>2, <1>3, <2>1
<1>6. CASE name = "Bug003"
  <2>1. P!Plan(name) = <<P!Drop(8, {{0, 2}, {1, 3}}),
                         P!Drop(0, {{0}, {1, 2, 3}})>>
    BY <1>6 DEF P!Plan
  <2> QED
    BY <1>1, <1>2, <1>3, <2>1
<1>7. CASE name = "Lagging"
  <2> DEFINE s == [k \in 1 .. 3 |-> P!Drop(3 * k - 1, {{3}, {0, 1, 2}})]
  <2>1. P!Plan(name) = s
    BY <1>7 DEF P!Plan
  <2>2. s \in [1 .. 3 -> PlannedDrop]
    BY <1>2, <1>3
  <2>3. s \in Seq(PlannedDrop)
    BY <2>2, FunctionIsSeq
  <2>4. \A k \in 1 .. 3 : s[k].step = 3 * k - 1
    BY <1>2, <1>3
  <2> QED
    BY <2>1, <2>3, <2>4
<1>8. CASE name = "ExpectNewRound"
  <2>1. P!Plan(name) = P!ExpectNewRoundDrops
    BY <1>8 DEF P!Plan
  <2>2. P!ExpectNewRoundDrops \in [1 .. 2 -> PlannedDrop]
    BY <1>2, <1>3 DEF P!ExpectNewRoundDrops
  <2>3. P!ExpectNewRoundDrops \in Seq(PlannedDrop)
    BY <2>2, FunctionIsSeq
  <2>4. \A k \in 1 .. 2 : P!ExpectNewRoundDrops[k].step = k
    BY <1>2, <1>3 DEF P!ExpectNewRoundDrops
  <2> QED
    BY <2>1, <2>2, <2>3, <2>4
<1> QED
  BY <1>4, <1>5, <1>6, <1>7, <1>8 DEF P!Predefined

LEMMA PredefinedCorruptions ==
  ASSUME source \in P!Predefined
  PROVE  P!PlanCorruptions(source) \in Seq(PlannedCorruption)
<1>1. CASE source = "ExpectNewRound"
  <2> DEFINE step(k) == 3 * ((k - 1) \div 2) + 1 + ((k - 1) % 2)
  <2>1. ASSUME NEW k \in 1 .. 10
        PROVE  P!Corrupt(step(k), 1, P!Node, "ChangeVoteToNil")
                 \in PlannedCorruption
    <3>1. step(k) \in Nat /\ step(k) % 3 # 0
      OBVIOUS
    <3> HIDE DEF step
    <3> QED
      BY <3>1 DEF P!Corrupt, PlannedCorruption, Fitting, P!Node,
                  P!F!MessageCorruption, P!F!Corruption
  <2>2. P!ExpectNewRoundCorruptions \in [1 .. 10 -> PlannedCorruption]
    BY <2>1 DEF P!ExpectNewRoundCorruptions
  <2> QED
    BY <1>1, <2>2, FunctionIsSeq DEF P!PlanCorruptions
<1>2. CASE source # "ExpectNewRound"
  BY <1>2 DEF P!PlanCorruptions
<1> QED
  BY <1>1, <1>2

LEMMA InitPlan == P!Init => PlanIInv
<1> SUFFICES ASSUME P!Init PROVE PlanIInv
  OBVIOUS
<1>1. steps \in Nat \ {0} /\ nDrops \in Nat /\ byzantineNode \in P!Node
  BY PlanAssumption DEF P!Init, P!Node
<1>2. CASE source \in P!Generator /\ drops = <<>> /\ corruptions = <<>>
           /\ pc = "drops"
  BY <1>1, <1>2 DEF PlanIInv, PlanTypes, P!OneDropPerStep
<1>3. CASE source \in P!Predefined /\ drops = P!Plan(source)
           /\ corruptions = P!PlanCorruptions(source) /\ pc = "done"
  BY <1>1, <1>3, PredefinedDrops, PredefinedCorruptions
     DEF PlanIInv, PlanTypes, P!OneDropPerStep
<1> QED
  BY <1>2, <1>3 DEF P!Init

\* When no drop is left, each step has one, so there are as many drops as steps.
LEMMA AllStepsTaken ==
  ASSUME PlanIInv, P!OutOfSteps
  PROVE  nDrops > steps
<1>1. /\ steps \in Nat /\ nDrops \in Nat /\ drops \in Seq(PlannedDrop)
      /\ Len(drops) \in Nat /\ Len(drops) < nDrops /\ P!FreeDrops = {}
      /\ DOMAIN drops = 1 .. Len(drops)
  BY DEF PlanIInv, PlanTypes, P!OutOfSteps
<1>2. PICK p : p \in P!RandomPartition
  BY DEF P!RandomPartition, P!allPartitions
<1>3. \A k \in 0 .. steps - 1 : \E i \in DOMAIN drops : drops[i].step = k
  <2> SUFFICES ASSUME NEW k \in 0 .. steps - 1
               PROVE  \E i \in DOMAIN drops : drops[i].step = k
    OBVIOUS
  <2> DEFINE d == [step |-> k, partition |-> p]
  <2>1. d \in [step : 0 .. steps - 1, partition : P!RandomPartition]
    BY <1>2
  <2>2. d \notin P!FreeDrops
    BY <1>1
  <2>3. \/ source = "fuzz" /\ \E e \in P!Range(drops) : e.step = d.step
        \/ d \in P!Range(drops)
    BY <2>1, <2>2 DEF P!FreeDrops
  <2>4. \E e \in P!Range(drops) : e.step = k
    BY <2>3
  <2> QED
    BY <2>4 DEF P!Range
<1> DEFINE index == [k \in 0 .. steps - 1 |->
                       CHOOSE i \in DOMAIN drops : drops[i].step = k]
<1>4. \A k \in 0 .. steps - 1 :
        index[k] \in DOMAIN drops /\ drops[index[k]].step = k
  BY <1>3
<1>5. index \in Injection(0 .. steps - 1, 1 .. Len(drops))
  <2>1. index \in [0 .. steps - 1 -> 1 .. Len(drops)]
    BY <1>1, <1>4
  <2>2. \A j, k \in 0 .. steps - 1 : index[j] = index[k] => j = k
    BY <1>4
  <2> QED
    BY <2>1, <2>2 DEF Injection, IsInjective
<1> HIDE DEF index
<1>6. /\ IsFiniteSet(1 .. Len(drops))
      /\ Cardinality(1 .. Len(drops)) = Len(drops)
      /\ Cardinality(0 .. steps - 1) = steps
  <2>1. 0 \in Int /\ 1 \in Int /\ Len(drops) \in Int /\ steps - 1 \in Int
    BY <1>1
  <2>2. /\ IsFiniteSet(1 .. Len(drops))
        /\ Cardinality(1 .. Len(drops)) =
             IF 1 > Len(drops) THEN 0 ELSE Len(drops) - 1 + 1
    BY <2>1, FS_Interval
  <2>3. Cardinality(0 .. steps - 1) =
          IF 0 > steps - 1 THEN 0 ELSE (steps - 1) - 0 + 1
    BY <2>1, FS_Interval
  <2> QED
    BY <1>1, <2>2, <2>3
<1>7. steps <= Len(drops)
  BY <1>5, <1>6, FS_Injection
<1> QED
  BY <1>1, <1>7

\* What Range is for a sequence.
LEMMA RangeIs == \A s : P!Range(s) = {s[i] : i \in DOMAIN s}
BY DEF P!Range

LEMMA DrawDropStep ==
  ASSUME PlanIInv, P!DrawDrop
  PROVE  PlanIInv'
<1>1. PICK d \in P!FreeDrops : drops' = Append(drops, d)
  BY DEF P!DrawDrop
<1>2. /\ d \in PlannedDrop /\ drops \in Seq(PlannedDrop)
      /\ source = "fuzz" => \A i \in DOMAIN drops : drops[i].step # d.step
  BY RangeIs
     DEF P!FreeDrops, P!RandomPartition, PlannedDrop, PlanIInv, PlanTypes
<1>3. /\ drops' \in Seq(PlannedDrop)
      /\ DOMAIN drops' = DOMAIN drops \cup {Len(drops) + 1}
      /\ \A i \in DOMAIN drops : drops'[i] = drops[i]
      /\ drops'[Len(drops) + 1] = d
  BY <1>1, <1>2, AppendIs
<1>4. UNCHANGED <<source, steps, nDrops, byzantineNode, corruptions, pc>>
      /\ pc = "drops"
  BY DEF P!DrawDrop
<1>5. PlanTypes'
  BY <1>3, <1>4 DEF PlanIInv, PlanTypes, PlannedDrop, PlannedCorruption
<1>6. P!OneDropPerStep'
  <2>1. CASE source \in {"small", "any"}
    BY <1>4, <2>1 DEF P!OneDropPerStep
  <2>2. CASE source \notin {"small", "any"}
    <3>1. source = "fuzz"
      BY <1>4, <2>2 DEF PlanIInv, PlanTypes, P!Generator
    <3>2. \A i, j \in DOMAIN drops : drops[i].step = drops[j].step => i = j
      BY <2>2 DEF PlanIInv, P!OneDropPerStep
    <3> QED
      BY <1>2, <1>3, <1>4, <3>1, <3>2 DEF P!OneDropPerStep
  <2> QED
    BY <2>1, <2>2
<1> QED
  BY <1>5, <1>6 DEF PlanIInv

LEMMA DropsDoneStep ==
  ASSUME PlanIInv, P!DropsDone
  PROVE  PlanIInv'
<1>1. UNCHANGED <<source, steps, nDrops, byzantineNode, corruptions>>
      /\ pc' = "node" /\ pc = "drops"
  BY DEF P!DropsDone
<1>2. CASE source = "fuzz" /\ UNCHANGED drops
  BY <1>1, <1>2 DEF PlanIInv, PlanTypes, PlannedCorruption, P!OneDropPerStep
<1>3. ASSUME source # "fuzz",
             NEW order \in P!Bijection(DOMAIN drops, DOMAIN drops),
             drops' = [k \in DOMAIN drops |-> drops[order[k]]]
      PROVE  PlanIInv'
  <2>1. drops \in Seq(PlannedDrop) /\ source \in P!Generator
    BY <1>1 DEF PlanIInv, PlanTypes
  <2>2. order \in [DOMAIN drops -> DOMAIN drops]
    BY <1>3 DEF P!Bijection, P!Injection
  <2>3. drops' \in [1 .. Len(drops) -> PlannedDrop]
    BY <1>3, <2>1, <2>2
  <2>4. drops' \in Seq(PlannedDrop)
    BY <2>1, <2>3, FunctionIsSeq
  <2> QED
    BY <1>1, <1>3, <2>1, <2>4 DEF PlanIInv, PlanTypes, PlannedDrop,
                              PlannedCorruption, P!OneDropPerStep, P!Generator
<1> QED
  BY <1>2, <1>3 DEF P!DropsDone

LEMMA DrawCorruptionStep ==
  ASSUME PlanIInv, P!DrawCorruption
  PROVE  PlanIInv'
<1>1. PICK step, to, corruption :
        /\ step \in 0 .. steps - 1 /\ to \in P!Receivers
        /\ corruption \in P!randomCorruption(step)
        /\ corruptions' = Append(corruptions,
                            P!Corrupt(step, byzantineNode, to, corruption))
  BY DEF P!DrawCorruption
<1> DEFINE c == P!Corrupt(step, byzantineNode, to, corruption)
<1>2. UNCHANGED <<source, steps, nDrops, byzantineNode, drops, pc>>
  BY DEF P!DrawCorruption
<1>3. step \in Nat /\ byzantineNode \in P!Node /\ to \in SUBSET P!Node
  BY <1>1 DEF PlanIInv, PlanTypes, P!Receivers
<1>4. corruption \in P!F!Corruption
      /\ (source # "any" => corruption \in Fitting(step))
  BY <1>1 DEF P!randomCorruption, P!ProposalCorruptionTypes,
         P!VoteCorruptionTypes, P!F!Corruption, Fitting
<1>5. c \in PlannedCorruption
  BY <1>3, <1>4 DEF P!Corrupt, PlannedCorruption, P!F!MessageCorruption
<1>6. corruptions' \in Seq(PlannedCorruption)
  BY <1>1, <1>5, AppendIs DEF PlanIInv, PlanTypes
<1> QED
  BY <1>2, <1>6 DEF PlanIInv, PlanTypes, PlannedDrop, PlannedCorruption,
                    P!OneDropPerStep

LEMMA PlanStep == PlanIInv /\ [P!Next]_(P!vars) => PlanIInv'
<1> SUFFICES ASSUME PlanIInv, [P!Next]_(P!vars) PROVE PlanIInv'
  OBVIOUS
<1>1. CASE P!OutOfSteps
  BY <1>1, AllStepsTaken
     DEF P!OutOfSteps, PlanIInv, PlanTypes, PlannedCorruption,
         P!OneDropPerStep
<1>2. CASE P!DrawNode
  BY <1>2 DEF P!DrawNode, PlanIInv, PlanTypes, PlannedCorruption,
              P!OneDropPerStep
<1>3. CASE P!PlanDone
  BY <1>3 DEF P!PlanDone, PlanIInv, PlanTypes, PlannedCorruption,
              P!OneDropPerStep
<1>4. CASE UNCHANGED P!vars
  BY <1>4 DEF P!vars, PlanIInv, PlanTypes, PlannedCorruption,
              P!OneDropPerStep
<1> QED
  BY <1>1, <1>2, <1>3, <1>4, DrawDropStep, DropsDoneStep, DrawCorruptionStep
     DEF P!Next

\* A plan keeps its form at every draw, whoever makes it, and ends as one that a
\* test case can run.
THEOREM PlanInvariance == Spec => []PlanIInv
BY InitPlan, PlanStep, Projection, PTL DEF P!Spec

\* A plan names nodes that exist, and its drops split them into parts
\* (byzzfuzz.go:78-130, orchestrate.py:42-77, bugs.go).
THEOREM PlansFit == Spec => []PlanFits
<1>1. PlanIInv => PlanFits
  <2> SUFFICES ASSUME PlanIInv PROVE PlanFits
    OBVIOUS
  <2>1. \A d \in P!Range(drops) : d \in PlannedDrop
    BY RangeIs DEF PlanIInv, PlanTypes
  <2>2. \A c \in P!Range(corruptions) : c \in PlannedCorruption
    BY RangeIs DEF PlanIInv, PlanTypes
  <2>3. \A d \in PlannedDrop : Splits(d.partition) /\ d \in P!F!MessageDrop
    BY PartitionsSplit DEF PlannedDrop, Splits, P!F!MessageDrop
  <2> QED
    BY <2>1, <2>2, <2>3
       DEF PlanFits, P!PlanFits, PlanIInv, PlanTypes, PlannedCorruption, Splits
<1> QED
  BY <1>1, PlanInvariance, PTL

\* No two drops of a plan of the Go code are for one step, and drawing one gets
\* stuck only when more drops are asked for than there are steps, for any number
\* of both (byzzfuzz.go:88-96).
THEOREM OneDrop == Spec => []OneDropPerStep
<1>1. PlanIInv => OneDropPerStep
  BY DEF PlanIInv, OneDropPerStep
<1> QED
  BY <1>1, PlanInvariance, PTL

\* A corruption that fits its step changes the message of the step.
LEMMA FittingActs ==
  ASSUME NEW c \in P!F!MessageCorruption, c.corruption \in Fitting(c.step),
         NEW b \in Block, NEW m,
         m = [from |-> c.from, to |-> c.from,
              type |-> P!F!MessageType(c.step), height |-> 1,
              round |-> P!F!RoundOf(c.step) + c.seed + 1, block |-> b,
              author |-> c.from, signer |-> c.from]
  PROVE  P!F!Action(c, <<NilBlock>>, m) # <<m>>
<1>1. /\ c.step \in Nat /\ c.seed \in Nat /\ c.from \in P!Node
      /\ m.block # NilBlock /\ m.round \in Int
  BY CaseAssumption
     DEF P!F!MessageCorruption, P!F!RoundOf, B!BF!InstAssumption
<1>2. CASE c.corruption = "Omit"
  BY <1>2 DEF P!F!Action, P!F!omitMessage
<1>3. CASE c.corruption = "ChangeProposalToNil"
  <2>1. c.step % 3 = 0
    BY <1>3 DEF Fitting
  <2>2. m.type = "Proposal"
    BY <2>1 DEF P!F!MessageType
  <2> DEFINE n == [m EXCEPT !.block = NilBlock, !.signer = m.from]
  <2>3. P!F!Action(c, <<NilBlock>>, m) = <<n>>
    BY <1>3, <2>2 DEF P!F!Action, P!F!changeProposalToNil
  <2>4. n.block = NilBlock
    OBVIOUS
  <2> HIDE DEF n
  <2> QED
    BY <1>1, <2>3, <2>4
<1>4. CASE c.corruption \in {"ChangeVoteToNil", "ChangeVoteRound"}
  <2>1. c.step % 3 = 1 \/ c.step % 3 = 2
    BY <1>1, <1>4 DEF Fitting
  <2>2. P!F!IsVote(m) /\ m.author \in P!Node
    BY <1>1, <2>1 DEF P!F!MessageType, P!F!IsVote
  <2>3. CASE c.corruption = "ChangeVoteToNil"
    <3> DEFINE n == [[m EXCEPT !.block = NilBlock] EXCEPT !.signer = m.author]
    <3>1. P!F!Action(c, <<NilBlock>>, m) = <<n>>
      BY <2>2, <2>3 DEF P!F!Action, P!F!changeVoteToNil, P!F!ChangeVote
    <3>2. n.block = NilBlock
      OBVIOUS
    <3> HIDE DEF n
    <3> QED
      BY <1>1, <3>1, <3>2
  <2>4. CASE c.corruption = "ChangeVoteRound"
    <3> DEFINE n == [[m EXCEPT !.round = @ + 2] EXCEPT !.signer = m.author]
    <3>1. P!F!Action(c, <<NilBlock>>, m) = <<n>>
      BY <2>2, <2>4 DEF P!F!Action, P!F!changeVoteRound, P!F!ChangeVote
    <3>2. n.round = m.round + 2
      OBVIOUS
    <3> HIDE DEF n
    <3> QED
      BY <1>1, <3>1, <3>2
  <2> QED
    BY <1>4, <2>3, <2>4
<1> QED
  BY <1>2, <1>3, <1>4 DEF Fitting

\* Each planned corruption changes the message it is planned for, in any plan
\* but those of any scope: its type fits its step (byzzfuzz.go:119-130,
\* corruption.go).
THEOREM CorruptionsActual == Spec => []SmallScopeCorruptionsAct
<1>1. PlanIInv => SmallScopeCorruptionsAct
  <2> SUFFICES ASSUME PlanIInv, source # "any" PROVE P!CorruptionsAct
    BY DEF SmallScopeCorruptionsAct, P!SmallScopeCorruptionsAct
  <2>1. \A c \in P!Range(corruptions) : c \in PlannedCorruption
    BY RangeIs DEF PlanIInv, PlanTypes
  <2>2. \A c \in PlannedCorruption :
          c \in P!F!MessageCorruption /\ c.corruption \in Fitting(c.step)
    BY DEF PlannedCorruption
  <2> QED
    BY <2>1, <2>2, FittingActs DEF P!CorruptionsAct
<1> QED
  BY <1>1, PlanInvariance, PTL

\* What ByzzFuzzInst assumes of a plan (its PlanAssumption) is what every
\* generator provides, at any moment: the theorems about a test case with any
\* plan are about each plan that is drawn, sampled or predefined
\* (ByzzFuzzInstanceConfig.TestCase in byzzfuzz.go:69-71).
THEOREM PlansAreAssumed ==
  Spec => [](/\ drops \in Seq(P!F!MessageDrop)
             /\ corruptions \in Seq(P!F!MessageCorruption))
<1>1. ASSUME NEW S, NEW T, S \subseteq T, NEW s \in Seq(S) PROVE s \in Seq(T)
  <2>1. s \in [1 .. Len(s) -> T] /\ Len(s) \in Nat
    BY <1>1
  <2> QED
    BY <2>1, FunctionIsSeq
<1>2. PlannedDrop \subseteq P!F!MessageDrop
  BY PartitionsSplit DEF PlannedDrop, Splits, P!F!MessageDrop
<1>3. PlannedCorruption \subseteq P!F!MessageCorruption
  BY DEF PlannedCorruption
<1>4. PlanIInv => /\ drops \in Seq(P!F!MessageDrop)
                  /\ corruptions \in Seq(P!F!MessageCorruption)
  BY <1>1, <1>2, <1>3 DEF PlanIInv, PlanTypes
<1> QED
  BY <1>4, PlanInvariance, PTL
=============================================================================
