------------------------ MODULE ByzzFuzzInst_proofs ------------------------
(***************************************************************************)
(* Proofs about ByzzFuzzInst, for every cluster, every plan of faults and  *)
(* every set of messages.  The test case runs the round tracker, so the    *)
(* invariants proved in RoundTracking_proofs hold of it; what is added     *)
(* here is that the faults select messages by the numbers of the tracker.  *)
(***************************************************************************)
EXTENDS ByzzFuzzInst, TLAPS

\* The tracker again, with its theorems.
P == INSTANCE RoundTracking_proofs

\* The two instances of the tracker are one module.
LEMMA SameTracker ==
  /\ RT!Init <=> P!Init
  /\ RT!IInv <=> P!IInv
  /\ RT!BoundsAssumption <=> P!BoundsAssumption
<1>1. RT!Init <=> P!Init
  BY DEF RT!Init, P!Init, RT!Position, P!Position, RT!Height, P!Height,
         RT!Round, P!Round, RT!Unset, P!Unset
<1>2. RT!TypeOK <=> P!TypeOK
  BY DEF RT!TypeOK, P!TypeOK, RT!Position, P!Position, RT!Height, P!Height,
         RT!Round, P!Round, RT!Unset, P!Unset
<1>3. \A r : RT!Known(r) = P!Known(r)
  BY DEF RT!Known, P!Known, RT!Position, P!Position, RT!Height, P!Height,
         RT!Round, P!Round, RT!Unset, P!Unset
<1>4. \A p, q : RT!Before(p, q) <=> P!Before(p, q)
  BY DEF RT!Before, P!Before
<1>5. RT!CurrentIsLast <=> P!CurrentIsLast
  BY <1>3, <1>4 DEF RT!CurrentIsLast, P!CurrentIsLast, RT!Current, P!Current,
                    RT!Unset, P!Unset
<1>6. RT!RoundsOrdered <=> P!RoundsOrdered
  BY <1>3, <1>4 DEF RT!RoundsOrdered, P!RoundsOrdered
<1>7. RT!RoundsCounted <=> P!RoundsCounted
  BY <1>3, <1>4 DEF RT!RoundsCounted, P!RoundsCounted, RT!LastBefore,
                    P!LastBefore
<1>8. RT!BoundsAssumption <=> P!BoundsAssumption
  BY DEF RT!BoundsAssumption, P!BoundsAssumption
<1> QED
  BY <1>1, <1>2, <1>5, <1>6, <1>7, <1>8 DEF RT!IInv, P!IInv

\* The bounds of the test case are bounds of the tracker.
LEMMA Bounds == P!BoundsAssumption
BY InstAssumption DEF P!BoundsAssumption

\* What the test case runs on a newStep event is the step of the tracker.
LEMMA TrackerRuns ==
  ASSUME NEW r \in Replica, NEW height \in RT!Height, NEW round \in RT!Round,
         RT!Follows(r, height, round),
         RT!trackTotalRounds(r, height, round)
  PROVE  /\ height \in P!Height /\ round \in P!Round
         /\ P!NewStep(r, height, round)
<1>1. height \in P!Height /\ round \in P!Round
  BY DEF RT!Height, P!Height, RT!Round, P!Round
<1>2. P!Follows(r, height, round)
  BY DEF RT!Follows, P!Follows, RT!PrevHeight, P!PrevHeight, RT!PrevRound,
         P!PrevRound, RT!OrElse, P!OrElse, RT!Unset, P!Unset
<1>3. RT!NewTotal(r, height, round) = P!NewTotal(r, height, round)
  BY DEF RT!NewTotal, P!NewTotal, RT!PrevHeight, P!PrevHeight, RT!PrevRound,
         P!PrevRound, RT!TotalRounds, P!TotalRounds, RT!OrElse, P!OrElse,
         RT!Unset, P!Unset
<1>4. P!trackTotalRounds(r, height, round)
  BY <1>3 DEF RT!trackTotalRounds, P!trackTotalRounds
<1> QED BY <1>1, <1>2, <1>4 DEF P!NewStep

\* A step of the tracker keeps its invariant and every number it gave.
LEMMA TrackerStep ==
  ASSUME RT!IInv, NEW r \in Replica,
         NEW height \in RT!Height, NEW round \in RT!Round,
         RT!Follows(r, height, round),
         RT!trackTotalRounds(r, height, round)
  PROVE  /\ RT!IInv'
         /\ \A s \in Replica : \A p \in RT!Known(s) :
              totalRoundForHeightRound'[s][p] = totalRoundForHeightRound[s][p]
<1>1. height \in P!Height /\ round \in P!Round
  BY TrackerRuns
<1>2. P!NewStep(r, height, round)
  BY TrackerRuns
<1>3. P!IInv
  BY SameTracker
<1>4. P!IInv'
  BY <1>1, <1>2, <1>3, Bounds, P!StepIInv
<1>5. RT!IInv' <=> P!IInv'
  BY SameTracker, PTL
<1>6. \A s \in Replica : \A p \in P!Known(s) :
        totalRoundForHeightRound'[s][p] = totalRoundForHeightRound[s][p]
  <2>1. /\ \A q \in P!Known(r) : totalRoundForHeightRound'[r][q] =
                                   totalRoundForHeightRound[r][q]
        /\ \A s \in Replica \ {r} :
             totalRoundForHeightRound'[s] = totalRoundForHeightRound[s]
    BY <1>1, <1>2, <1>3, Bounds, P!StepEffect
  <2> QED BY <2>1
<1>7. \A s : RT!Known(s) = P!Known(s)
  BY DEF RT!Known, P!Known, RT!Position, P!Position, RT!Height, P!Height,
         RT!Round, P!Round, RT!Unset, P!Unset
<1> QED BY <1>4, <1>5, <1>6, <1>7

\* An action of a fault answers with messages.
LEMMA OutcomeType ==
  ASSUME NEW i \in 1 .. NumFaults, NEW m \in Message, blockids \in Seq(Block)
  PROVE  Outcome(i, m) \in Seq(Message)
<1>1. Drops \in Seq(MessageDrop) /\ Corruptions \in Seq(MessageCorruption)
  BY PlanAssumption
<1>2. CASE IsDrop(i)
  BY <1>2 DEF Outcome
<1>3. CASE ~ IsDrop(i)
  <2> DEFINE c == Corrupting(i)
  <2>1. c \in MessageCorruption
    BY <1>1, <1>3 DEF Corrupting, IsDrop, NumFaults
  <2>2. c.seed \in Nat
    BY <2>1 DEF MessageCorruption
  <2>3. \A changed \in Message : ChangeVote(m, changed) \in Seq(Message)
    <3>1. \A changed \in Message, a \in Replica :
            [changed EXCEPT !.signer = a] \in Message
      BY DEF Message
    <3>2. m.author \in Replica
      BY DEF Message
    <3> QED BY <3>1, <3>2 DEF ChangeVote
  <2>4. changeVoteToNil(m) \in Seq(Message)
    BY <2>3 DEF changeVoteToNil, Message
  <2>5. changeVoteRound(m) \in Seq(Message)
    <3>1. m.round + 2 \in Int
      BY DEF Message
    <3>2. \A round \in Int : [m EXCEPT !.round = round] \in Message
      BY DEF Message
    <3>3. [m EXCEPT !.round = m.round + 2] \in Message
      BY <3>1, <3>2
    <3> QED BY <2>3, <3>3 DEF changeVoteRound
  <2>6. changeVoteRoundAnyScope(c.seed, m) \in Seq(Message)
    <3>1. \A seed \in Nat : [m EXCEPT !.round = seed] \in Message
      BY DEF Message
    <3> QED BY <2>2, <2>3, <3>1 DEF changeVoteRoundAnyScope
  <2>7. changeBlockIdAnyScope(c.seed, blockids, m) \in Seq(Message)
    <3>1. CASE blockids = <<>>
      BY <3>1 DEF changeBlockIdAnyScope
    <3>2. CASE blockids # <<>>
      <4>1. Len(blockids) \in Nat /\ Len(blockids) > 0
        BY <3>2
      <4>2. (c.seed % Len(blockids)) + 1 \in 1 .. Len(blockids)
        BY <2>2, <4>1
      <4>3. blockids[(c.seed % Len(blockids)) + 1] \in Block
        BY <4>2
      <4> QED BY <3>2, <4>3, <2>3 DEF changeBlockIdAnyScope, Message
    <3> QED BY <3>1, <3>2
  <2>8. changeProposalToNil(m) \in Seq(Message)
    <3>1. [m EXCEPT !.block = NilBlock] \in Message
      BY DEF Message
    <3>2. \A n \in Message : [n EXCEPT !.signer = m.from] \in Message
      BY DEF Message
    <3>3. [[m EXCEPT !.block = NilBlock] EXCEPT !.signer = m.from] \in Message
      BY <3>1, <3>2
    <3> QED BY <3>3 DEF changeProposalToNil
  <2>9. omitMessage(m) \in Seq(Message)
    BY DEF omitMessage
  <2>10. c.corruption \in Corruption
    BY <2>1 DEF MessageCorruption
  <2>11. Action(c, blockids, m) \in Seq(Message)
    BY <2>4, <2>5, <2>6, <2>7, <2>8, <2>9, <2>10 DEF Action, Corruption
  <2> QED BY <1>3, <2>11 DEF Outcome
<1> QED BY <1>2, <1>3

\* The total round of a fault is a natural number.
LEMMA FaultRoundType ==
  ASSUME NEW i \in 1 .. NumFaults PROVE FaultRound(i) \in Nat
<1>1. CASE IsDrop(i)
  <2>1. Drops[i] \in MessageDrop
    BY <1>1, PlanAssumption DEF IsDrop, NumFaults
  <2> QED BY <1>1, <2>1 DEF FaultRound, MessageDrop, RoundOf
<1>2. CASE ~ IsDrop(i)
  <2>1. Corrupting(i) \in MessageCorruption
    BY <1>2, PlanAssumption DEF Corrupting, IsDrop, NumFaults
  <2> QED BY <1>2, <2>1 DEF FaultRound, MessageCorruption, RoundOf
<1> QED BY <1>1, <1>2

\* The event being handled when a fault is tried is the send of a message.
LEMMA FaultsSeeMessages ==
  ASSUME TypeOK, phase = "faults"
  PROVE  event.kind = "send" /\ event.message \in Message
<1>1. event.kind = "send" /\ event \in Event
  BY DEF TypeOK, NoEvent
<1>2. event.message \in Messages
  BY <1>1 DEF Event
<1> QED BY <1>1, <1>2, InstAssumption

\* The initial state satisfies the invariant: no fault struck anything.
LEMMA InitIInv == Init => IInv
<1> SUFFICES ASSUME Init PROVE IInv
  OBVIOUS
<1>1. NumFaults \in Nat
  BY PlanAssumption DEF NumFaults
<1>2. RT!IInv
  BY Bounds, SameTracker, P!InitIInv DEF Init
<1>3. TypeOK
  <2>1. RT!TypeOK
    BY <1>2 DEF RT!IInv
  <2>2. blockids \in Seq(Block) /\ result \in Seq(Message)
    BY DEF Init
  <2>3. queued \in 0 .. SpecCapacity /\ nextFault \in 1 .. NumFaults + 1
    BY <1>1, InstAssumption DEF Init
  <2> QED BY <2>1, <2>2, <2>3 DEF Init, TypeOK
<1>4. StruckNumbered
  BY DEF Init, StruckNumbered
<1> QED BY <1>2, <1>3, <1>4 DEF IInv

\* The invariant of the tracker is about the tracker only.
LEMMA TrackerSame ==
  ASSUME RT!IInv, UNCHANGED tracker PROVE RT!IInv'
<1>1. /\ UNCHANGED <<prevHeight, prevRound, totalRounds>>
      /\ UNCHANGED totalRoundForHeightRound
  BY DEF tracker
<1>2. \A r : RT!Known(r)' = RT!Known(r)
  BY <1>1 DEF RT!Known
<1>3. RT!TypeOK'
  BY <1>1 DEF RT!IInv, RT!TypeOK
<1>4. RT!CurrentIsLast'
  BY <1>1, <1>2 DEF RT!IInv, RT!CurrentIsLast, RT!Current
<1>5. RT!RoundsOrdered'
  BY <1>1, <1>2 DEF RT!IInv, RT!RoundsOrdered
<1>6. RT!RoundsCounted'
  BY <1>1, <1>2 DEF RT!IInv, RT!RoundsCounted, RT!LastBefore
<1> QED BY <1>3, <1>4, <1>5, <1>6 DEF RT!IInv

\* An action that leaves the tracker and the struck positions alone keeps the
\* invariant, but for the types.
LEMMA NothingStruck ==
  ASSUME IInv, UNCHANGED tracker, UNCHANGED struck
  PROVE  RT!IInv' /\ StruckNumbered'
<1>1. RT!IInv'
  BY TrackerSame DEF IInv
<1>2. StruckNumbered'
  BY DEF IInv, tracker, StruckNumbered
<1> QED BY <1>1, <1>2

\* newStep events: the tracker keeps its invariant and the numbers it gave, so
\* struck positions keep the number of their fault.
LEMMA NewStepIInv ==
  ASSUME IInv, NEW r \in Replica, NEW height \in RT!Height,
         NEW round \in RT!Round, NewStep(r, height, round)
  PROVE  IInv'
<1> DEFINE e == [kind |-> "newStep", replica |-> r, height |-> height,
                 round |-> round]
<1>1. Begin(e) /\ UNCHANGED struck
  BY DEF NewStep, Begin
<1>2. RT!IInv' /\ StruckNumbered'
  <2>1. CASE label' = "success"
    BY <1>1, <2>1, NothingStruck DEF NewStep, EndTestOr
  <2>2. CASE label' # "success"
    <3>1. RT!Follows(r, height, round) /\ RT!trackTotalRounds(r, height, round)
      BY <2>2 DEF NewStep, EndTestOr
    <3>2. /\ RT!IInv'
          /\ \A s \in Replica : \A p \in RT!Known(s) :
               totalRoundForHeightRound'[s][p] = totalRoundForHeightRound[s][p]
      BY <3>1, TrackerStep DEF IInv
    <3>3. ASSUME NEW i \in 1 .. NumFaults, NEW x \in struck[i]
          PROVE  totalRoundForHeightRound'[x[1]][x[2]] = FaultRound(i)
      <4>1. x[1] \in Replica /\ x[2] \in RT!Position
        BY DEF IInv, TypeOK
      <4>2. totalRoundForHeightRound[x[1]][x[2]] = FaultRound(i)
        BY DEF IInv, StruckNumbered
      <4>3. FaultRound(i) \in Nat
        BY FaultRoundType
      <4>4. x[2] \in RT!Known(x[1])
        BY <4>1, <4>2, <4>3 DEF RT!Known, RT!Unset
      <4> QED BY <3>2, <4>1, <4>2, <4>4
    <3> QED BY <1>1, <3>2, <3>3 DEF StruckNumbered, FaultRound, IsDrop,
                                    Corrupting
  <2> QED BY <2>1, <2>2
<1>3. TypeOK'
  <2>1. e \in Event
    BY DEF Event
  <2>2. /\ label' \in {"init", "diff-commits", "success"}
        /\ ended' \in BOOLEAN /\ phase' \in {"log", "done"}
    BY DEF NewStep, EndTestOr, IInv, TypeOK
  <2> QED BY <1>1, <1>2, <2>1, <2>2
          DEF NewStep, Begin, IInv, TypeOK, RT!IInv
<1> QED BY <1>2, <1>3 DEF IInv

\* Commits concern the verdict only.
LEMMA CommitIInv ==
  ASSUME IInv, NEW r \in Replica, NEW height \in RT!Height,
         NEW block \in CommitBlocks, Commit(r, height, block)
  PROVE  IInv'
<1> DEFINE e == [kind |-> "commit", replica |-> r, height |-> height,
                 block |-> block]
<1>1. Begin(e) /\ UNCHANGED struck /\ UNCHANGED tracker
  BY DEF Commit, Begin, EndTestOr
<1>2. RT!IInv' /\ StruckNumbered'
  BY <1>1, NothingStruck
<1>3. TypeOK'
  <2>1. block \in Block
    BY InstAssumption
  <2>2. e \in Event
    BY <2>1 DEF Event
  <2>3. /\ label' \in {"init", "diff-commits", "success"}
        /\ ended' \in BOOLEAN /\ phase' \in {"log", "done"}
    BY DEF Commit, CommitLabel, EndTestOr, IInv, TypeOK
  <2>4. blockIdHeight' \in [RT!Height -> Block \cup {NilBlock}]
    BY <2>1 DEF Commit, FirstCommit, IInv, TypeOK
  <2>5. committed' \subseteq Replica \X RT!Height \X Block
    BY <2>1 DEF Commit, IInv, TypeOK
  <2> QED BY <1>1, <1>2, <2>2, <2>3, <2>4, <2>5
          DEF Begin, IInv, TypeOK, RT!IInv
<1> QED BY <1>2, <1>3 DEF IInv

\* The first part of a message event moves nothing.
LEMMA MessageIInv ==
  ASSUME IInv, NEW kind \in {"send", "receive"}, NEW m \in Messages,
         MessageEvent(kind, m)
  PROVE  IInv'
<1> DEFINE e == [kind |-> kind, message |-> m]
<1>1. Begin(e) /\ UNCHANGED struck /\ UNCHANGED tracker
  BY DEF MessageEvent, Begin, EndTestOr
<1>2. RT!IInv' /\ StruckNumbered'
  BY <1>1, NothingStruck
<1>3. TypeOK'
  <2>1. e \in Event
    BY DEF Event
  <2>2. ended' \in BOOLEAN /\ phase' \in {"log", "done"}
    BY DEF MessageEvent, EndTestOr, IInv, TypeOK
  <2> QED BY <1>1, <1>2, <2>1, <2>2
          DEF MessageEvent, Begin, IInv, TypeOK, RT!IInv
<1> QED BY <1>2, <1>3 DEF IInv

\* The logging filters.
LEMMA LogEventsIInv ==
  ASSUME IInv, LogEvents PROVE IInv'
<1>1. RT!IInv' /\ StruckNumbered'
  BY NothingStruck DEF LogEvents, history
<1>2. TypeOK'
  <2>1. queued' \in 0 .. SpecCapacity
    BY InstAssumption DEF LogEvents, IInv, TypeOK
  <2>2. blockids' \in Seq(Block)
    <3>1. CASE /\ IsMessageEvent
               /\ event.message.type = "Proposal"
               /\ event.message.block # NilBlock
      <4>1. event \in Event
        BY <3>1 DEF IsMessageEvent, IInv, TypeOK, NoEvent
      <4>2. event.message \in Messages
        BY <3>1, <4>1 DEF IsMessageEvent, Event
      <4>3. event.message.block \in Block
        BY <3>1, <4>2, InstAssumption DEF Message
      <4> QED BY <3>1, <4>3 DEF LogEvents, BlockIdsLogged, IInv, TypeOK
    <3>2. CASE blockids' = blockids
      BY <3>2 DEF IInv, TypeOK
    <3> QED BY <3>1, <3>2 DEF LogEvents, BlockIdsLogged
  <2>3. /\ phase' \in {"faults", "done"}
        /\ phase' = "faults" => event'.kind = "send"
    BY DEF LogEvents
  <2> QED BY <1>1, <2>1, <2>2, <2>3
          DEF LogEvents, verdict, history, IInv, TypeOK, RT!IInv
<1> QED BY <1>1, <1>2 DEF IInv

\* A fault strikes a position that carries its total round: a drop the one the
\* sender is in, which is the last the tracker numbered, and a corruption the
\* one the tracker numbered with it.
LEMMA StruckPosition ==
  ASSUME IInv, NEW i \in 1 .. NumFaults, NEW m \in Message, Applies(i, m)
  PROVE  /\ Position(i, m) \in RT!Position
         /\ totalRoundForHeightRound[m.from][Position(i, m)] = FaultRound(i)
<1>1. FaultRound(i) \in Nat
  BY FaultRoundType
<1>2. m.from \in Replica
  BY DEF Message
<1>3. CASE IsDrop(i)
  <2>1. totalRounds[m.from] = FaultRound(i)
    BY <1>3 DEF Applies, DropApplies, RT!SenderInTotalRound, FaultRound
  <2>2. /\ prevHeight[m.from] # RT!Unset /\ prevRound[m.from] # RT!Unset
        /\ totalRoundForHeightRound[m.from][RT!Current(m.from)] =
             totalRounds[m.from]
    BY <1>1, <1>2, <2>1 DEF IInv, RT!IInv, RT!CurrentIsLast, RT!Unset
  <2>3. RT!Current(m.from) \in RT!Position
    BY <1>2, <2>2 DEF IInv, RT!IInv, RT!TypeOK, RT!Current, RT!Position
  <2> QED BY <1>3, <2>1, <2>2, <2>3 DEF Position
<1>4. CASE ~ IsDrop(i)
  BY <1>4 DEF Applies, CorruptionApplies, RT!MessageOfTotalRound, FaultRound,
              Position
<1> QED BY <1>3, <1>4

\* A filter of a fault that applies.
LEMMA StrikeIInv ==
  ASSUME IInv, NEW i \in 1 .. NumFaults, Strike(i) PROVE IInv'
<1> DEFINE m == event.message
           x == <<m.from, Position(i, m)>>
<1>1. m \in Message /\ Applies(i, m)
  BY FaultsSeeMessages DEF Strike, Trying, Strikes, IInv
<1>2. /\ Position(i, m) \in RT!Position
      /\ totalRoundForHeightRound[m.from][Position(i, m)] = FaultRound(i)
  BY <1>1, StruckPosition
<1>3. RT!IInv'
  <2>1. UNCHANGED tracker
    BY DEF Strike
  <2> QED BY <2>1, TrackerSame DEF IInv
<1>4. struck' = [struck EXCEPT ![i] = @ \cup {x}]
  BY DEF Strike
<1>5. struck \in [1 .. NumFaults -> SUBSET (Replica \X RT!Position)]
  BY DEF IInv, TypeOK
<1>6. StruckNumbered'
  <2>1. ASSUME NEW j \in 1 .. NumFaults, NEW y \in struck'[j]
        PROVE  totalRoundForHeightRound[y[1]][y[2]] = FaultRound(j)
    <3>1. y \in struck[j] \/ (j = i /\ y = x)
      BY <1>4, <1>5
    <3> QED BY <1>2, <3>1 DEF IInv, StruckNumbered
  <2>2. UNCHANGED totalRoundForHeightRound
    BY DEF Strike, tracker
  <2> QED BY <2>1, <2>2 DEF StruckNumbered, FaultRound, IsDrop, Corrupting
<1>7. TypeOK'
  <2>1. result' \in Seq(Message)
    <3>1. blockids \in Seq(Block)
      BY DEF IInv, TypeOK
    <3>2. result' = Outcome(i, m)
      BY DEF Strike
    <3> QED BY <1>1, <3>1, <3>2, OutcomeType
  <2>2. struck' \in [1 .. NumFaults -> SUBSET (Replica \X RT!Position)]
    <3>1. x \in Replica \X RT!Position
      BY <1>1, <1>2 DEF Message
    <3> QED BY <1>4, <1>5, <3>1
  <2> QED BY <1>3, <2>1, <2>2 DEF Strike, verdict, IInv, TypeOK, RT!IInv
<1> QED BY <1>3, <1>6, <1>7 DEF IInv

\* The other steps leave the tracker and the struck positions alone.
LEMMA OtherIInv ==
  ASSUME IInv,
         \/ \E i \in 1 .. NumFaults : Panic(i) \/ Skip(i)
         \/ Deliver \/ Dispatch \/ LivenessTimer \/ TestTimeout
         \/ UNCHANGED vars
  PROVE  IInv'
<1>1. UNCHANGED tracker /\ UNCHANGED struck
  BY DEF Panic, Skip, Deliver, Dispatch, LivenessTimer, TestTimeout, vars,
         history
<1>2. RT!IInv' /\ StruckNumbered'
  BY <1>1, NothingStruck
<1>3. RT!TypeOK' /\ NumFaults \in Nat
  BY <1>2, PlanAssumption DEF RT!IInv, NumFaults
<1>4. TypeOK'
  <2>1. ASSUME NEW i \in 1 .. NumFaults, Panic(i) PROVE TypeOK'
    BY <1>3, <2>1 DEF Panic, verdict, history, IInv, TypeOK
  <2>2. ASSUME NEW i \in 1 .. NumFaults, Skip(i) PROVE TypeOK'
    <3>1. nextFault' \in 1 .. NumFaults + 1
      BY <1>3, <2>2 DEF Skip
    <3> QED BY <1>3, <2>2, <3>1 DEF Skip, verdict, history, IInv, TypeOK
  <2>3. ASSUME Deliver PROVE TypeOK'
    <3>1. result' \in Seq(Message)
      BY <2>3, FaultsSeeMessages DEF Deliver, IInv
    <3> QED BY <1>3, <2>3, <3>1 DEF Deliver, verdict, history, IInv, TypeOK
  <2>4. ASSUME Dispatch PROVE TypeOK'
    <3>1. nextFault' \in 1 .. NumFaults + 1 /\ result' \in Seq(Message)
      BY <1>3, <2>4 DEF Dispatch
    <3> QED BY <1>3, <2>4, <3>1 DEF Dispatch, verdict, history, IInv, TypeOK
  <2>5. ASSUME LivenessTimer PROVE TypeOK'
    <3>1. heightsAtHeal' \subseteq RT!Height
      BY <2>5 DEF LivenessTimer, IInv, TypeOK
    <3> QED BY <1>3, <2>5, <3>1 DEF LivenessTimer, verdict, handler, IInv,
                                    TypeOK
  <2>6. ASSUME TestTimeout PROVE TypeOK'
    BY <1>3, <2>6 DEF TestTimeout, handler, history, IInv, TypeOK
  <2>7. ASSUME UNCHANGED vars PROVE TypeOK'
    BY <1>3, <2>7 DEF vars, handler, history, verdict, IInv, TypeOK
  <2> QED BY <2>1, <2>2, <2>3, <2>4, <2>5, <2>6, <2>7
<1> QED BY <1>2, <1>4 DEF IInv

\* IInv is an invariant of the test case.
THEOREM Invariance == Spec => []IInv
<1>1. Init => IInv
  BY InitIInv
<1>2. IInv /\ [Next]_vars => IInv'
  <2> SUFFICES ASSUME IInv, [Next]_vars PROVE IInv'
    OBVIOUS
  <2>1. ASSUME NEW r \in Replica, NEW height \in RT!Height,
               NEW round \in RT!Round, NewStep(r, height, round)
        PROVE  IInv'
    BY <2>1, NewStepIInv
  <2>2. ASSUME NEW r \in Replica, NEW height \in RT!Height,
               NEW block \in CommitBlocks, Commit(r, height, block)
        PROVE  IInv'
    BY <2>2, CommitIInv
  <2>3. ASSUME NEW m \in Messages, Send(m) \/ Receive(m) PROVE IInv'
    BY <2>3, MessageIInv DEF Send, Receive
  <2>4. CASE LogEvents
    BY <2>4, LogEventsIInv
  <2>5. ASSUME NEW i \in 1 .. NumFaults, Strike(i) PROVE IInv'
    BY <2>5, StrikeIInv
  <2>6. ASSUME \/ \E i \in 1 .. NumFaults : Panic(i) \/ Skip(i)
               \/ Deliver \/ Dispatch \/ LivenessTimer \/ TestTimeout
               \/ UNCHANGED vars
        PROVE  IInv'
    BY <2>6, OtherIInv
  <2> QED BY <2>1, <2>2, <2>3, <2>4, <2>5, <2>6 DEF Next, HandlerStep
<1> QED BY <1>1, <1>2, PTL DEF Spec

-----------------------------------------------------------------------------
(***************************************************************************)
(* The test case implements the round tracker, so whatever is proved of    *)
(* RoundTracking holds while the test case runs it: beside faults, the     *)
(* liveness timer, a full log channel and the end of the test.             *)
(***************************************************************************)
LEMMA TrackingStep == [Next]_vars => [P!Next]_(P!vars)
<1> SUFFICES ASSUME [Next]_vars PROVE P!Next \/ UNCHANGED tracker
  BY DEF P!vars, tracker
<1>1. ASSUME NEW r \in Replica, NEW height \in RT!Height,
             NEW round \in RT!Round, NewStep(r, height, round)
      PROVE  P!Next \/ UNCHANGED tracker
  <2>1. \/ UNCHANGED tracker
        \/ /\ RT!Follows(r, height, round)
           /\ RT!trackTotalRounds(r, height, round)
    BY <1>1 DEF NewStep, EndTestOr
  <2> QED BY <2>1, TrackerRuns DEF P!Next
<1>2. ASSUME NEW r \in Replica, NEW height \in RT!Height,
             NEW block \in CommitBlocks, Commit(r, height, block)
      PROVE  UNCHANGED tracker
  BY <1>2 DEF Commit, EndTestOr
<1>3. ASSUME NEW m \in Messages, Send(m) \/ Receive(m)
      PROVE  UNCHANGED tracker
  BY <1>3 DEF Send, Receive, MessageEvent, EndTestOr
<1>4. ASSUME HandlerStep \/ LivenessTimer \/ TestTimeout \/ UNCHANGED vars
      PROVE  UNCHANGED tracker
  BY <1>4 DEF HandlerStep, LogEvents, Panic, Strike, Skip, Deliver, Dispatch,
              LivenessTimer, TestTimeout, vars
<1> QED BY <1>1, <1>2, <1>3, <1>4 DEF Next

\* The totals that the faults read are those of the tracker, for any plan and
\* whenever the timer fires: endTest may stop it, and nothing else changes them
\* (instance.go:103-112, trackTotalRounds in roundTracking.go).
THEOREM Tracking == Spec => P!Spec
<1>1. Init => P!Init
  BY SameTracker DEF Init
<1> QED BY <1>1, TrackingStep, PTL DEF Spec, P!Spec

\* So the number that a fault finds for a position of a sender never changes
\* during a test, and numbers grow along the protocol.
THEOREM NumbersPermanent == Spec => P!NeverRenumbered /\ P!Numbering
BY Tracking, Bounds, P!Permanent, P!Refinement, PTL

\* Every variable of the test case keeps its type, whatever the plan: no
\* action of corruption.go answers with anything but messages.
THEOREM TypeCorrect == Spec => []TypeOK
<1>1. IInv => TypeOK
  BY DEF IInv
<1> QED BY <1>1, Invariance, PTL

\* Over a whole test, a fault of any plan strikes each sender in one height and
\* round at most (isMessageFromTotalRound and isMessageOfTotalRound,
\* roundTracking.go:79-130): the struck positions of a sender all carry the
\* total round of the fault, and the tracker numbers positions one to one.
THEOREM OneRound == Spec => []FaultStrikesOneRound
<1>1. IInv => FaultStrikesOneRound
  <2> SUFFICES ASSUME IInv, NEW i \in 1 .. NumFaults, NEW x \in struck[i],
                      NEW y \in struck[i], x[1] = y[1]
               PROVE  x = y
    BY DEF FaultStrikesOneRound
  <2> DEFINE number == totalRoundForHeightRound[x[1]]
  <2>1. /\ x \in Replica \X RT!Position /\ y \in Replica \X RT!Position
        /\ number[x[2]] = FaultRound(i) /\ number[y[2]] = FaultRound(i)
    BY DEF IInv, TypeOK, StruckNumbered
  <2>2. FaultRound(i) \in Nat
    BY FaultRoundType
  <2>3. x[2] \in RT!Known(x[1]) /\ y[2] \in RT!Known(x[1])
    BY <2>1, <2>2 DEF RT!Known, RT!Unset
  <2>4. ~ RT!Before(x[2], y[2]) /\ ~ RT!Before(y[2], x[2])
    BY <2>1, <2>2, <2>3 DEF IInv, RT!IInv, RT!RoundsOrdered
  <2>5. x[2] = y[2]
    <3>1. x[2] \in P!Position /\ y[2] \in P!Position
      BY <2>1 DEF RT!Position, P!Position, RT!Height, P!Height, RT!Round,
                  P!Round
    <3>2. ~ P!Before(x[2], y[2]) /\ ~ P!Before(y[2], x[2])
      BY <2>4 DEF RT!Before, P!Before
    <3> QED BY <3>1, <3>2, Bounds, P!BeforeOrder
  <2> QED BY <2>1, <2>5
<1> QED BY <1>1, Invariance, PTL

-----------------------------------------------------------------------------
(***************************************************************************)
(* The healed network.  Strikes reads the flag after the event began, and  *)
(* the flag is never lowered.                                              *)
(***************************************************************************)
HealedIInv == (healedBefore => testFinished) /\ HealedNetworkUntouched

\* A step of the handler of a message sent after the network healed either
\* delivers the message or does not answer yet.
LEMMA HealedStep == TypeOK /\ HealedIInv /\ [Next]_vars => HealedIInv'
<1> SUFFICES ASSUME TypeOK, HealedIInv, [Next]_vars PROVE HealedIInv'
  OBVIOUS
<1> USE DEF HealedIInv, HealedNetworkUntouched, Answered
<1>1. ASSUME NEW r \in Replica, NEW height \in RT!Height,
             NEW round \in RT!Round, NewStep(r, height, round)
      PROVE  HealedIInv'
  BY <1>1 DEF NewStep, Begin
<1>2. ASSUME NEW r \in Replica, NEW height \in RT!Height,
             NEW block \in CommitBlocks, Commit(r, height, block)
      PROVE  HealedIInv'
  BY <1>2 DEF Commit, Begin
<1>3. ASSUME NEW m \in Messages, Send(m) \/ Receive(m) PROVE HealedIInv'
  BY <1>3 DEF Send, Receive, MessageEvent, Begin, EndTestOr
<1>4. CASE LogEvents
  BY <1>4 DEF LogEvents, history, verdict
<1>5. ASSUME NEW i \in 1 .. NumFaults, Panic(i) \/ Strike(i) \/ Skip(i)
      PROVE  HealedIInv'
  BY <1>5 DEF Panic, Strike, Skip, Strikes, Trying, history, verdict
<1>6. CASE Deliver
  BY <1>6 DEF Deliver, history, verdict
<1>7. CASE Dispatch
  BY <1>7 DEF Dispatch, history, verdict
<1>8. CASE LivenessTimer
  BY <1>8 DEF LivenessTimer, handler, verdict
<1>9. CASE TestTimeout
  BY <1>9 DEF TestTimeout, handler, history
<1>10. CASE UNCHANGED vars
  BY <1>10 DEF vars, handler, history, verdict
<1> QED BY <1>1, <1>2, <1>3, <1>4, <1>5, <1>6, <1>7, <1>8, <1>9, <1>10
        DEF Next, HandlerStep

\* After the liveness timer fired, no message is dropped or changed, for any
\* plan: the liveness check observes a healthy network (IsTestFinished in
\* roundTracking.go:81 and 107).
THEOREM Healed == Spec => []HealedNetworkUntouched
<1>1. Init => HealedIInv
  BY DEF Init, HealedIInv, HealedNetworkUntouched, Answered
<1>2. HealedIInv => HealedNetworkUntouched
  BY DEF HealedIInv
<1> QED BY <1>1, <1>2, HealedStep, TypeCorrect, PTL DEF Spec

-----------------------------------------------------------------------------
(***************************************************************************)
(* The agreement monitor.  While replicas agree, the stored block of a     *)
(* height is the one committed there; the test case ends with success.     *)
(***************************************************************************)
StoredIsCommitted ==
  \A h \in RT!Height :
    blockIdHeight[h] # NilBlock =>
      \E c \in committed : c[2] = h /\ c[3] = blockIdHeight[h]

CommittedIsStored ==
  \A c \in committed : blockIdHeight[c[2]] = c[3]

\* What the monitor stores and what replicas committed is well typed.
VerdictTypes ==
  /\ label \in {"init", "diff-commits", "success"}
  /\ blockIdHeight \in [RT!Height -> Block \cup {NilBlock}]
  /\ committed \subseteq Replica \X RT!Height \X Block

AgreementIInv ==
  /\ label = "success" => ended
  /\ StoredIsCommitted
  /\ IF label = "diff-commits" THEN Disagreement ELSE CommittedIsStored

\* A commit keeps the monitor exact: the first block of a height is stored,
\* the same block again changes nothing, and another one is a disagreement
\* with the commit that stored the first.
LEMMA AgreementCommit ==
  ASSUME VerdictTypes, AgreementIInv,
         NEW r \in Replica, NEW height \in RT!Height,
         NEW block \in CommitBlocks, Commit(r, height, block)
  PROVE  AgreementIInv'
<1> DEFINE c == <<r, height, block>>
<1>1. /\ block \in Block /\ block # NilBlock
      /\ committed' = committed \cup {c}
      /\ committed \subseteq Replica \X RT!Height \X Block
      /\ blockIdHeight \in [RT!Height -> Block \cup {NilBlock}]
      /\ label # "success"
      /\ label' = CommitLabel(height, block)
      /\ label' = "success" => ended'
  BY InstAssumption
     DEF Commit, Begin, EndTestOr, VerdictTypes, AgreementIInv
<1>2. CASE label = "diff-commits"
  <2>1. label' = "diff-commits" /\ blockIdHeight' = blockIdHeight
    BY <1>1, <1>2 DEF Commit, CommitLabel
  <2>2. Disagreement'
    <3>1. PICK d \in committed, f \in committed : d[2] = f[2] /\ d[3] # f[3]
      BY <1>2 DEF AgreementIInv, Disagreement
    <3>2. d \in committed' /\ f \in committed'
      BY <1>1
    <3> QED BY <3>1, <3>2 DEF Disagreement
  <2>3. StoredIsCommitted'
    BY <1>1, <2>1 DEF AgreementIInv, StoredIsCommitted
  <2> QED BY <2>1, <2>2, <2>3 DEF AgreementIInv
<1>3. CASE label = "init"
  <2>1. /\ CommittedIsStored /\ StoredIsCommitted
        /\ blockIdHeight' = FirstCommit(height, block)
    BY <1>3 DEF AgreementIInv, Commit
  <2>2. StoredIsCommitted'
    <3> SUFFICES ASSUME NEW h \in RT!Height, blockIdHeight'[h] # NilBlock
                 PROVE  \E d \in committed' :
                          d[2] = h /\ d[3] = blockIdHeight'[h]
      BY DEF StoredIsCommitted
    <3>1. CASE blockIdHeight'[h] = blockIdHeight[h]
      <4>1. PICK d \in committed : d[2] = h /\ d[3] = blockIdHeight[h]
        BY <2>1, <3>1 DEF StoredIsCommitted
      <4>2. d \in committed'
        BY <1>1
      <4> QED BY <3>1, <4>1, <4>2
    <3>2. CASE blockIdHeight'[h] # blockIdHeight[h]
      <4>1. blockIdHeight' = [blockIdHeight EXCEPT ![height] = block]
        BY <2>1, <3>2 DEF FirstCommit
      <4>2. h = height /\ blockIdHeight'[h] = block
        BY <1>1, <3>2, <4>1
      <4>3. c \in committed' /\ c[2] = height /\ c[3] = block
        BY <1>1
      <4> QED BY <4>2, <4>3
    <3> QED BY <3>1, <3>2
  <2>3. CASE DiffCommits(height, block)
    <3>1. label' = "diff-commits"
      BY <1>1, <1>3, <2>3 DEF CommitLabel
    <3>2. PICK d \in committed : d[2] = height /\ d[3] = blockIdHeight[height]
      BY <2>1, <2>3 DEF DiffCommits, StoredIsCommitted
    <3>3. d[3] # block
      BY <2>3, <3>2 DEF DiffCommits
    <3>4. Disagreement'
      <4>1. d \in committed' /\ c \in committed' /\ d[2] = c[2] /\ d[3] # c[3]
        BY <1>1, <3>2, <3>3
      <4> QED BY <4>1 DEF Disagreement
    <3> QED BY <2>2, <3>1, <3>4 DEF AgreementIInv
  <2>4. CASE ~ DiffCommits(height, block)
    <3>1. label' # "diff-commits"
      BY <1>1, <1>3, <2>4 DEF CommitLabel
    <3>2. blockIdHeight'[height] = block
      BY <1>1, <2>1, <2>4 DEF DiffCommits, FirstCommit
    <3>3. \A d \in committed : blockIdHeight'[d[2]] = d[3]
      <4> SUFFICES ASSUME NEW d \in committed
                   PROVE  blockIdHeight'[d[2]] = d[3]
        OBVIOUS
      <4>1. /\ d[2] \in RT!Height /\ d[3] # NilBlock
            /\ blockIdHeight[d[2]] = d[3]
        BY <1>1, <2>1, InstAssumption DEF CommittedIsStored
      <4> QED BY <1>1, <2>1, <4>1 DEF FirstCommit
    <3>4. CommittedIsStored'
      BY <1>1, <3>2, <3>3 DEF CommittedIsStored
    <3> QED BY <1>1, <2>2, <3>1, <3>4 DEF AgreementIInv
  <2> QED BY <2>3, <2>4
<1> QED BY <1>1, <1>2, <1>3 DEF VerdictTypes

\* The inductive invariant of the monitor needs no other part of the test case.
VerdictIInv == VerdictTypes /\ AgreementIInv

LEMMA VerdictCommit ==
  ASSUME VerdictIInv, NEW r \in Replica, NEW height \in RT!Height,
         NEW block \in CommitBlocks, Commit(r, height, block)
  PROVE  VerdictIInv'
<1>1. /\ block \in Block
      /\ committed' = committed \cup {<<r, height, block>>}
      /\ label' = CommitLabel(height, block)
      /\ blockIdHeight' \in {blockIdHeight, FirstCommit(height, block)}
  BY InstAssumption DEF Commit, Begin
<1>2. VerdictTypes'
  BY <1>1 DEF VerdictIInv, VerdictTypes, CommitLabel, FirstCommit
<1> QED BY <1>2, AgreementCommit DEF VerdictIInv

\* A step that neither commits nor changes the stored blocks keeps it, if it
\* leaves the verdict alone or ends the test case with success.
LEMMA VerdictOther ==
  ASSUME VerdictIInv, UNCHANGED <<blockIdHeight, committed>>,
         label' = label \/ (label = "init" /\ label' = "success"),
         label' = "success" => ended'
  PROVE  VerdictIInv'
<1>1. VerdictTypes'
  BY DEF VerdictIInv, VerdictTypes
<1> QED BY <1>1 DEF VerdictIInv, AgreementIInv, StoredIsCommitted,
                    CommittedIsStored, Disagreement

\* No other step can commit, change the stored blocks, or leave or enter the
\* diff-commits state.
LEMMA VerdictStep == VerdictIInv /\ [Next]_vars => VerdictIInv'
<1> SUFFICES ASSUME VerdictIInv, [Next]_vars PROVE VerdictIInv'
  OBVIOUS
<1>1. ASSUME NEW r \in Replica, NEW height \in RT!Height,
             NEW block \in CommitBlocks, Commit(r, height, block)
      PROVE  VerdictIInv'
  BY <1>1, VerdictCommit
<1>2. label = "success" => ended
  BY DEF VerdictIInv, AgreementIInv
<1>3. ASSUME NEW r \in Replica, NEW height \in RT!Height,
             NEW round \in RT!Round, NewStep(r, height, round)
      PROVE  VerdictIInv'
  BY <1>2, <1>3, VerdictOther DEF NewStep, Begin, EndTestOr
<1>4. ASSUME NEW m \in Messages, Send(m) \/ Receive(m) PROVE VerdictIInv'
  BY <1>2, <1>4, VerdictOther DEF Send, Receive, MessageEvent, Begin, EndTestOr
<1>5. ASSUME \/ LogEvents \/ Deliver \/ Dispatch \/ LivenessTimer
             \/ \E i \in 1 .. NumFaults : Panic(i) \/ Strike(i) \/ Skip(i)
             \/ UNCHANGED vars
      PROVE  VerdictIInv'
  <2>1. UNCHANGED verdict /\ UNCHANGED committed
    BY <1>5 DEF LogEvents, Deliver, Dispatch, LivenessTimer, Panic, Strike,
                Skip, vars, history
  <2> QED BY <1>2, <2>1, VerdictOther DEF verdict
<1>6. CASE TestTimeout
  BY <1>6, VerdictOther DEF TestTimeout, history
<1> QED BY <1>1, <1>3, <1>4, <1>5, <1>6 DEF Next, HandlerStep

LEMMA InitVerdict == Init => VerdictIInv
BY DEF Init, VerdictIInv, VerdictTypes, AgreementIInv, StoredIsCommitted,
       CommittedIsStored

\* The diff-commits label is exact, for any number of replicas, heights and
\* blocks, before and after the network heals (spec/commit.go:12-39, and the
\* order of the transitions in instance.go:99-101).
THEOREM Agreement == Spec => []DisagreementCaught
<1>1. VerdictIInv => DisagreementCaught
  BY DEF VerdictIInv, AgreementIInv, DisagreementCaught, Disagreement,
         CommittedIsStored
<1> QED BY <1>1, InitVerdict, VerdictStep, PTL DEF Spec

-----------------------------------------------------------------------------
(***************************************************************************)
(* The test case implements TestVerdict.  While its label is init, the     *)
(* stored blocks are the committed ones, so the condition DiffCommits on a *)
(* new commit is a disagreement of the commits with it.                    *)
(***************************************************************************)

\* The condition of the code is that of the specification.
LEMMA DiffIsDisagreement ==
  ASSUME VerdictIInv, label = "init",
         NEW r \in Replica, NEW height \in RT!Height, NEW block \in Block
  PROVE  DiffCommits(height, block) <=>
           V!Disagreement(committed \cup {<<r, height, block>>})
<1> DEFINE c == <<r, height, block>>
<1>1. /\ CommittedIsStored /\ StoredIsCommitted
      /\ c[2] = height /\ c[3] = block
  BY DEF VerdictIInv, AgreementIInv
<1>2. ASSUME DiffCommits(height, block)
      PROVE  V!Disagreement(committed \cup {c})
  <2>1. PICK d \in committed : d[2] = height /\ d[3] = blockIdHeight[height]
    BY <1>1, <1>2 DEF DiffCommits, StoredIsCommitted
  <2>2. d[2] = c[2] /\ d[3] # c[3]
    BY <1>1, <1>2, <2>1 DEF DiffCommits
  <2> QED BY <2>1, <2>2 DEF V!Disagreement
<1>3. ASSUME V!Disagreement(committed \cup {c})
      PROVE  DiffCommits(height, block)
  <2>1. PICK d \in committed \cup {c}, e \in committed \cup {c} :
          d[2] = e[2] /\ d[3] # e[3]
    BY <1>3 DEF V!Disagreement
  <2>2. \A f \in committed : blockIdHeight[f[2]] = f[3]
    BY <1>1 DEF CommittedIsStored
  <2>3. PICK f \in committed : f[2] = height /\ f[3] # block
    BY <1>1, <2>1, <2>2
  <2>4. f[3] # NilBlock
    BY <2>3, InstAssumption DEF VerdictIInv, VerdictTypes
  <2> QED BY <2>2, <2>3, <2>4 DEF DiffCommits
<1> QED BY <1>2, <1>3

\* A commit is one of TestVerdict.
LEMMA CommitImplements ==
  ASSUME VerdictIInv, NEW r \in Replica, NEW height \in RT!Height,
         NEW block \in CommitBlocks, Commit(r, height, block)
  PROVE  V!Commit(<<r, height, block>>)
<1>1. /\ block \in Block
      /\ committed' = committed \cup {<<r, height, block>>}
      /\ label' = CommitLabel(height, block)
      /\ testFinished' = testFinished
      /\ Reported' = 0
  BY InstAssumption DEF Commit, Begin, Reported
<1>2. CASE label = "init"
  BY <1>1, <1>2, DiffIsDisagreement DEF CommitLabel, V!Commit, V!Settled
<1>3. CASE label # "init"
  BY <1>1, <1>3 DEF CommitLabel, V!Commit
<1> QED BY <1>2, <1>3

\* A newStep event is a report of TestVerdict.
LEMMA NewStepImplements ==
  ASSUME NEW r \in Replica, NEW height \in RT!Height, NEW round \in RT!Round,
         NewStep(r, height, round)
  PROVE  V!Report(height)
<1>1. /\ event' = [kind |-> "newStep", replica |-> r, height |-> height,
                   round |-> round]
      /\ label' = IF label = "init" /\ height >= TargetHeight
                  THEN "success" ELSE label
      /\ UNCHANGED <<committed, testFinished>>
  BY DEF NewStep, Begin
<1>2. Reported' = height
  BY <1>1 DEF Reported
<1> QED BY <1>1, <1>2 DEF V!Report

\* Whatever the plan of faults, the verdict of a test case is the one that
\* TestVerdict promises: only commits and steps of the target height move the
\* label, and where to depends on the commits and the end of faults alone
\* (instance.go:97-101).
THEOREM VerdictKept == Spec => Verdict
<1>1. Init => V!Init
  BY DEF Init, V!Init, Reported, NoEvent
<1>2. VerdictIInv /\ [Next]_vars => [V!Next]_(V!vars)
  <2> DEFINE Same == UNCHANGED <<committed, testFinished, label>>
  <2> SUFFICES ASSUME VerdictIInv, [Next]_vars
               PROVE  V!Next \/ (Same /\ UNCHANGED Reported)
    BY DEF V!vars
  <2>1. ASSUME NEW r \in Replica, NEW height \in RT!Height,
               NEW block \in CommitBlocks, Commit(r, height, block)
        PROVE  V!Next
    <3>1. <<r, height, block>> \in V!Commits
      BY InstAssumption DEF V!Commits
    <3> QED BY <2>1, <3>1, CommitImplements DEF V!Next
  <2>2. ASSUME NEW r \in Replica, NEW height \in RT!Height,
               NEW round \in RT!Round, NewStep(r, height, round)
        PROVE  V!Next
    BY <2>2, NewStepImplements DEF V!Next
  <2>3. ASSUME (\E m \in Messages : Send(m) \/ Receive(m)) \/ Dispatch
        PROVE  V!Next
    <3>1. Same
      BY <2>3 DEF Send, Receive, MessageEvent, Begin, Dispatch, history,
                  verdict
    <3>2. event'.kind # "newStep"
      BY <2>3 DEF Send, Receive, MessageEvent, Begin, Dispatch, NoEvent
    <3>3. Reported' = 0
      BY <3>2 DEF Reported
    <3> QED BY <3>1, <3>3 DEF V!Next, V!Quiet
  <2>4. CASE LivenessTimer
    <3>1. /\ ~ testFinished /\ testFinished' = TRUE
          /\ UNCHANGED <<committed, label, event>>
      BY <2>4 DEF LivenessTimer, verdict, handler
    <3>2. Reported' = Reported
      BY <3>1 DEF Reported
    <3> QED BY <3>1, <3>2 DEF V!Next, V!Heal
  <2>5. ASSUME \/ LogEvents \/ Deliver \/ TestTimeout
               \/ \E i \in 1 .. NumFaults : Panic(i) \/ Strike(i) \/ Skip(i)
               \/ UNCHANGED vars
        PROVE  Same /\ UNCHANGED Reported
    <3>1. Same /\ event' = event
      BY <2>5 DEF LogEvents, Deliver, TestTimeout, Panic, Strike, Skip, vars,
                  history, verdict, handler
    <3> QED BY <3>1 DEF Reported
  <2> QED BY <2>1, <2>2, <2>3, <2>4, <2>5 DEF Next, HandlerStep
<1> QED BY <1>1, <1>2, InitVerdict, VerdictStep, PTL DEF Spec, Verdict, V!Spec

-----------------------------------------------------------------------------
(***************************************************************************)
(* The answer to one message.  The filters of a message run one after the  *)
(* other and the timer may fire between two of them; up to then every      *)
(* filter that was skipped does not apply.                                 *)
(***************************************************************************)
AtomicIInv ==
  /\ phase \in {"idle", "log"} => nextFault = 1
  /\ phase = "faults" =>
       \/ testFinished
       \/ \A j \in 1 .. nextFault - 1 : ~ Applies(j, event.message)
  /\ AnswerIsAtomic

\* What the plan says about a message depends on the tracker and the logged
\* block ids only, which no filter of a fault changes.
LEMMA PlanSame ==
  ASSUME UNCHANGED tracker, UNCHANGED event, UNCHANGED blockids
  PROVE  /\ \A i : Applies(i, event.message)' = Applies(i, event.message)
         /\ PlannedAnswer(event.message)' = PlannedAnswer(event.message)
<1>1. /\ UNCHANGED <<totalRounds, totalRoundForHeightRound>>
      /\ UNCHANGED <<event, blockids>>
  BY DEF tracker
<1>2. \A i : Applies(i, event.message)' = Applies(i, event.message)
  BY <1>1 DEF Applies, DropApplies, CorruptionApplies, IsDrop, Corrupting,
              RT!SenderInTotalRound, RT!MessageOfTotalRound
<1>3. \A i : Outcome(i, event.message)' = Outcome(i, event.message)
  BY <1>1 DEF Outcome, IsDrop, Corrupting
<1>4. Applicable(event.message)' = Applicable(event.message)
  BY <1>1, <1>2 DEF Applicable
<1>5. PlannedAnswer(event.message)' = PlannedAnswer(event.message)
  BY <1>1, <1>3, <1>4 DEF PlannedAnswer
<1> QED BY <1>2, <1>5

\* The first fault that applies decides the planned answer.
LEMMA FirstDecides ==
  ASSUME NEW i \in 1 .. NumFaults, NEW m, Applies(i, m),
         \A j \in 1 .. i - 1 : ~ Applies(j, m)
  PROVE  PlannedAnswer(m) = Outcome(i, m)
<1>1. NumFaults \in Nat
  BY PlanAssumption DEF NumFaults
<1>2. i \in Applicable(m) /\ \A j \in Applicable(m) : i <= j
  BY <1>1 DEF Applicable
<1>3. \A k \in Applicable(m) :
        (\A j \in Applicable(m) : k <= j) => k = i
  BY <1>1, <1>2 DEF Applicable
<1>4. (CHOOSE k \in Applicable(m) : \A j \in Applicable(m) : k <= j) = i
  BY <1>2, <1>3
<1> QED BY <1>2, <1>4 DEF PlannedAnswer

\* Steps that begin with another event, or end with the current one.
LEMMA AtomicBegin ==
  ASSUME AtomicIInv,
         \/ \E r \in Replica, height \in RT!Height, round \in RT!Round :
              NewStep(r, height, round)
         \/ \E r \in Replica, height \in RT!Height, block \in CommitBlocks :
              Commit(r, height, block)
         \/ \E m \in Messages : Send(m) \/ Receive(m)
         \/ LogEvents \/ Dispatch
  PROVE  AtomicIInv'
<1>1. phase' \in {"idle", "log"} => nextFault' = 1
  BY DEF AtomicIInv, NewStep, Commit, Send, Receive, MessageEvent, Begin,
         EndTestOr, LogEvents, Dispatch
<1>2. phase' = "faults" => nextFault' = 1
  BY DEF AtomicIInv, NewStep, Commit, Send, Receive, MessageEvent, Begin,
         EndTestOr, LogEvents, Dispatch
<1>3. ~ Answered'
  BY DEF Answered, NewStep, Commit, Send, Receive, MessageEvent, Begin,
         EndTestOr, LogEvents, Dispatch, verdict
<1> QED BY <1>1, <1>2, <1>3 DEF AtomicIInv, AnswerIsAtomic

\* The filters of the faults and what runs beside them.
LEMMA AtomicFilters ==
  ASSUME TypeOK, AtomicIInv,
         \/ \E i \in 1 .. NumFaults : Panic(i) \/ Strike(i) \/ Skip(i)
         \/ Deliver \/ LivenessTimer \/ TestTimeout \/ UNCHANGED vars
  PROVE  AtomicIInv'
<1>1. UNCHANGED tracker /\ UNCHANGED event /\ UNCHANGED blockids
  BY DEF Panic, Strike, Skip, Deliver, LivenessTimer, TestTimeout, vars,
         handler
<1>2. /\ \A i : Applies(i, event.message)' = Applies(i, event.message)
      /\ PlannedAnswer(event.message)' = PlannedAnswer(event.message)
  BY <1>1, PlanSame
<1>3. ASSUME NEW i \in 1 .. NumFaults, Panic(i) PROVE AtomicIInv'
  BY <1>3 DEF Panic, AtomicIInv, AnswerIsAtomic, Answered
<1>4. ASSUME NEW i \in 1 .. NumFaults, Strike(i) PROVE AtomicIInv'
  <2>1. /\ phase' = "done" /\ result' = Outcome(i, event.message)
        /\ Applies(i, event.message)
        /\ \A j \in 1 .. i - 1 : ~ Applies(j, event.message)
    BY <1>4 DEF Strike, Trying, Strikes, AtomicIInv
  <2>2. result' = PlannedAnswer(event.message)
    BY <2>1, FirstDecides
  <2> QED BY <1>2, <2>1, <2>2 DEF AtomicIInv, AnswerIsAtomic
<1>5. ASSUME NEW i \in 1 .. NumFaults, Skip(i) PROVE AtomicIInv'
  <2>1. /\ phase = "faults" /\ phase' = "faults" /\ nextFault = i
        /\ nextFault' = i + 1 /\ testFinished' = testFinished
        /\ testFinished \/ ~ Applies(i, event.message)
    BY <1>5 DEF Skip, Trying, Strikes
  <2>2. testFinished \/ \A j \in 1 .. i : ~ Applies(j, event.message)
    BY <2>1 DEF AtomicIInv
  <2>3. testFinished' \/ \A j \in 1 .. nextFault' - 1 :
                           ~ Applies(j, event.message)'
    BY <1>2, <2>1, <2>2
  <2> QED BY <2>1, <2>3 DEF AtomicIInv, AnswerIsAtomic, Answered
<1>6. CASE Deliver
  BY <1>1, <1>6 DEF Deliver, AtomicIInv, AnswerIsAtomic, Answered
<1>7. ASSUME \/ LivenessTimer \/ TestTimeout \/ UNCHANGED vars
      PROVE  AtomicIInv'
  <2>1. /\ UNCHANGED <<phase, nextFault, result, label>>
        /\ testFinished => testFinished'
    BY <1>7 DEF LivenessTimer, TestTimeout, vars, handler, verdict
  <2>2. phase' = "faults" =>
          \/ testFinished'
          \/ \A j \in 1 .. nextFault' - 1 : ~ Applies(j, event.message)'
    BY <1>2, <2>1 DEF AtomicIInv
  <2>3. AnswerIsAtomic'
    BY <1>1, <1>2, <2>1 DEF AtomicIInv, AnswerIsAtomic, Answered
  <2> QED BY <2>1, <2>2, <2>3 DEF AtomicIInv
<1> QED BY <1>3, <1>4, <1>5, <1>6, <1>7

\* For every plan and wherever the timer fires, a message gets the answer of
\* the first fault that applies to it, or is delivered: no fault that an
\* earlier one shadows ever acts (instance.go:112-132).
THEOREM Atomic == Spec => []AnswerIsAtomic
<1>1. Init => AtomicIInv
  BY DEF Init, AtomicIInv, AnswerIsAtomic, Answered
<1>2. TypeOK /\ AtomicIInv /\ [Next]_vars => AtomicIInv'
  BY AtomicBegin, AtomicFilters DEF Next, HandlerStep
<1>3. AtomicIInv => AnswerIsAtomic
  BY DEF AtomicIInv
<1> QED BY <1>1, <1>2, <1>3, TypeCorrect, PTL DEF Spec

\* The answer to a message of a correct node on a correct link.
LEMMA CorrectLinkStep ==
  TypeOK /\ CorrectLinkUntouched /\ [Next]_vars => CorrectLinkUntouched'
<1> SUFFICES ASSUME TypeOK, CorrectLinkUntouched, [Next]_vars
             PROVE  CorrectLinkUntouched'
  OBVIOUS
<1>1. ASSUME NEW r \in Replica, NEW height \in RT!Height,
             NEW round \in RT!Round, NewStep(r, height, round)
      PROVE  ~ Answered'
  BY <1>1 DEF NewStep, Begin, Answered
<1>2. ASSUME NEW r \in Replica, NEW height \in RT!Height,
             NEW block \in CommitBlocks, Commit(r, height, block)
      PROVE  ~ Answered'
  BY <1>2 DEF Commit, Begin, Answered
<1>3. ASSUME \/ \E m \in Messages : Send(m) \/ Receive(m)
             \/ LogEvents \/ Dispatch
             \/ \E i \in 1 .. NumFaults : Panic(i) \/ Skip(i)
      PROVE  ~ Answered'
  BY <1>3 DEF Send, Receive, MessageEvent, Begin, EndTestOr, LogEvents,
              Dispatch, Panic, Skip, Trying, verdict, Answered
<1>4. ASSUME NEW i \in 1 .. NumFaults, Strike(i)
      PROVE  CorrectLinkUntouched'
  <2>1. Applies(i, event.message) /\ event' = event
    BY <1>4 DEF Strike, Strikes
  <2>2. CASE IsDrop(i)
    <3>1. i \in 1 .. Len(Drops)
      BY <2>2, PlanAssumption DEF IsDrop, NumFaults
    <3> QED BY <2>1, <2>2, <3>1
            DEF Applies, DropApplies, CorrectLinkUntouched
  <2>3. CASE ~ IsDrop(i)
    <3>1. i - Len(Drops) \in 1 .. Len(Corruptions)
      BY <2>3, PlanAssumption DEF IsDrop, NumFaults
    <3>2. Corruptions[i - Len(Drops)].from = event.message.from
      BY <2>1, <2>3 DEF Applies, CorruptionApplies, Corrupting
    <3> QED BY <2>1, <3>1, <3>2 DEF CorrectLinkUntouched
  <2> QED BY <2>2, <2>3
<1>5. CASE Deliver
  BY <1>5 DEF Deliver, CorrectLinkUntouched
<1>6. ASSUME \/ LivenessTimer \/ TestTimeout \/ UNCHANGED vars
      PROVE  CorrectLinkUntouched'
  <2>1. UNCHANGED <<phase, event, result, label>>
    BY <1>6 DEF LivenessTimer, TestTimeout, vars, handler, verdict
  <2> QED BY <2>1 DEF CorrectLinkUntouched, Answered
<1> QED BY <1>1, <1>2, <1>3, <1>4, <1>5, <1>6
        DEF Next, HandlerStep, CorrectLinkUntouched

\* Between correct nodes that no drop isolates, every plan leaves every message
\* alone.
THEOREM CorrectLink == Spec => []CorrectLinkUntouched
<1>1. Init => CorrectLinkUntouched
  BY DEF Init, CorrectLinkUntouched, Answered
<1> QED BY <1>1, CorrectLinkStep, TypeCorrect, PTL DEF Spec
=============================================================================
