---------------------------- MODULE ByzzFuzzInst ----------------------------
(***************************************************************************)
(* One ByzzFuzz test case (byzzfuzz/instance.go): the test server reads    *)
(* the events of the replicas one at a time, moves the state machine that  *)
(* decides the verdict, and runs the filters in the order in which         *)
(* ByzzFuzzInst adds them.  A message is sent on only when the server      *)
(* answers its send event with it.                                         *)
(*                                                                         *)
(* A handler runs in three stages, because two things happen beside it:    *)
(* the goroutine of the liveness timer (liveness/liveness.go) raises       *)
(* BF_test_finished at any moment, and the conditions of the faults read   *)
(* it anew; and spec.Log stops the handler while its channel is full.      *)
(*   idle    waiting for the next event                                    *)
(*   log     the state machine and trackTotalRounds are done               *)
(*   faults  nextFault is the next fault to try on the message             *)
(*   done    result holds the messages to deliver                          *)
(*   panicked  a condition of a fault panicked; the server is gone         *)
(***************************************************************************)
EXTENDS Integers, Sequences, FiniteSets

CONSTANTS Replica,        \* indices of the replicas
          Block,          \* block ids
          NilBlock,       \* the id of no block
          MaxHeight,      \* bound on the heights replicas report
          MaxRound,       \* bound on the rounds replicas report
          TargetHeight,   \* maxHeight of instance.go
          Drops,          \* the plan: a sequence of MessageDrop
          Corruptions,    \* the plan: a sequence of MessageCorruption
          LivenessWindow, \* livenessTimeout > 0
          SpecCapacity,   \* capacity of specEventCh, 10000 in the code
          Messages,       \* the messages replicas may send
          CommitBlocks,   \* the blocks replicas may commit
          CommitOnce,     \* TRUE: no replica commits twice at one height
          MaxBlockIds     \* bound on the length of BF_blockids

VARIABLES prevHeight, prevRound, totalRounds, totalRoundForHeightRound,
          label,          \* state of the test state machine
          blockIdHeight,  \* BF_block_id_height_<height>
          testFinished,   \* BF_test_finished
          blockids,       \* BF_blockids
          queued,         \* number of elements in specEventCh
          ended,          \* the test case is over: EndTestCase or timeout
          phase, event, nextFault, result,
          \* History, read by no action:
          healedBefore,   \* testFinished when the current event began
          struck,         \* struck[i]: the <<sender, position>> fault i hit
          committed,      \* the <<replica, height, block>> commits reported
          heightsAtHeal   \* the heights committed when the timer fired

RT == INSTANCE RoundTracking
INSTANCE Faults

ASSUME PlanAssumption ==
  /\ Drops \in Seq(MessageDrop)
  /\ Corruptions \in Seq(MessageCorruption)

ASSUME InstAssumption ==
  /\ MaxHeight \in Nat \ {0} /\ MaxRound \in Nat
  /\ Messages \subseteq Message
  /\ CommitBlocks \subseteq Block
  /\ NilBlock \notin Block
  /\ SpecCapacity \in Nat /\ MaxBlockIds \in Nat /\ TargetHeight \in Nat
  /\ LivenessWindow \in BOOLEAN /\ CommitOnce \in BOOLEAN

tracker == <<prevHeight, prevRound, totalRounds, totalRoundForHeightRound>>
handler == <<phase, event, nextFault, result>>
history == <<healedBefore, struck, committed, heightsAtHeal>>
verdict == <<label, blockIdHeight, ended>>

vars == <<tracker, handler, history, verdict, testFinished, blockids, queued>>

NumFaults == Len(Drops) + Len(Corruptions)

NoEvent == [kind |-> "none"]

Event ==
  [kind : {"newStep"}, replica : Replica, height : RT!Height, round : RT!Round]
    \cup
  [kind : {"commit"}, replica : Replica, height : RT!Height, block : Block]
    \cup
  [kind : {"send", "receive"}, message : Messages]

Init ==
  /\ RT!Init
  /\ label = "init"
  /\ blockIdHeight = [h \in RT!Height |-> NilBlock]
  /\ testFinished = FALSE
  /\ blockids = <<>>
  /\ queued = 0
  /\ ended = FALSE
  /\ phase = "idle" /\ event = NoEvent /\ nextFault = 1 /\ result = <<>>
  /\ healedBefore = FALSE
  /\ struck = [i \in 1 .. NumFaults |-> {}]
  /\ committed = {}
  /\ heightsAtHeal = {}

-----------------------------------------------------------------------------
(***************************************************************************)
(* The first part of a handler: the state machine, then endTest or         *)
(* trackTotalRounds.                                                       *)
(***************************************************************************)

Begin(e) ==
  /\ phase = "idle" /\ ~ ended
  /\ event' = e
  /\ healedBefore' = testFinished
  /\ UNCHANGED <<testFinished, blockids, queued, nextFault, result, struck,
                 heightsAtHeal>>

\* endTest is the first filter and handles every event in the success state.
EndTestOr(filters) ==
  IF label' = "success"
  THEN ended' = TRUE /\ phase' = "done" /\ UNCHANGED tracker
  ELSE filters /\ phase' = "log" /\ UNCHANGED ended

\* A newStep event.  common.HeightReached(maxHeight) is true once a replica
\* reports the target height.
NewStep(r, height, round) ==
  /\ Begin([kind |-> "newStep", replica |-> r, height |-> height,
            round |-> round])
  /\ RT!Follows(r, height, round)
  /\ label' = IF label = "init" /\ height >= TargetHeight
              THEN "success" ELSE label
  /\ EndTestOr(RT!trackTotalRounds(r, height, round))
  /\ UNCHANGED <<blockIdHeight, committed>>

\* spec.DiffCommits: remembers the first block committed at a height, and
\* reports any other.
DiffCommits(height, block) ==
  blockIdHeight[height] \notin {NilBlock, block}

FirstCommit(height, block) ==
  IF blockIdHeight[height] = NilBlock
  THEN [blockIdHeight EXCEPT ![height] = block]
  ELSE blockIdHeight

\* Mutant of CommitLabel: the transition to success is tried first.
SuccessFirst(height, block) ==
  IF label # "init" THEN label
  ELSE IF testFinished THEN "success"
  ELSE IF DiffCommits(height, block) THEN "diff-commits"
  ELSE "init"

\* Mutant of CommitLabel: the end of the faults is not waited for.
AnyCommitSucceeds(height, block) ==
  IF label # "init" THEN label
  ELSE IF DiffCommits(height, block) THEN "diff-commits"
  ELSE "success"

\* The label after a commit: DiffCommits is tried before IsCommit and
\* IsTestFinished, and only from the initial state.
CommitLabel(height, block) ==
  IF label # "init" THEN label
  ELSE IF DiffCommits(height, block) THEN "diff-commits"
  ELSE IF testFinished THEN "success"
  ELSE "init"

Heights(r) == {c[2] : c \in {d \in committed : d[1] = r}}

\* A replica commits the heights in order, a lagging one later than others.
MayCommit(r, height) ==
  /\ \A h \in RT!Height : h < height => h \in Heights(r)
  /\ CommitOnce => height \notin Heights(r)

\* A "Committing block" event.
Commit(r, height, block) ==
  /\ Begin([kind |-> "commit", replica |-> r, height |-> height,
            block |-> block])
  /\ MayCommit(r, height)
  /\ label' = CommitLabel(height, block)
  /\ blockIdHeight' = IF label = "init" THEN FirstCommit(height, block)
                      ELSE blockIdHeight
  /\ committed' = committed \cup {<<r, height, block>>}
  /\ EndTestOr(UNCHANGED tracker)

\* A message-send or message-receive event moves nothing yet.
MessageEvent(kind, m) ==
  /\ Begin([kind |-> kind, message |-> m])
  /\ m.type = "Proposal" => Len(blockids) < MaxBlockIds
  /\ UNCHANGED <<label, blockIdHeight, committed>>
  /\ EndTestOr(UNCHANGED tracker)

Send(m)    == MessageEvent("send", m)
Receive(m) == MessageEvent("receive", m)

-----------------------------------------------------------------------------
(***************************************************************************)
(* The second part: the logging filters.                                   *)
(***************************************************************************)
IsMessageEvent == event.kind \in {"send", "receive"}

\* spec.Log writes the steps of replicas and the votes they receive.
SpecLogs ==
  \/ event.kind = "newStep"
  \/ /\ event.kind = "receive"
     /\ IsVote(event.message) /\ event.message.round >= 0

\* logBlockIds keeps the block of every proposal, sent or received.
BlockIdsLogged ==
  IF /\ IsMessageEvent
     /\ event.message.type = "Proposal" /\ event.message.block # NilBlock
  THEN Append(blockids, event.message.block)
  ELSE blockids

\* Mutant of LogEvents: the channel never fills up.
LogEventsUnbounded ==
  /\ phase = "log"
  /\ queued' = IF SpecLogs THEN queued + 1 ELSE queued
  /\ blockids' = BlockIdsLogged
  /\ phase' = IF event.kind = "send" THEN "faults" ELSE "done"
  /\ UNCHANGED <<tracker, event, nextFault, result, history, verdict,
                 testFinished>>

\* Mutant of LogEvents: every event waits for room, also one not logged, and
\* the last slot is never used.
LogEventsOneShort ==
  /\ queued < SpecCapacity - 1
  /\ LogEventsUnbounded

\* The send on the channel waits for room; no one reads before the test ends.
LogEvents ==
  /\ phase = "log"
  /\ SpecLogs => queued < SpecCapacity
  /\ queued' = IF SpecLogs THEN queued + 1 ELSE queued
  /\ blockids' = BlockIdsLogged
  /\ phase' = IF event.kind = "send" THEN "faults" ELSE "done"
  /\ UNCHANGED <<tracker, event, nextFault, result, history, verdict,
                 testFinished>>

-----------------------------------------------------------------------------
(***************************************************************************)
(* The third part, for send events: one filter for each drop, then one for *)
(* each corruption.  The first that applies decides.                       *)
(***************************************************************************)
IsDrop(i) == i <= Len(Drops)

Corrupting(i) == Corruptions[i - Len(Drops)]

\* Mutant of DropApplies: a drop lasts from its round on.
LastingDropApplies(d, m) ==
  /\ m.round # -1
  /\ totalRounds[m.from] >= RoundOf(d.step)
  /\ m.type = MessageType(d.step)
  /\ FromToIsolated(d.partition, m)

\* Mutant of CorruptionApplies: the sender is not looked at.
AnyonesCorruptionApplies(c, m) ==
  /\ m.round # -1
  /\ RT!MessageOfTotalRound(m.from, m.height, m.round, RoundOf(c.step))
  /\ m.type = MessageType(c.step)
  /\ IsMessageToOneOf(c.to, m)

\* What the conditions of a filter require, other than ~ IsTestFinished.
DropApplies(d, m) ==
  /\ m.round # -1
  /\ RT!SenderInTotalRound(m.from, RoundOf(d.step))
  /\ m.type = MessageType(d.step)
  /\ FromToIsolated(d.partition, m)

CorruptionApplies(c, m) ==
  /\ m.round # -1
  /\ RT!MessageOfTotalRound(m.from, m.height, m.round, RoundOf(c.step))
  /\ m.type = MessageType(c.step)
  /\ m.from = c.from
  /\ IsMessageToOneOf(c.to, m)

\* What the filter of fault i answers with.
Applies(i, m) == IF IsDrop(i) THEN DropApplies(Drops[i], m)
                 ELSE CorruptionApplies(Corrupting(i), m)

Outcome(i, m) == IF IsDrop(i) THEN <<>>
                 ELSE Action(Corrupting(i), blockids, m)

\* The position a fault strikes: a drop the sender's, a corruption the
\* message's.
Position(i, m) == IF IsDrop(i) THEN RT!Current(m.from)
                  ELSE <<m.height, m.round>>

Trying(i) == phase = "faults" /\ nextFault = i /\ i <= NumFaults

\* isMessageFromTotalRound and isMessageOfTotalRound panic when the message of
\* the event cannot be read.
Panic(i) ==
  /\ Trying(i)
  /\ ~ testFinished /\ event.message.type = "Unparsed"
  /\ phase' = "panicked"
  /\ UNCHANGED <<tracker, event, nextFault, result, history, verdict,
                 testFinished, blockids, queued>>

\* Mutant of Strikes: the conditions of faults ignore the end of the test.
StrikesForever(i) == Applies(i, event.message)

\* Mutant of Strikes: only the drops end.
CorruptsForever(i) ==
  (IsDrop(i) => ~ testFinished) /\ Applies(i, event.message)

\* The condition of fault i, which reads the flag first.
Strikes(i) == ~ testFinished /\ Applies(i, event.message)

\* dropMessageLoudly or an action of corruption.go.
Strike(i) ==
  /\ Trying(i)
  /\ event.message.type # "Unparsed" /\ Strikes(i)
  /\ result' = Outcome(i, event.message)
  /\ phase' = "done"
  /\ struck' = [struck EXCEPT ![i] =
                  @ \cup {<<event.message.from, Position(i, event.message)>>}]
  /\ UNCHANGED <<tracker, event, nextFault, healedBefore, committed,
                 heightsAtHeal, verdict, testFinished, blockids, queued>>

Skip(i) ==
  /\ Trying(i)
  /\ event.message.type = "Unparsed" => testFinished
  /\ ~ Strikes(i)
  /\ nextFault' = i + 1
  /\ UNCHANGED <<tracker, phase, event, result, history, verdict,
                 testFinished, blockids, queued>>

\* No filter handled the send event: the message is delivered.
Deliver ==
  /\ phase = "faults" /\ nextFault > NumFaults
  /\ result' = <<event.message>>
  /\ phase' = "done"
  /\ UNCHANGED <<tracker, event, nextFault, history, verdict, testFinished,
                 blockids, queued>>

\* The server dispatches the result and takes the next event.
Dispatch ==
  /\ phase = "done"
  /\ phase' = "idle" /\ event' = NoEvent /\ nextFault' = 1 /\ result' = <<>>
  /\ UNCHANGED <<tracker, history, verdict, testFinished, blockids, queued>>

-----------------------------------------------------------------------------
\* The goroutine of SetupLivenessTimer wakes up.
LivenessTimer ==
  /\ ~ testFinished /\ phase # "panicked"
  /\ testFinished' = TRUE
  /\ heightsAtHeal' = {c[2] : c \in committed}
  /\ UNCHANGED <<tracker, handler, healedBefore, struck, committed, verdict,
                 blockids, queued>>

\* The test case times out after timeout + livenessTimeout.
TestTimeout ==
  /\ ~ ended /\ phase # "panicked"
  /\ LivenessWindow => testFinished
  /\ ended' = TRUE
  /\ UNCHANGED <<tracker, handler, history, label, blockIdHeight,
                 testFinished, blockids, queued>>

HandlerStep ==
  \/ LogEvents
  \/ \E i \in 1 .. NumFaults : Panic(i) \/ Strike(i) \/ Skip(i)
  \/ Deliver
  \/ Dispatch

Next ==
  \/ \E r \in Replica, height \in RT!Height, round \in RT!Round :
       NewStep(r, height, round)
  \/ \E r \in Replica, height \in RT!Height, block \in CommitBlocks :
       Commit(r, height, block)
  \/ \E m \in Messages : Send(m) \/ Receive(m)
  \/ HandlerStep
  \/ LivenessTimer
  \/ TestTimeout

Spec == Init /\ [][Next]_vars

\* The server keeps running its handler; nothing is asked of the replicas.
FairSpec == Spec /\ WF_vars(HandlerStep)

-----------------------------------------------------------------------------
(***************************************************************************)
(* Properties.                                                             *)
(***************************************************************************)

\* Every variable holds what the code may store in it.
TypeOK ==
  /\ RT!TypeOK
  /\ label \in {"init", "diff-commits", "success"}
  /\ blockIdHeight \in [RT!Height -> Block \cup {NilBlock}]
  /\ testFinished \in BOOLEAN /\ ended \in BOOLEAN
  /\ blockids \in Seq(Block) /\ queued \in 0 .. SpecCapacity
  /\ phase \in {"idle", "log", "faults", "done", "panicked"}
  /\ event \in Event \cup {NoEvent}
  /\ phase = "faults" => event.kind = "send"
  /\ nextFault \in 1 .. NumFaults + 1
  /\ result \in Seq(Message)
  /\ healedBefore \in BOOLEAN
  /\ struck \in [1 .. NumFaults -> SUBSET (Replica \X RT!Position)]
  /\ committed \subseteq Replica \X RT!Height \X Block
  /\ heightsAtHeal \subseteq RT!Height

\* A fault names one protocol step, so over the whole test it strikes each
\* sender in at most one height and round, however many rounds the senders
\* skip and whenever their messages are repeated (roundTracking.go:79-130).
FaultStrikesOneRound ==
  \A i \in 1 .. NumFaults : \A x, y \in struck[i] : x[1] = y[1] => x = y

\* Why: every position a fault struck still carries the total round of the
\* fault, and no two positions of a sender carry the same one.
FaultRound(i) == RoundOf(IF IsDrop(i) THEN Drops[i].step
                         ELSE Corrupting(i).step)

StruckNumbered ==
  \A i \in 1 .. NumFaults : \A x \in struck[i] :
    totalRoundForHeightRound[x[1]][x[2]] = FaultRound(i)

\* The inductive invariant of the test case.
IInv == TypeOK /\ RT!IInv /\ StruckNumbered

Answered == phase = "done" /\ event.kind = "send" /\ label # "success"

\* "Ceasing all drops and corruptions": the answer to a message sent after
\* the liveness timer fired is that message.
HealedNetworkUntouched ==
  Answered /\ healedBefore => result = <<event.message>>

\* The faults of the plan that apply to the message, as if the network were
\* not about to heal, and the answer of the first of them.
Applicable(m) == {i \in 1 .. NumFaults : Applies(i, m)}

PlannedAnswer(m) ==
  IF Applicable(m) = {} THEN <<m>>
  ELSE Outcome(CHOOSE i \in Applicable(m) :
                 \A j \in Applicable(m) : i <= j, m)

\* The timer may fire between two filters of one event.  The message is then
\* treated either as the plan says or not at all, never by a later fault that
\* the plan shadows with an earlier one.
AnswerIsAtomic ==
  Answered => result \in {<<event.message>>, PlannedAnswer(event.message)}

\* A node is correct when no corruption names it, and a link is correct when no
\* drop isolates its ends: over a correct link, correct nodes talk unharmed.
CorrectLinkUntouched ==
  LET m == event.message IN
  /\ Answered
  /\ \A i \in 1 .. Len(Corruptions) : Corruptions[i].from # m.from
  /\ \A i \in 1 .. Len(Drops) : ~ FromToIsolated(Drops[i].partition, m)
  => result = <<m>>

\* Two blocks were committed at one height, by one replica or by two.
Disagreement ==
  \E c, d \in committed : c[2] = d[2] /\ c[3] # d[3]

\* The test carries the diff-commits label exactly when replicas disagreed
\* (Agreement and Integrity, README.md:50-62), also when the disagreeing
\* commit comes after the network healed, where a commit means success.
DisagreementCaught == label = "diff-commits" <=> Disagreement

\* The success label needs "a new commit after the network heals"
\* (cmd/server.go:53), or the target height.
SuccessIsProgress ==
  label = "success" /\ event.kind = "commit" =>
    \E c \in committed : \A h \in heightsAtHeal : c[2] > h

\* A corruption that strikes changes what the receiver gets, once there is a
\* block id to change it to.
StrikeHasEffect ==
  /\ Answered /\ nextFault <= NumFaults /\ blockids # <<>>
  => result # <<event.message>>

\* Every event is answered, unless the log channel is full or the server
\* panicked.
HandlerReturns ==
  phase # "idle" ~> \/ phase \in {"idle", "panicked"}
                    \/ queued = SpecCapacity

\* The verdict does not depend on the plan: the commits, the end of faults and
\* the steps of the target height settle the label, as in TestVerdict
\* (instance.go:97-101), and nothing else moves it.
Reported == IF event.kind = "newStep" THEN event.height ELSE 0

V == INSTANCE TestVerdict
       WITH Height <- RT!Height, healed <- testFinished, reported <- Reported,
            Targets <- {height \in RT!Height : height >= TargetHeight}

Verdict == V!Spec
=============================================================================
