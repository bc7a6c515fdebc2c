---------------------------- MODULE BaselineCase ----------------------------
(***************************************************************************)
(* The baseline test case (byzzfuzz/baseline.go): the state machine and    *)
(* the numbering of rounds of a ByzzFuzz test case, no plan and no log of  *)
(* events, but two filters that drop any consensus message and garble any  *)
(* of node0, both with a certain chance.  What it shares with ByzzFuzzInst *)
(* is taken from there, as an instance with the empty plan and no target   *)
(* height.  nextFault is the filter to try next: 1 drops, 2 garbles, 3 is  *)
(* the end.  A chance is a choice.                                         *)
(***************************************************************************)
EXTENDS Integers, Sequences, FiniteSets

CONSTANTS Replica, Block, NilBlock, MaxHeight, MaxRound, Messages,
          CommitBlocks, CommitOnce    \* see ByzzFuzzInst

VARIABLES prevHeight, prevRound, totalRounds, totalRoundForHeightRound,
          label, blockIdHeight, testFinished, blockids, queued, ended,
          phase, event, nextFault, result,
          healedBefore, struck, committed, heightsAtHeal

BF == INSTANCE ByzzFuzzInst
        WITH Drops <- <<>>, Corruptions <- <<>>,
             TargetHeight <- MaxHeight + 1,
             LivenessWindow <- TRUE,        \* two minutes, healed after one
             SpecCapacity <- 0, MaxBlockIds <- 1

others == <<prevHeight, prevRound, totalRounds, totalRoundForHeightRound,
            label, blockIdHeight, testFinished, blockids, queued, ended, event,
            healedBefore, struck, committed, heightsAtHeal>>

vars == <<others, phase, nextFault, result>>

Init == BF!Init

-----------------------------------------------------------------------------
\* Mutant of IsConsensusMessage: any message is one.
IsAnyMessage(m) == m.type # "Unparsed"

IsConsensusMessage(m) == m.type \in {"Proposal", "Prevote", "Precommit"}

\* Mutant of randomlyPick: the end of the test is not looked at.
PickAlways == TRUE

\* randomlyPick may say yes.
randomlyPick == ~ testFinished

\* A bit of the encoded message is flipped: it no longer decodes, or says
\* something else.
garbled(m) ==
  {[m EXCEPT !.type = "Unparsed"]}
    \cup {[m EXCEPT !.block = b] : b \in (Block \cup {NilBlock}) \ {m.block}}

\* The logging filter handles nothing.
LogConsensusMessages ==
  /\ phase = "log"
  /\ phase' = IF event.kind = "send" THEN "faults" ELSE "done"
  /\ UNCHANGED <<others, nextFault, result>>

Trying(filter) == phase = "faults" /\ nextFault = filter

RandomDrop ==
  /\ Trying(1) /\ randomlyPick /\ IsConsensusMessage(event.message)
  /\ result' = <<>> /\ phase' = "done"
  /\ UNCHANGED <<others, nextFault>>

\* The bytes are as they were when the changed message cannot be encoded.
GarbleMessage ==
  /\ Trying(2) /\ event.message.from = 0
  /\ randomlyPick /\ IsConsensusMessage(event.message)
  /\ \E m \in garbled(event.message) \cup {event.message} : result' = <<m>>
  /\ phase' = "done"
  /\ UNCHANGED <<others, nextFault>>

\* The condition of a filter does not hold, or the chance is not taken.
Skip(filter) ==
  /\ Trying(filter)
  /\ nextFault' = filter + 1
  /\ UNCHANGED <<others, phase, result>>

Deliver == nextFault = 3 /\ BF!Deliver

HandlerStep ==
  \/ LogConsensusMessages \/ RandomDrop \/ GarbleMessage \/ Skip(1) \/ Skip(2)
  \/ Deliver \/ BF!Dispatch

Next ==
  \/ \E r \in Replica, height \in 1 .. MaxHeight, round \in 0 .. MaxRound :
       BF!NewStep(r, height, round)
  \/ \E r \in Replica, height \in 1 .. MaxHeight, block \in CommitBlocks :
       BF!Commit(r, height, block)
  \/ \E m \in Messages : BF!Send(m) \/ BF!Receive(m)
  \/ HandlerStep
  \/ BF!LivenessTimer
  \/ BF!TestTimeout

Spec == Init /\ [][Next]_vars

-----------------------------------------------------------------------------
(***************************************************************************)
(* Properties.                                                             *)
(***************************************************************************)
HealedNetworkUntouched == BF!HealedNetworkUntouched

\* Only node0 lies: what another node sends is delivered as it is or not at
\* all, and only messages of the consensus are lost or changed.
OnlyNode0Lies ==
  BF!Answered /\ result # <<event.message>> =>
    /\ event.message.type \in {"Proposal", "Prevote", "Precommit"}
    /\ result = <<>> \/ event.message.from = 0
=============================================================================
