------------------------------- MODULE TestCases -------------------------------
(***************************************************************************)
(* What the subcommands that do not run a ByzzFuzz test case run instead,  *)
(* or first: "fuzz" draws a plan of faults (FuzzConfig), "baseline" runs   *)
(* the baseline test case (BaselineCase) and "unittest" the reference test *)
(* case (ExpectNewRound).  The three have nothing in common: a behaviour   *)
(* is one of one of them, chosen by the subcommand.                        *)
(***************************************************************************)
EXTENDS Integers, Sequences, FiniteSets

CONSTANTS Block, NilBlock,
          Steps, MaxFaults,                        \* see FuzzConfig
          BaselineReplica, MaxHeight, MaxRound,    \* see ByzzFuzzInst
          BaselineMessages, CommitOnce,
          ReferenceReplica, ReferenceF,            \* see ExpectNewRound
          ReferenceMessages, MaxReceived

VARIABLES subcommand,
          source, steps, nDrops, nCorruptions, byzantineNode, drops,
          corruptions, pc,
          prevHeight, prevRound, totalRounds, totalRoundForHeightRound,
          label, blockIdHeight, testFinished, blockids, queued, ended,
          phase, event, nextFault, result,
          healedBefore, struck, committed, heightsAtHeal,
          refLabel, round1ToH, firstBlock, refEvent, refResult, moved

plan     == <<source, steps, nDrops, nCorruptions, byzantineNode, drops,
              corruptions, pc>>
baseline == <<prevHeight, prevRound, totalRounds, totalRoundForHeightRound,
              label, blockIdHeight, testFinished, blockids, queued, ended,
              phase, event, nextFault, result,
              healedBefore, struck, committed, heightsAtHeal>>
reference == <<refLabel, round1ToH, firstBlock, refEvent, refResult, moved>>

vars == <<subcommand, plan, baseline, reference>>

P == INSTANCE FuzzConfig
B == INSTANCE BaselineCase
       WITH Replica <- BaselineReplica, Messages <- BaselineMessages,
            CommitBlocks <- Block
E == INSTANCE ExpectNewRound
       WITH Replica <- ReferenceReplica, Messages <- ReferenceMessages,
            F <- ReferenceF,
            label <- refLabel, event <- refEvent, result <- refResult

\* A plan has at least one step (MAX_STEPS is 10).
ASSUME PlanAssumption ==
  /\ Steps \subseteq Nat \ {0} /\ Steps # {}
  /\ MaxFaults \in Nat

\* The constants of the baseline test case are those of a test case, and
\* messages have the fields that the filters look at.
ASSUME CaseAssumption ==
  /\ B!BF!InstAssumption
  /\ ReferenceMessages \subseteq
       [from : ReferenceReplica, to : ReferenceReplica, type : P!F!Type,
        round : Int, block : Block \cup {NilBlock}]

-----------------------------------------------------------------------------
Init ==
  /\ subcommand \in {"fuzz", "baseline", "unittest"}
  /\ P!Init /\ B!Init /\ E!Init
  /\ subcommand # "fuzz" =>
       /\ source = "Lagging" /\ nDrops = 0 /\ nCorruptions = 0
       /\ steps = CHOOSE n \in Steps : TRUE

Next ==
  \/ subcommand = "fuzz" /\ P!Next
       /\ UNCHANGED <<subcommand, baseline, reference>>
  \/ subcommand = "baseline" /\ B!Next
       /\ UNCHANGED <<subcommand, plan, reference>>
  \/ subcommand = "unittest" /\ E!Next
       /\ UNCHANGED <<subcommand, plan, baseline>>

Spec == Init /\ [][Next]_vars

-----------------------------------------------------------------------------
\* The properties of the three modules, stated there.
PlanFits                 == P!PlanFits
OneDropPerStep           == P!OneDropPerStep
SmallScopeCorruptionsAct == P!SmallScopeCorruptionsAct
HealedNetworkUntouched   == B!HealedNetworkUntouched
OnlyNode0Lies            == B!OnlyNode0Lies
VerdictIsMove            == E!VerdictIsMove
RoundZeroIsolated        == E!RoundZeroIsolated
=============================================================================
