--------------------------- MODULE MCByzzFuzzInst ---------------------------
(***************************************************************************)
(* Bounded instances of ByzzFuzzInst: the plans of faults and the messages *)
(* that TLC combines.                                                      *)
(***************************************************************************)
EXTENDS ByzzFuzzInst

CONSTANTS b1, b2

\* A message signed by its author.
Msg(from, to, type, height, round, author) ==
  [from |-> from, to |-> to, type |-> type, height |-> height,
   round |-> round, block |-> b1, author |-> author, signer |-> author]

Fault(step, from, to, corruption) ==
  [step |-> step, from |-> from, to |-> to, corruption |-> corruption,
   seed |-> 7]

\* Three replicas of which 1 is faulty.  Replica 2 is cut off for the prevotes
\* of total round 1, which the second corruption targets as well.
SmallDrops == <<[step |-> 4, partition |-> {{0, 1}, {2}}]>>

SmallCorruptions == <<Fault(1, 1, {0, 2}, "ChangeVoteToNil"),
                      Fault(4, 1, {0, 1, 2}, "ChangeVoteRound"),
                      Fault(3, 1, {0}, "ChangeProposalToNil")>>

\* Prevotes of the faulty node for three positions, two of which may have total
\* round 1; a proposal; votes of correct nodes; an unreadable message.
SmallMessages == {Msg(1, 0, "Prevote", 1, 0, 1),
                  Msg(1, 2, "Prevote", 1, 1, 1),
                  Msg(1, 2, "Prevote", 2, 0, 1),
                  Msg(1, 0, "Proposal", 1, 1, 1),
                  Msg(0, 1, "Prevote", 1, 1, 0),
                  Msg(0, 2, "Prevote", 1, 1, 0),
                  Msg(0, 1, "Unparsed", 0, 0, 0)}

\* Two replicas: a drop and a corruption for the prevotes of the first round,
\* one message for both.
PairDrops == <<[step |-> 1, partition |-> {{0}, {1}}]>>
PairCorruptions == <<Fault(1, 1, {0}, "ChangeVoteToNil")>>
PairMessages == {Msg(1, 0, "Prevote", 1, 0, 1)}

NoDrops == <<>>
NoCorruptions == <<>>
NoMessages == {}

\* Any-scope fuzzing plans a change of block id for proposals.
AnyScopeCorruptions == <<Fault(0, 1, {0, 2}, "ChangeBlockIdAnyScope")>>
AnyScopeMessages == {Msg(1, 2, "Proposal", 1, 0, 1)}
=============================================================================
