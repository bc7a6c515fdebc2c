------------------------------ MODULE MCTestCases ------------------------------
(***************************************************************************)
(* A bounded instance of TestCases: two blocks, two replicas in the        *)
(* baseline test case, four nodes in a plan and in the reference test case.*)
(***************************************************************************)
EXTENDS TestCases

CONSTANTS b1, b2

Blocks == {b1, b2}

BaselineMsg(from, type, round) ==
  [from |-> from, to |-> 1 - from, type |-> type, height |-> 1,
   round |-> round, block |-> b1, author |-> from, signer |-> from]

\* Consensus messages of node0 and of another one, and one of no round.
MCBaselineMessages ==
  {BaselineMsg(0, "Prevote", 0), BaselineMsg(1, "Precommit", 0),
   BaselineMsg(0, "Other", -1)}

Nodes == 0 .. 3

\* Votes of each node in both rounds, and a proposal of round 1.
MCReferenceMessages ==
  [from : Nodes, to : {0, 2}, type : {"Prevote"}, round : {0, 1},
   block : {b1}]
    \cup {[from |-> 2, to |-> 0, type |-> "Proposal", round |-> 1,
           block |-> b1]}
=============================================================================
