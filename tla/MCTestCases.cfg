\* Drawn plans, the baseline test case and the reference test case.
SPECIFICATION Spec
CONSTANTS
  b1 = b1
  b2 = b2
  NilBlock = NilBlock
  Block <- Blocks
  Steps = {1, 3}
  MaxFaults = 2
  BaselineReplica = {0, 1}
  MaxHeight = 2
  MaxRound = 0
  BaselineMessages <- MCBaselineMessages
  CommitOnce = TRUE
  ReferenceReplica <- Nodes
  ReferenceF = 1
  ReferenceMessages <- MCReferenceMessages
  MaxReceived = 3
INVARIANTS
  PlanFits
  OneDropPerStep
  SmallScopeCorruptionsAct
  HealedNetworkUntouched
  OnlyNode0Lies
  RoundZeroIsolated
PROPERTIES
  VerdictIsMove
CHECK_DEADLOCK FALSE
