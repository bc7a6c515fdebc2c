\* Commits that agree or not, before and after the network heals; every event
\* is answered.
SPECIFICATION FairSpec
CONSTANTS
  b1 = b1
  b2 = b2
  NilBlock = NilBlock
  Replica = {0, 1}
  Block = {b1, b2}
  MaxHeight = 2
  MaxRound = 0
  TargetHeight = 2
  Drops <- PairDrops
  Corruptions <- PairCorruptions
  LivenessWindow = TRUE
  SpecCapacity = 2
  Messages <- PairMessages
  CommitBlocks = {b1, b2}
  CommitOnce = FALSE
  MaxBlockIds = 1
INVARIANTS
  DisagreementCaught
PROPERTIES
  HandlerReturns
  Verdict
CHECK_DEADLOCK FALSE
