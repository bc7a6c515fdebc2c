\* A replica that lags behind commits an old block after the network healed.
SPECIFICATION Spec
CONSTANTS
  b1 = b1
  b2 = b2
  NilBlock = NilBlock
  Replica = {0, 1}
  Block = {b1, b2}
  MaxHeight = 3
  MaxRound = 0
  TargetHeight = 3
  Drops <- NoDrops
  Corruptions <- NoCorruptions
  LivenessWindow = TRUE
  SpecCapacity = 3
  Messages <- NoMessages
  CommitBlocks = {b1}
  CommitOnce = TRUE
  MaxBlockIds = 1
INVARIANTS
  SuccessIsProgress
CHECK_DEADLOCK FALSE
