\* The change of block id that any-scope fuzzing plans for proposals.
SPECIFICATION Spec
CONSTANTS
  b1 = b1
  b2 = b2
  NilBlock = NilBlock
  Replica = {0, 1, 2}
  Block = {b1, b2}
  MaxHeight = 2
  MaxRound = 0
  TargetHeight = 3
  Drops <- NoDrops
  Corruptions <- AnyScopeCorruptions
  LivenessWindow = TRUE
  SpecCapacity = 3
  Messages <- AnyScopeMessages
  CommitBlocks = {}
  CommitOnce = TRUE
  MaxBlockIds = 1
INVARIANTS
  StrikeHasEffect
CHECK_DEADLOCK FALSE
