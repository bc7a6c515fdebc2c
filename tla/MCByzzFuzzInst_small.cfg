\* Faults against moving senders, with the liveness timer firing at any time.
SPECIFICATION Spec
CONSTANTS
  b1 = b1
  b2 = b2
  NilBlock = NilBlock
  Replica = {0, 1, 2}
  Block = {b1, b2}
  MaxHeight = 3
  MaxRound = 1
  TargetHeight = 3
  Drops <- SmallDrops
  Corruptions <- SmallCorruptions
  LivenessWindow = TRUE
  SpecCapacity = 4
  Messages <- SmallMessages
  CommitBlocks = {}
  CommitOnce = TRUE
  MaxBlockIds = 1
INVARIANTS
  TypeOK
  FaultStrikesOneRound
  HealedNetworkUntouched
  AnswerIsAtomic
  CorrectLinkUntouched
CHECK_DEADLOCK FALSE
