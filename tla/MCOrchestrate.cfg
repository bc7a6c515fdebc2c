CONSTANTS
  MaxFails = 2
  NumConfigs = 3
  MaxRows = 3
  MaxKills = 2
SPECIFICATION FairSpec
INVARIANTS TypeOK KillLosesOneLog LogsAreCounted DoneIsComplete
PROPERTIES DecidedIsFinal ReproduceEnds
CHECK_DEADLOCK FALSE
