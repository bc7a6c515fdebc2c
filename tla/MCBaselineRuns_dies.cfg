CONSTANTS
  NumRuns = 3
  MaxKills = 2
SPECIFICATION FairSpec
PROPERTY AllRunsExecuted
CHECK_DEADLOCK FALSE
