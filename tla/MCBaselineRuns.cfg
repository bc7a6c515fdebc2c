CONSTANTS
  NumRuns = 4
  MaxKills = 2
SPECIFICATION Spec
INVARIANTS TypeOK KillSpoilsOneLog
PROPERTY LogsAreKept
CHECK_DEADLOCK FALSE
