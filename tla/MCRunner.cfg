CONSTANTS
  Mode = {"fuzz", "run-instance", "verify", "unittest", "reference", "baseline", "netrix"}
  Iterations = 2
  Events <- ReportedEvents
  Node = {2}
  Faulty = 0
  Capacity = 2
  MaxTests = 2
  MaxEvents = 3
  MaxCrashes = 1
  MaxSignals = 1
SPECIFICATION FairSpec
INVARIANTS TypeOK RowsHaveTheirLogs OnlyCrashesLoseLogs InterruptEndsLoop FreshCluster
PROPERTIES TestsEnd
CHECK_DEADLOCK FALSE
