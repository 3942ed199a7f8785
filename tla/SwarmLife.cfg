CONSTANTS
  a1 = a1
  Agents = {a1}
  MaxRuns = 2
  MaxCrashes = 1
  AwaitExit = TRUE
SPECIFICATION FairSpec
CHECK_DEADLOCK FALSE
INVARIANTS OneRunner LeaseLasts RecordKept
PROPERTY StopEnds
