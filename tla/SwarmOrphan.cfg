CONSTANTS
  a1 = a1
  Agents = {a1}
  MaxRuns = 2
  MaxCrashes = 1
  AwaitExit = TRUE
SPECIFICATION Spec
CHECK_DEADLOCK FALSE
INVARIANTS LastEnded
