CONSTANTS
  a1 = a1
  Agents = {a1}
  MaxRuns = 2
  MaxCrashes = 0
  AwaitExit = TRUE
SPECIFICATION Spec
CHECK_DEADLOCK FALSE
PROPERTIES StopSticks
