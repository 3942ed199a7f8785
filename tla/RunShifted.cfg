CONSTANTS
  Verbs = {"prompt", "continue"}
  Fates = {"ok"}
  People = {"queue", "cancel"}
  Faults = {}
  MaxRuns = 2
  MaxSteps = 2
  MaxRetries = 0
  MaxImages = 0
  MaxCalls = 1
  MaxTexts = 5
  KeepTail = 1
SPECIFICATION Spec
CHECK_DEADLOCK FALSE
INVARIANT LiveIsDurable
