CONSTANTS
  Verbs = {"prompt", "continue"}
  Fates = {"ok", "retry"}
  People = {"queue", "cancel"}
  Faults = {}
  MaxRuns = 2
  MaxSteps = 2
  MaxRetries = 1
  MaxImages = 0
  MaxCalls = 1
  MaxTexts = 0
  KeepTail = 9
SPECIFICATION Spec
CHECK_DEADLOCK FALSE
INVARIANT LiveIsDurable
