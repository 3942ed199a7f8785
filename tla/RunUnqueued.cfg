CONSTANTS
  Verbs = {"prompt"}
  Fates = {"ok", "retry"}
  People = {"queue", "unqueue"}
  Faults = {}
  MaxRuns = 1
  MaxSteps = 2
  MaxRetries = 1
  MaxImages = 0
  MaxCalls = 0
  MaxTexts = 2
  KeepTail = 1
SPECIFICATION Spec
CHECK_DEADLOCK FALSE
PROPERTY AbandonsOnlyAttempts
