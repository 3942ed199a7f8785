CONSTANTS
  Verbs = {"prompt", "advance"}
  Fates = {"ok", "retry"}
  People = {"queue", "cancel"}
  Faults = {}
  MaxRuns = 2
  MaxSteps = 1
  MaxRetries = 1
  MaxImages = 0
  MaxCalls = 0
  MaxTexts = 0
  KeepTail = 1
SPECIFICATION Spec
CHECK_DEADLOCK FALSE
PROPERTY AbandonsOnlyAttempts
