CONSTANTS
  Verbs = {"prompt", "retry"}
  Fates = {"ok", "retry", "image", "fatal"}
  People = {"queue", "cancel"}
  Faults = {"disk", "crash"}
  MaxRuns = 2
  MaxSteps = 2
  MaxRetries = 1
  MaxImages = 1
  MaxCalls = 1
  MaxTexts = 2
  KeepTail = 1
SPECIFICATION FairSpec
CHECK_DEADLOCK FALSE
INVARIANTS TypeOK LiveIsDurable OneReplyEach
PROPERTY CancelEnds
