CONSTANTS
  Verbs = {"prompt", "retry", "advance", "continue", "direct"}
  Fates = {"ok", "retry", "image", "fatal"}
  People = {"queue", "unqueue", "cancel"}
  Faults = {"disk", "crash"}
  MaxRuns = 2
  MaxSteps = 2
  MaxRetries = 1
  MaxImages = 0
  MaxCalls = 1
  MaxTexts = 2
  KeepTail = 1
SPECIFICATION Spec
CHECK_DEADLOCK FALSE
PROPERTIES EffectOnRecord NoLateEffect WithdrawsItsOwn
