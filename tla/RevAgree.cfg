\* Live transcript and replayed file, through verbs, failed writes and reloads.
SPECIFICATION Spec
CONSTANTS
  Openings = 2
  Window = 3
  KeepTail = 1
  MaxBorn = 7
  MaxMsgs = 4
  MaxTakes = 3
  Mixes <- AgreeMixes
CHECK_DEADLOCK FALSE
INVARIANTS
  LiveIsReplayed
  SwipesAgree
PROPERTIES
  ShownIsOnFile
  EditKeepsOriginal
  AuthoredKept
