\* A session that outgrew the window is resumed behind a compaction summary.
SPECIFICATION Spec
CONSTANTS
  Openings = 0
  Window = 1
  KeepTail = 0
  MaxBorn = 7
  MaxMsgs = 4
  MaxTakes = 2
  Mixes <- HeadMixes
CHECK_DEADLOCK FALSE
INVARIANT WindowMapped
