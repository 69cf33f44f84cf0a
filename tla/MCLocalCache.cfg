CONSTANTS
  Procs = {g1, g2}
  TTL = 1
  Timeout = 1
  Buffer = 1
  MaxTime = 3
  MaxVersion = 1
  None = None
SPECIFICATION CacheSpec
SYMMETRY Symmetry
INVARIANTS AnswerIsRecent GoesBackOnlyIfCrossed
