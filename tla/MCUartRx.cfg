CONSTANTS
  Capacity = 4
  HwDepth = 3
  Chunk = 3
  Threshold = 2
  QueueLen = 2
  Want = 3
  Rounds = 2
  MaxBytes = 8
SPECIFICATION FairSpec
INVARIANTS TypeOK StreamIsWhole EveryByteAnnounced
PROPERTIES HandlerEnds RecvEnds
CHECK_DEADLOCK FALSE
