SPECIFICATION QtFairSpec
CONSTANTS
  Kinds <- OnlySsh
  MaxQueuedEvents = 2
  MaxChunks = 2
  MaxResizes = 0
  MaxWriteFailures = 0
PROPERTY KeepsPromise
CHECK_DEADLOCK FALSE
