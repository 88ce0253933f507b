SPECIFICATION QtSpec
CONSTANTS
  Kinds <- OnlySsh
  MaxQueuedEvents = 4
  MaxChunks = 1
  MaxResizes = 1
  MaxWriteFailures = 1
INVARIANTS NoLostWake EndIsTold
CHECK_DEADLOCK FALSE
