SPECIFICATION FairSpec
CONSTANTS
  Kinds <- AllKinds
  MaxQueuedEvents = 2
  MaxChunks = 1
  MaxResizes = 1
  MaxWriteFailures = 0
INVARIANT NothingForgotten
PROPERTIES CloseReleases EndIsNoticed
CHECK_DEADLOCK FALSE
