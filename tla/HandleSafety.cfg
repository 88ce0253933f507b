SPECIFICATION Spec
CONSTANTS
  Kinds <- AllKinds
  MaxQueuedEvents = 2
  MaxChunks = 1
  MaxResizes = 0
  MaxWriteFailures = 1
INVARIANTS TypeOK NoStrayWake AdoptedOrShut StoryIsTrue
PROPERTIES VerdictIsFinal FrozenAfterClose
CHECK_DEADLOCK FALSE
