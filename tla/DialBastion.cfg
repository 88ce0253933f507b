SPECIFICATION FairSpec
CONSTANTS
  d1 = d1
  d2 = d2
  k1 = k1
  k2 = k2
  old = old
  s1 = s1
  r1 = r1
  core = core
  edge = edge
  NoSecret = NoSecret
  NoRef = NoRef
  Dials <- OneDial
  Requests <- OneRequest
  Keys <- ThreeKeys
  Algo <- MCAlgo
  modernHostKeys <- Modern
  legacyHostKeys <- Legacy
  Hosts <- TwoHosts
  AtFirst <- BothKinds
  Logins <- SomeLogins
  Held <- SomeHeld
  Secrets <- OneSecret
  Refs <- OneRef
  Stored <- SomeStored
  FileAtStart <- SomeFiles
  MaxChanges = 1
PROPERTY EveryDialEnds
CHECK_DEADLOCK FALSE
