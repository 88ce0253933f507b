CONSTANTS
  Callers = {gui}
  Sizes <- MCSizes
  Texts <- MCTexts
  Streams <- MCStreams
  PeerWill <- MCPeerWill
  PeerDo <- MCPeerDo
  MaxMoves = 2
SPECIFICATION Spec
INVARIANTS
  NoPingPong
  Agreement
  DataIntact
CHECK_DEADLOCK FALSE
