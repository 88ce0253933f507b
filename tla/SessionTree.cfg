CONSTANTS
  Apps = {w1, w2}
  Stores <- MCStores
  Names = {100}
  Joined <- MCJoined
  Ungrouped = 300
  Hosts = {1}
  Owns = {2}
  Files <- MCFiles
  MaxId = 3
  MaxMoves = 2
SPECIFICATION Spec
INVARIANTS
  NothingUnreachable
  OthersFieldsKept
  ExpansionIsTheUsers
PROPERTY DropLands
SYMMETRY Symmetry
CHECK_DEADLOCK FALSE
