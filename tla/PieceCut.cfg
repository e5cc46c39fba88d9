SPECIFICATION FairSpec
CONSTANTS
  Layouts <- MCLayouts
  PieceLength = 4
  PEER_REQUEST_SIZE = 2
  UINT = 21
  SIZE = 16
  MaxFiles = 3
  MaxSize = 7
INVARIANTS
  InsideFiles
  Contiguous
  Cut
PROPERTIES
  Terminates
CHECK_DEADLOCK FALSE
