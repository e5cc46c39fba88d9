SPECIFICATION FairSpec
CONSTANTS
  Size = 2
  MaxParts = 2
  Faults = {"local", "refused", "cut", "close", "reset"}
INVARIANTS
  Sockets
  SuccessMeansWhole
  MutualWait
PROPERTIES
  Ends
CHECK_DEADLOCK FALSE
