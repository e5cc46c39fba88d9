SPECIFICATION BtFairSpec
CONSTANTS
  NumPieces = 3
  NumBlocks <- MCNumBlocks
  OnDisk <- MCOnDisk
  Faults = {"fail", "corrupt", "refuse"}
  MaxInbox = 2
  MaxBad = 2
  MaxPeers = 2
INVARIANTS
  GoesOn
PROPERTIES
  ProgramEnds
CHECK_DEADLOCK FALSE
