SPECIFICATION BtFairSpec
CONSTANTS
  NumPieces = 1
  NumBlocks <- MCNumBlocks
  OnDisk <- MCOnDisk
  Faults = {"fail", "close"}
  MaxInbox = 2
  MaxBad = 0
  MaxPeers = 2
PROPERTIES
  AnnouncesAgain
CHECK_DEADLOCK FALSE
