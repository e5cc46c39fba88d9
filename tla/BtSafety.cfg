SPECIFICATION BtSpec
CONSTANTS
  NumPieces = 2
  NumBlocks <- MCNumBlocks
  OnDisk <- MCOnDisk
  Faults = {"fail", "close", "choke", "corrupt", "partial", "have", "request",
            "keep", "refuse"}
  MaxInbox = 2
  MaxBad = 2
  MaxPeers = 2
INVARIANTS
  BtTypeOK
  PiecesLeftCounts
  OutstandingRequest
  AnswersExpected
  HaveVerified
  QuietAfterCompletion
  NeverIdle
  JoinedBeforeCheck
  ExitMeansComplete
  CompletedNeverAnnounced
PROPERTIES
  RequestResolved
  ImplementsDownload
CHECK_DEADLOCK FALSE
