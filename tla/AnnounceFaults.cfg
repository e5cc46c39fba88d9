SPECIFICATION FairSpec
CONSTANTS
  Addresses = 2
  ReqLen = 2
  Buff = 4
  Answers <- MCAnswers
  MaxFds = 3
  Faults = {"connect", "cut", "reset"}
  MaxAnnounces = 5
  TRACKER_RETRY_INTERVAL = 15
INVARIANTS
  Requests
  Bounds
PROPERTIES
  AnnounceEnds
CHECK_DEADLOCK FALSE
