SPECIFICATION FairSpec
CONSTANTS
  thread_count = 3
  Size = 4
  Chunk = 2
  UnknownSizes = {}
  UnknownTotals = {0}
  SIZE = 16
  Faults = {"connect", "short", "open", "no_header"}
INVARIANTS
  
  
  
  PartsInOrder
PROPERTIES
  
  DownloadEnds
CHECK_DEADLOCK FALSE
