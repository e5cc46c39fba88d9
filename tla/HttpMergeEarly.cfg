SPECIFICATION Spec
CONSTANTS
  thread_count = 2
  Size = 5
  Chunk = 2
  UnknownSizes = {}
  UnknownTotals = {}
  SIZE = 16
  Faults = {}
INVARIANTS
  MergedWhole
CHECK_DEADLOCK FALSE
