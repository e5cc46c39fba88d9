SPECIFICATION Spec
CONSTANTS
  Length <- MCLength
  Faults = {"hide"}
  MaxSessions = 2
INVARIANT CompletedIsWhole
CHECK_DEADLOCK FALSE
