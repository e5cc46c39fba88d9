SPECIFICATION Spec
CONSTANTS
  Length <- MCLength
  Faults = {"open", "mmap", "hide", "publish"}
  MaxSessions = 4
INVARIANTS
  EndsWhole
  Names
  SurvivesOneStart
CHECK_DEADLOCK FALSE
