SPECIFICATION FairSpec
CONSTANTS
  Canonical <- MCCanonical
  Others <- MCOthers
INVARIANTS
  RoundTrip
PROPERTIES
  CanonicalIsRead
CHECK_DEADLOCK FALSE
