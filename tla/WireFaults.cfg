SPECIFICATION FairSpec
CONSTANTS
  HANDSHAKE = 3
  PEER_REQUEST_SIZE = 3
  BITFIELD_NUM_BYTES = 1
  Messages <- MCMessages
  MaxMessages = 2
  Faults = {"timeout", "close", "stranger"}
INVARIANTS
  Position
PROPERTIES
  ImplementsQueue
  EveryMessageHandled
CHECK_DEADLOCK FALSE
