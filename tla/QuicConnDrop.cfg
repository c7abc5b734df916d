SPECIFICATION Spec
CONSTANTS
  IsServer = TRUE
  PeerStreams = {4, 8}
  MaxOpened = 0
  InitialMaxStreams = 0
  InOrder = TRUE
  DropUnread = TRUE
  CancelKinds = {}
INVARIANTS ClosingIsCleared
CHECK_DEADLOCK FALSE
