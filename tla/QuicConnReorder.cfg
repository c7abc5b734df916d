SPECIFICATION Spec
CONSTANTS
  IsServer = TRUE
  PeerStreams = {4, 8}
  MaxOpened = 0
  InitialMaxStreams = 0
  InOrder = FALSE
  DropUnread = FALSE
  CancelKinds = {}
INVARIANTS EveryInboundOffered
CHECK_DEADLOCK FALSE
