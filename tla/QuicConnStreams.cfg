SPECIFICATION Spec
CONSTANTS
  IsServer = TRUE
  PeerStreams = {4, 8}
  MaxOpened = 0
  InitialMaxStreams = 0
  InOrder = TRUE
  DropUnread = FALSE
  CancelKinds = {"accept", "write"}
INVARIANTS NoLostWakeup SleepersAreKnown EveryInboundOffered OfferedOnce ClosingIsCleared
CHECK_DEADLOCK FALSE
