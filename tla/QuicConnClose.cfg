SPECIFICATION FairSpec
CONSTANTS
  IsServer = TRUE
  PeerStreams = {}
  MaxOpened = 2
  InitialMaxStreams = 0
  InOrder = TRUE
  DropUnread = TRUE
  CancelKinds = {}
INVARIANTS TypeOK NoLostWakeup NextIdInStep
PROPERTIES ReleasedOnClose
CHECK_DEADLOCK FALSE
