SPECIFICATION FairSpec
CONSTANTS
  Dcids = {d1, d2}
  MaxConns = 3
  MaxActive = 1
  QueueSize = 1
  VerifyPeer = TRUE
  NoDcid = NoDcid
  NoConn = NoConn
INVARIANTS TypeOK Limits TablesAgree NoOrphan DeliveredOnce
PROPERTIES DroppedIsRemoved
CHECK_DEADLOCK FALSE
