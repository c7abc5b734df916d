SPECIFICATION FairSpec
CONSTANTS
  TcpCap = 2
  QuicCap = 1
  BufSize = 2
  MaxSent <- Sends
INVARIANTS TypeOK Conserved
PROPERTIES ImplementsDuplex 
CHECK_DEADLOCK FALSE
