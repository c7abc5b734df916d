SPECIFICATION FairSpec
CONSTANTS
  Conns = {c1, c2}
  NoConn = NoConn
  InitialMaxStreams = 3
INVARIANTS TypeOK NoConnLeak
PROPERTIES OnlyClosedRemoved InboundAnswered LoopsEnd
CHECK_DEADLOCK FALSE
