SPECIFICATION FairSpec
CONSTANTS
  Tasks = {t1, t2}
  MaxToken = 1
  Interests <- MCInterests
  ShutdownInterests <- MCShutdown
  SharedDirs = {"writable"}
  MaxPollEvents = 1
INVARIANTS TypeOK PanicsOnlyIfShared NoLostWakeup
PROPERTIES ShutdownIsFinal ImplementsAsyncIo
CHECK_DEADLOCK FALSE
