SPECIFICATION FairSpec
CONSTANTS
  Tasks = {t1, t2}
  MaxToken = 1
  Interests <- MCWritable
  ShutdownInterests = {}
  SharedDirs = {"writable"}
  MaxPollEvents = 1
PROPERTIES NotifiedWhenReady
CHECK_DEADLOCK FALSE
