SPECIFICATION Spec
CONSTANTS
  Tasks = {t1, t2}
  MaxToken = 1
  Interests <- MCWritable
  ShutdownInterests = {}
  SharedDirs = {"writable"}
  MaxPollEvents = 1
INVARIANTS NoPanic
CHECK_DEADLOCK FALSE
