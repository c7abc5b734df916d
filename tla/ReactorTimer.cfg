SPECIFICATION RFairSpec
CONSTANTS
  Timers = {v1, v2}
  Tasks = {t1, t2}
  TickInterval = 1
  MaxDeadline = 2
  MaxTime = 4
  Never = Never
INVARIANTS RTypeOK NoPanic NoLostTimeout NotEarly
PROPERTIES TimeoutEnds
CHECK_DEADLOCK FALSE
