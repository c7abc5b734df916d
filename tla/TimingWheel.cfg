SPECIFICATION FairSpec
CONSTANTS
  Timers = {v1, v2, v3}
  TickInterval = 2
  MaxDeadline = 4
  MaxTime = 8
  Never = Never
INVARIANTS TypeOK Accounting FirstTickAfter SleepsNoLongerThanNeeded
PROPERTIES ImplementsTimerService
CHECK_DEADLOCK FALSE
