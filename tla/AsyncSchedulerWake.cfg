SPECIFICATION SchedulerSpec
CONSTANTS
  MaxId = 2
  Delays = {0, 2}
  Lag = 1
  Nothing = Nothing
CHECK_DEADLOCK FALSE
INVARIANT WakesInTime
