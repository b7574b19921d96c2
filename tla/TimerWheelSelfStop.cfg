SPECIFICATION WheelSpec
CONSTANTS
  MaxTimers = 1
  SlotCount = 2
  TimerDelays = {1, 2}
  StopsLate = TRUE
CHECK_DEADLOCK FALSE
INVARIANT PendingExact
