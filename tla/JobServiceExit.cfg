SPECIFICATION JobFairSpec
CONSTANTS
  Executors = {e1}
  MaxJobs = 0
  MaxTriggers = 0
  MaxCrashes = 0
  LastMoment = 0
  Interval = 1
  Retries = 0
  TriggerOnce = FALSE
CHECK_DEADLOCK FALSE
PROPERTY GracefulExit
