SPECIFICATION FairSpec
CONSTANTS
  Executors = {e1, e2}
  MaxJobs = 1
  MaxTriggers = 1
  MaxCrashes = 1
  LastMoment = 2
  Interval = 1
  Retries = 1
  TriggerOnce = FALSE
  MaxFrames = 3
  EarlyFrames = 1
  Transports = {"uds", "pipe", "tcp"}
  MaxLinks = 2
  MaxRequests = 2
  MaxRoutes = 2
  MaxStarts = 2
  MaxServed = 2
  MaxSessions = 2
  MaxRuns = 2
  MaxLines = 3
  AutoReconnect = TRUE
CHECK_DEADLOCK FALSE
INVARIANTS JobInv ServedInv ShellsInv 
PROPERTIES QueuedIsRun 
