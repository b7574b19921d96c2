SPECIFICATION FairSpec
CONSTANTS
  Calls = {c1, c2}
  MaxRetries = 2
  BaseDelay = 2
  MaxDelay = 5
  Budget = 10
  Jitter = TRUE
  Durations = {0, 3}
  RetryAfters = {3}
  Workers = {w1, w2}
  Submitters = {s1}
  MaxTasks = 3
  MaxPools = 2
  BalancedCalls = {c1, c2}
  AsyncCalls = {c2}
  First = 0
  MaxEndpoints = 3
  Strategies = {RoundRobin, Random, LeastInFlight}
  RoundRobin = RoundRobin
  Random = Random
  LeastInFlight = LeastInFlight
  Thresholds = {0, 2}
  Failovers = {TRUE}
  Answers = {"value", "timeout", "server"}
  Hints = {0, 2}
  Later = {0, 2, 30}
  Months = {0, 2, 5}
  MaxTries = 2
  Nothing = Nothing
  Setters = {t1, t2}
  Given = {0, 2}
  MaxClients = 2
  MaxApplied = 3
  MaxArguments = 3
  MaxSpelled = 2
  MaxChanges = 4
CHECK_DEADLOCK FALSE
INVARIANTS ExecutorInv ChoicesInv ConfigInv
PROPERTIES PausesAsDocumented ExecutorLive ServedOnce
