SPECIFICATION BalancerSpec
CONSTANTS
  BalancedCalls = {c1}
  AsyncCalls = {c1}
  First = 2
  MaxEndpoints = 2
  Strategies = {RoundRobin}
  RoundRobin = RoundRobin
  Random = Random
  LeastInFlight = LeastInFlight
  Thresholds = {0}
  Failovers = {TRUE}
  Answers = {"null"}
CHECK_DEADLOCK FALSE
PROPERTY ServedOnce
