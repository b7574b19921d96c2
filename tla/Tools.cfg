SPECIFICATION FairSpec
CONSTANTS
  Producers = {p1, p2, p3}
  Consumers = {c1, c2, c3}
  Capacity = 2
  MaxItems = 4
  Workers = {w1, w2, w3}
  Clients = {c1, c2}
  MaxTasks = 4
  FlagThreads = {t1, t2, t3, t4}
  MaxThrows = 2
  Borrowers = {b1, b2, b3, b4, b5}
  MaxSize = 2
  Prefilled = 1
  Callers = {c1, c2, c3, c4}
  FailureThreshold = 2
  SuccessThreshold = 3
  HalfOpenMax = 2
  Generators = {t1, t2}
  Times = {1, 2}
  CounterMax = 1
  LastTime = 3
  MaxTimers = 2
  SlotCount = 2
  TimerDelays = {1, 3}
  StopsLate = FALSE
  MaxId = 3
  Delays = {0, 2}
  Lag = 1
  Nothing = Nothing
  MaxHops = 2
  Waiters = {w1, w2, w3, w4}
  MaxUnits = 3
  Observers = {o1, o2}
  Buckets = 2
  MaxObserved = 3
  MaxResets = 1
  SpanThreads = {t1, t2}
  MaxSpans = 2
  MaxScopes = 2
  MaxFinished = 1
  Block = 4
  Field = 1
  DigestSize = 2
  Wrap = 8
  PageSize = 2
  Pages = 2
  MinRounds = 1
  MaxRounds = 2
  MinSalt = 2
  MaxPiece = 7
  MaxMessage = 21
  MaxSummed = 5
  MaxUses = 2
  MaxPieces = 2
  MaxName = 2
  MaxPath = 6
  MaxOther = 3
  MaxShift = 14
  ScanDays = 366
  NameField = 2
  PrefixField = 2
  LinkField = 2
  TarBlock = 2
  SizeField = 4
  CountField = 3
  MaxTarName = 6
  MaxTarEntries = 2
  MaxZipEntries = 3
  CacheKeys = {k1, k2, k3}
  MaxCached = 2
  MaxCacheCalls = 4
  PollTries = 3
  PollBase = 5
  PollCap = 12
  PollJitter = 20
  PollTime = 20
  BucketCount = 3
  BucketRatio = 2
  Latencies = {0, 3, 9}
  MaxRecorded = 3
  MaxLetters = 4
  MaxBytes = 4
  MaxSigns = 4
  MaxEndpoint = 4
  MaxUnits16 = 5
  Slack = 1
CHECK_DEADLOCK FALSE
INVARIANTS ToolsInv MonitorsInv WheelInv TelemetryInv ObjectsInv BreakerInv
PROPERTIES ImplementsLeases AllRun Recovers Increasing StartsInTurn Stops
