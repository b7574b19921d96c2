SPECIFICATION FairSpec
CONSTANTS
  MaxRuns = 2
  MaxEdits = 1
  MaxReloads = 1
  MaxCalls = 1
  MaxChildren = 2
  MaxChunks = 2
  Programs = {p1, p2}
  MaxWrites = 2
  Nobody = Nobody
  Lockers = {l1, l2, l3}
  LockFiles = {f1, f2}
  MaxForks = 1
  Uploaders = {u1, u2}
  Keeper = Keeper
  Chunks = 2
  MaxRequests = 1
  Missing = Missing
  MaxNames = 2
  MaxChanges = 3
  MaxWatches = 2
  Absent = Absent
  Runs = {r1, r2}
  TimedRuns = {r1}
  Filters = {r2}
  Output = 2
  PipeRoom = 1
  Suites = {1, 2}
  MaxJobs = 2
  Visitors = {v1}
  MaxRounds = 2
  StartsOverlap = FALSE
  FileWriters = {w1, w2}
  FileChunks = 2
  Nothing = Nothing
CHECK_DEADLOCK FALSE
INVARIANTS ProgramsInv NeverStuck StorageInv
PROPERTIES FollowsFiles ThreadsEnd
