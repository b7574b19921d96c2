SPECIFICATION ServerFairSpec
CONSTANTS
  Callers = {r1, r2}
  Drainer = drainer
  Limits = {1}
  None = None
  Workers = {w1, w2}
  Modes = {"wait", "reject"}
  Drains = {TRUE, FALSE}
  MaxStarts = 2
PROPERTIES StopReturns AcceptedIsAnswered
