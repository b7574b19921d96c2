SPECIFICATION ServerSpec
CONSTANTS
  Callers = {r1, r2, r3}
  Drainer = drainer
  Limits = {1, 2}
  None = None
  Workers = {w1, w2}
  Modes = {"wait", "reject"}
  Drains = {TRUE}
  MaxStarts = 2
INVARIANTS ServerInv CountersExact NoLostWakeup
PROPERTIES  ImplementsLeases
