SPECIFICATION Spec
CONSTANTS
  Callers = {c1, c2, c3}
  Sharers = {c1, c2, c3}
  Conns = {k1, k2}
  Sessions = {k1, k2}
  NoConn = NoConn
  Sizes = {0, 1, 2}
  MaxConns = 2
  MaxIdle = 1
  None = None
  Limit = 2
  MaxId = 2
  EchoesId = TRUE
  Base = 2
  Short = 1
  MaxFrame = 5
  Payloads = {0, 1, 2, 4, 6}
  MaxFrames = 2
  MaxField = 3
  MaxText = 4
  MaxRaw = 4
CHECK_DEADLOCK FALSE
SYMMETRY Symm
INVARIANTS LeasesInv OwnAnswer ChannelInv ChannelsInv
