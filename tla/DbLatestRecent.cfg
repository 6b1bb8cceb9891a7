SPECIFICATION Spec
CONSTANTS
  rx = rx
  a = a
  b = b
  None = None
  Threads = {rx, a, b}
  Stations = {"s"}
  Ops <- Service
  Index <- MCIndex
  Registered = {"index", "station", "latest"}
  Copyable = {TRUE}
  InsertsExclusive = FALSE
  MaxOps = 4
  UINT32_MAX = 4
INVARIANTS LatestIsMostRecent
