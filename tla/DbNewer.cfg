SPECIFICATION Spec
CONSTANTS
  rx = rx
  a = a
  b = b
  None = None
  Threads = {rx, a, b}
  Stations = {"s", "t"}
  Ops <- Service
  Index <- MCIndex
  Registered = {"index", "station", "latest"}
  Copyable = {TRUE, FALSE}
  InsertsExclusive = FALSE
  MaxOps = 3
  UINT32_MAX = 3
INVARIANT NoFault
