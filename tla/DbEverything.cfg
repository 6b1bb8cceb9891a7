SPECIFICATION Spec
CONSTANTS
  rx = rx
  a = a
  b = b
  None = None
  Threads = {a, b}
  Stations = {"s", "t"}
  Ops <- Everything
  Index <- MCIndex
  Registered = {"index", "station", "latest"}
  Copyable = {TRUE, FALSE}
  InsertsExclusive = FALSE
  MaxOps = 3
  UINT32_MAX = 3
INVARIANTS TypeOK ViewsOwnElements
