SPECIFICATION FairSpec
CONSTANTS
  rx = rx
  a = a
  b = b
  None = None
  Threads = {a, b}
  Stations = {"s", "t"}
  Ops <- Cleaners
  Index <- MCIndex
  Registered = {"index", "station", "latest"}
  Copyable = {TRUE, FALSE}
  InsertsExclusive = TRUE
  MaxOps = 5
  UINT32_MAX = 5
INVARIANTS OnlyCopiesFault FreeListExact StationIndexExact IndexAnswerComplete
PROPERTIES ImplementsStore CallsReturn
