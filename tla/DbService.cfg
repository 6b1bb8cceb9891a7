SPECIFICATION FairSpec
CONSTANTS
  rx = rx
  a = a
  b = b
  None = None
  Threads = {rx, a, b}
  Stations = {"s", "t"}
  Ops <- Service
  Index <- MCIndex
  Registered = {"index", "station", "latest"}
  Copyable = {TRUE, FALSE}
  InsertsExclusive = FALSE
  MaxOps = 4
  UINT32_MAX = 4
INVARIANTS OnlyCopiesFault LatestCoherent StationAnswerComplete
PROPERTIES LatestNeverLost InsertViewShowsEntry CallsReturn
