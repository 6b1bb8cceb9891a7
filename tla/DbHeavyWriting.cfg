SPECIFICATION Spec
CONSTANTS
  rx = rx
  a = a
  b = b
  None = None
  Threads = {a, b}
  Stations = {"s"}
  Ops <- HeavyWriting
  Index <- MCIndex
  Registered = {"index"}
  Copyable = {TRUE}
  InsertsExclusive = FALSE
  MaxOps = 3
  UINT32_MAX = 3
PROPERTIES RemoveDeletesItsEntry
