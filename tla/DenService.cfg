SPECIFICATION Spec
CONSTANTS
  a = a
  b = b
  Threads = {a, b}
  StationIDs <- MCStationIDs
  NoEvent = 0
  EventTypes = {0, 2}
  Garbage = {0, 1}
  MaxCalls = 3
INVARIANTS TypeOK IdsUnique ReturnedIsStored StoredWasSent
