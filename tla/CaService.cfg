SPECIFICATION Spec
CONSTANTS
  TGenCAMMin = 2
  TGenCAMMax = 4
  TGenCAMLFC = 3
  NGenCAMMax = 3
  Threshold = 2
  HalfInt = 6
  ClockStart = 7
  MaxAge = 7
  StationTypes = {"car", "rsu", "unknown"}
  Motions <- MCMotions
  TCheckGenCAM = 1
  SendOutcomes = {TRUE, FALSE}
INVARIANTS TypeOK SentCoherent
PROPERTIES ImplementsGeneration RateLimited LFCSpaced NothingUnreported StopReturns MotionReported
