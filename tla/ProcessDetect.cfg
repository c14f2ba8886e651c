CONSTANTS
  a = a
  b = b
  c = c
  Objs <- MCObjs
  PidOf <- ReusePidOf
  NoHandles <- NoneMinimal
  PendingExit = {}
  ScanLimit = 8
  MaxEntries = 2
  MaxHandles = 0
SPECIFICATION ReuseSpec
CHECK_DEADLOCK FALSE
INVARIANTS
  SteadyHiddenReported
  NoVisibleProcessAccused
  EnrichedFromReported
PROPERTIES
  KeepsPromise
  DetectionEnds
