CONSTANTS
  a = a
  b = b
  c = c
  Objs <- MCObjs
  PidOf <- DistinctPidOf
  NoHandles <- NoneMinimal
  PendingExit = {}
  ScanLimit = 11
  MaxEntries = 2
  MaxHandles = 1
SPECIFICATION MCSpec
CHECK_DEADLOCK FALSE
INVARIANT
  FailureHasError
