CONSTANTS
  a = a
  b = b
  c = c
  d = d
  Objs <- MCObjs
  PidOf <- MCPidOf
  NoHandles <- MCNoHandles
  PendingExit <- MCPendingExit
  ScanLimit = 7
  MaxEntries = 2
  MaxHandles = 2
SPECIFICATION MCSpec
CHECK_DEADLOCK FALSE
INVARIANTS
  OneEntryPerPid
  CountsMatchFlags
  NoPoolLeak
  NoZombieReported
  SteadyProcessFound
  HandleFindsErased
PROPERTY
  EntriesOnlyGrow
