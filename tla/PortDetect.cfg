CONSTANTS
  v = v
  w = w
  h = h
  l = l
  c = c
  Ends <- Three
  EndpointOf <- ThreeEndpoints
  Holders <- MCHolders
  PidModulus = 3
  MaxEntries = 2
  MaxSlots = 1
  MaxQueries = 1
  MaxTries = 2
  MaxHandles = 2
  Hooked <- OneHidden
  Signed <- SignedPids
  MaxPerPid = 1
SPECIFICATION MCSpec
CHECK_DEADLOCK FALSE
INVARIANTS
  NoPoolLeak
  CountsExplainEntries
  SteadyEndpointAnswered
  FailureLosesNothing
  OnlyPartialRowsAccuse
PROPERTIES
  KeepsPromise
  DetectionEnds
