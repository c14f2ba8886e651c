CONSTANTS
  v = v
  w = w
  h = h
  l = l
  c = c
  Ends <- HiddenTwo
  EndpointOf <- HiddenEndpoints
  Holders <- OneHolder
  PidModulus = 3
  MaxEntries = 2
  MaxSlots = 1
  MaxQueries = 1
  MaxTries = 2
  MaxHandles = 1
  Hooked <- HiddenTwo
  Signed <- None
  MaxPerPid = 3
SPECIFICATION MCSpec
CHECK_DEADLOCK FALSE
INVARIANT
  HiddenPortReported
