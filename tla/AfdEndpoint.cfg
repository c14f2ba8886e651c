CONSTANTS
  Pids <- MCPids
  Values = {4}
  Sockets = {21, 22}
  Addresses <- MCAddresses
  PidModulus = 4
  MaxSlots = 1
  MaxQueries = 2
  MaxEntries = 2
  MaxChanges = 3
SPECIFICATION Spec
CHECK_DEADLOCK FALSE
INVARIANTS
  NothingHeldBetweenVisits
  SteadySocketExact
