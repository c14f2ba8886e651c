CONSTANTS
  t = t
  u = u
  v = v
  s = s
  netio = netio
  other = other
  Ends <- MCEnds
  EndpointOf <- MCEndpointOf
  MaxEntries = 2
  Modules <- MCModules
  FileName <- MCFileName
  Exports <- MCExports
  FunctionAt <- MCFunctionAt
  Slack = 1
  MaxChanges = 3
SPECIFICATION Spec
CHECK_DEADLOCK FALSE
INVARIANTS
  NsiTablesGivenBack
  NsiReached
PROPERTY
  ViewC
