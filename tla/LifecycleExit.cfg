CONSTANTS
  x = x
  y = y
  Apps <- MCApps
  Detections = 1
  StopPolls = 2
  Kinds = {1}
  HiddenCounts = {1}
SPECIFICATION ReportsSpec
CHECK_DEADLOCK FALSE
INVARIANT
  ExitCodeTellsSuccess
