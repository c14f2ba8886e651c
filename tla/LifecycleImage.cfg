CONSTANTS
  x = x
  y = y
  Apps <- MCApps
  Detections = 1
  StopPolls = 2
  Kinds = {}
  HiddenCounts = {0}
SPECIFICATION InTurnSpec
CHECK_DEADLOCK FALSE
INVARIANT
  OwnImageQueried
