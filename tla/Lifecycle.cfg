CONSTANTS
  x = x
  y = y
  Apps <- MCApps
  Detections = 2
  StopPolls = 1
  Kinds = {1}
  HiddenCounts = {2}
SPECIFICATION MCSpec
CHECK_DEADLOCK FALSE
INVARIANTS
  DeviceIffDriver
  DriverNotLeftBehind
  ReportWhole
  ToldFailuresKept
PROPERTIES
  ServiceNotLeftBehind
  AppsExit
