SPECIFICATION BringupSpec
CHECK_DEADLOCK FALSE
CONSTANTS
  p1 = p1
  p2 = p2
  None = None
  Required = {"map"}
  Optional = {"scan", "scan_cloud"}
  Camera = {}
  Providers = {p1}
  Configs <- WithMonitor
  Headless <- Launches
INVARIANTS
  NothingLeftRunning
