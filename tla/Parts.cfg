SPECIFICATION PartsSpec
CHECK_DEADLOCK FALSE
CONSTANTS
  p1 = p1
  p2 = p2
  None = None
  Required = {"map"}
  Optional = {"scan", "scan_cloud"}
  Camera = {"depth"}
  Providers = {p1, p2}
  Configs <- StartConfigs
  Headless <- ScanTools
  OutputTopics <- BaseAndSink
  ControllerTopics <- RawAndBase
  Invalid <- BadNames
  Cells = 2
  CellWidth = 4
  SampleStep = 2
  Scale = 2
  MaxSegment = 4
  MaxPoses = 4
  Positions <- AroundTheMap
  MaxUnknownLength = 12
  MaxUnknownRun = 6
  MaxRatioPercent = 60
  Bins = 6
  MaxRange = 3
  WindowBins = 2
  MaxDelta = 1
  MinNeighbors = 2
  NoInfo = NoInfo
  wide = wide
  narrow = narrow
  vga = vga
  hd = hd
  Intrinsics = {wide, narrow}
  Sizes = {vga, hd}
  CloudPeriod = 2
  MaxMonotonic = 6
  Speeds = {1, 3, 4}
  StillLimit = 2
  Period = 2
  MaxTime = 6
  MaxSeen = 5
INVARIANTS
  NothingLeftRunning
  StartedWhole
  ConsumersKnown
  EveryVelocityIsGuarded
  SinkIsRespected
  ControllerIsMonitored
  FallbackIsBounded
  MeasuresTheGround
  ObstacleIsKept
  SpecklesAreRemoved
  RaysFitTheImage
  EveryCommandIsReported
PROPERTIES
  DriverAnswers
  CommandsArrive
