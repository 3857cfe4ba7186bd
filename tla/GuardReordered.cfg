SPECIFICATION GuardSpec
CONSTANTS
  g1 = g1
  g2 = g2
  NoGoal = NoGoal
  None = None
  Goals = {g1, g2}
  Ordered = FALSE
  Turn = 4
  GlobalTimeout = 0
  GlobalLimit = 1
  GlobalProgress = 1
  TerminalTimeout = 0
  TerminalMargin = 0
  NoProgressTimeout = 0
  TerminalProgress = 0
  MaxLinear = 2
  DefaultCap = 2
  RotatingLinear = 1
  RotatingAngular = 1
  Commands <- MCCommands
  SpeedLimits <- MCSpeedLimits
  OdomYaws = {0, 1}
  Poses <- MCPoses
  PlanEnds <- MCOnePlanEnd
  MaxInbox = 3
  MaxTime = 1
  MaxRotation = 2
PROPERTIES
  RouteSpinBounded
SYMMETRY Ids
CHECK_DEADLOCK FALSE
