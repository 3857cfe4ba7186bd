SPECIFICATION GuardSpec
CONSTANTS
  g1 = g1
  g2 = g2
  NoGoal = NoGoal
  None = None
  Goals = {g1, g2}
  Ordered = TRUE
  Turn = 4
  GlobalTimeout = 0
  GlobalLimit = 1
  GlobalProgress = 1
  TerminalTimeout = 0
  TerminalMargin = 0
  NoProgressTimeout = 0
  TerminalProgress = 0
  MaxLinear = 2
  DefaultCap = 2
  RotatingLinear = 1
  RotatingAngular = 1
  Commands <- MCCommands
  SpeedLimits <- MCSpeedLimits
  OdomYaws = {0, 1}
  Poses <- MCPoses
  PlanEnds <- MCPlanEnds
  MaxInbox = 2
  MaxTime = 2
  MaxRotation = 2
INVARIANTS
  GuardTypeOK
  IdleIsReleased
  TripAsksCancel
PROPERTIES
  RouteSpinBounded
  AlignmentBounded
  ZeroUntilGoalEnds
CONSTRAINT SecondGoalInTime
SYMMETRY Ids
CHECK_DEADLOCK FALSE
