SPECIFICATION TerminalSpec
CONSTANTS
  NoPose = NoPose
  NoTime = NoTime
  NoAnswer = NoAnswer
  MaxGoals = 2
  Preemption = TRUE
  PromptStatus = TRUE
  GoalPoses <- MCGoalPoses
  RobotYaws = {0, 1}
  Distances = {0, 1, 2}
  Motions <- MCMotions
  Trajectories <- MCTrajectories
  Turn = 4
  XyEnter = 0
  XyExit = 1
  YawEnter = 0
  YawExit = 0
  StoppedLinear = 0
  MaxTerminalAngular = 1
  MaxTerminalDuration = 1
  NoProgressTimeout = 1
  MinYawProgress = 0
  RotationMargin = 0
  LeastAllowed = 1
  MaxRotation = 2
  MaxTime = 2
INVARIANT TerminalStateIsOwn
CHECK_DEADLOCK FALSE
