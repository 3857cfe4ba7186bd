SPECIFICATION BridgeFairSpec
CONSTANTS
  r1 = r1
  r2 = r2
  c1 = c1
  c2 = c2
  NoRun = NoRun
  Dispatcher = Dispatcher
  Executor = Executor
  NoThread = NoThread
  Bringup = Bringup
  Runs = {r1}
  Callers = {c1}
  ResultStatuses = {"SUCCEEDED"}
  MaxCancels = 1
  MinPercentage = 50
  StepPercentage = 50
  DefaultPercentage = 50
  Requests = {40, 100}
  MaxRestarts = 1
  MaxFaults = 1
CONSTRAINT CanceledWhilePending
PROPERTIES
  OwedLimitIsTold
  OverrideEnds
  SpeedCallsReturn
