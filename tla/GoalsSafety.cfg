SPECIFICATION Spec
CONSTANTS
  r1 = r1
  r2 = r2
  c1 = c1
  c2 = c2
  NoRun = NoRun
  Dispatcher = Dispatcher
  Executor = Executor
  Runs = {r1, r2}
  Callers = {c1, c2}
  ResultStatuses = {"UNKNOWN", "SUCCEEDED", "CANCELED", "ABORTED"}
  MaxCancels = 1
INVARIANTS
  TypeOK
  NoEarlyTerminal
  PendingIsQueued
  CancelIsForwarded
PROPERTY
  TerminalIsFinal
SYMMETRY Ids
CHECK_DEADLOCK FALSE
