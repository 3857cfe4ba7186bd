-------------------------------- MODULE MCParts --------------------------------
(***************************************************************************)
(* The parts of the system that share no state with one another, checked   *)
(* side by side: the start of Nav2, the wiring of its velocities, the      *)
(* global planner's choice, and the three small programs beside them.  In  *)
(* each behaviour one part acts, over every input it has, and the others   *)
(* stay in an initial state of theirs: the instances add up instead of     *)
(* multiplying.                                                            *)
(***************************************************************************)
EXTENDS MCBringup, VelocityChain, PathBudget, ScanFilter, DepthCloud, CmdVelSummary

CONSTANTS wide, narrow, vga, hd

VARIABLE part  \* the one that acts

allVars == <<part, vars, chainVars, planVars, scanVars, depthVars, summaryVars>>

\* Names of velocity topics, good and bad; some of the good ones are not apart.
BaseAndSink == {"/cmd_vel", "/robonix/nomotion/cmd_vel", "/cmd_vel_guard_input"}
RawAndBase == {"/raw", "/cmd_vel", "/robonix/nomotion/cmd_vel", "/cmd_vel_nav"}
BadNames == {"", "cmd_vel", "/go2//raw"}

\* The poses of a path may lie off the costmap.
AroundTheMap == -2..Cells * CellWidth + 1

PartsInit ==
  /\ part \in {"bringup", "chain", "planner", "scan", "depth", "summary"}
  /\ BringupInit /\ (part = "bringup" \/ cfg = NoHelpers)
  /\ ChainInit
  /\ part = "chain" \/ (config = "absent" /\ environ = "absent" /\ controllerTopic = "absent" /\ monitor)
  /\ PlanInit /\ (part = "planner" \/ (unknown = {} /\ goal = 0))
  /\ ScanInit /\ (part = "scan" \/ scan = [b \in 1..Bins |-> Inf])
  /\ DepthInit /\ (part = "depth" \/ monotonic = 0)
  /\ SummaryInit

BringupPart == part = "bringup" /\ BringupNext
ChainPart == part = "chain" /\ ChainNext
PlannerPart == part = "planner" /\ PlanNext
ScanPart == part = "scan" /\ OnScan
DepthPart == part = "depth" /\ DepthNext
SummaryPart == part = "summary" /\ SummaryNext

PartsNext ==
  /\ UNCHANGED part
  /\ \/ BringupPart /\ UNCHANGED <<chainVars, planVars, scanVars, depthVars, summaryVars>>
     \/ ChainPart /\ UNCHANGED <<vars, planVars, scanVars, depthVars, summaryVars>>
     \/ PlannerPart /\ UNCHANGED <<vars, chainVars, scanVars, depthVars, summaryVars>>
     \/ ScanPart /\ UNCHANGED <<vars, chainVars, planVars, depthVars, summaryVars>>
     \/ DepthPart /\ UNCHANGED <<vars, chainVars, planVars, scanVars, summaryVars>>
     \/ SummaryPart /\ UNCHANGED <<vars, chainVars, planVars, scanVars, depthVars>>

PartsSpec ==
  /\ PartsInit /\ [][PartsNext]_allVars
  /\ WF_vars(BringupPart /\ InitStep)
  /\ WF_chainVars(ChainPart /\ ForwardStep) /\ WF_chainVars(ChainPart /\ Arrive)
=============================================================================
