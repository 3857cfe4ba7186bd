--------------------------- MODULE VelocityGuard ---------------------------
(***************************************************************************)
(* nav2_wrapper/velocity_guard.py: the last node before the wheels, with   *)
(* the rotation guard of RotationGuard.  It learns of the NavigateToPose   *)
(* goals from the action's status and feedback topics, scales commands to  *)
(* the speed cap, and stops the robot and asks for the goal's cancellation *)
(* when the rotation guard latches.                                        *)
(*                                                                         *)
(* Every callback runs under _lock, so each is one action.  Status and     *)
(* feedback wait in inbox; the other topics are read as they come.         *)
(***************************************************************************)
EXTENDS RotationGuard, Sequences, SequencesExt

CONSTANTS
  Ordered,      \* TRUE: status and feedback arrive in the order they were sent in
  Commands,     \* velocity commands: [linear, angular], as magnitudes
  SpeedLimits,  \* SpeedLimit messages: [percentage, value]
  MaxLinear,    \* ROBONIX_NAV_MAX_LINEAR_SPEED_MPS
  DefaultCap,   \* the cap of ROBONIX_NAV_DEFAULT_SPEED_PERCENTAGE
  RotatingLinear, RotatingAngular,  \* the limits of a command in place
  OdomYaws,     \* yaws the odometry reports
  Poses,        \* poses the feedback reports: [place, yaw]
  PlanEnds,     \* last poses of the plans
  MaxInbox,     \* bound: messages under way
  MaxTime,      \* bound: clock
  MaxRotation   \* bound: rotation added up

SomePose == [place : {p.place : p \in Poses \cup PlanEnds}, yaw : 0..Turn-1]

ASSUME VelocityGuardAssumption ==
  /\ Ordered \in BOOLEAN
  /\ MaxLinear \in Nat \ {0} /\ DefaultCap \in 1..MaxLinear
  /\ Commands \subseteq [linear : Nat, angular : Nat]
  /\ SpeedLimits \subseteq [percentage : BOOLEAN, value : Nat]
  /\ OdomYaws \subseteq 0..Turn-1
  /\ Poses \cup PlanEnds \subseteq SomePose
  /\ RotatingLinear \in Nat /\ RotatingAngular \in Nat \ {0}
  /\ MaxInbox \in Nat /\ MaxTime \in Nat /\ MaxRotation \in Nat

VARIABLES
  activeUuid,    \* _active_uuid
  robotPose,     \* _robot_pose
  goalPose,      \* _goal_pose
  cancelSent,    \* _cancel_sent
  cap,           \* _effective_linear_speed_mps
  output,        \* external: the last velocity published
  accepted,      \* external: the goals Nav2 has accepted so far
  executing,     \* external: those not ended, in the order Nav2 accepted them
  inbox,         \* external: status and feedback messages under way
  now,           \* external: the clock
  asked,         \* history: goals whose cancellation was asked for
  unheard,       \* history: goals that tripped while the service was not ready
  tripped,       \* history: goals that tripped, executing alone and with no message under way
  stillSince,    \* history: since when commands turn in place and the yaw stands still
  alignSince     \* history: when the first command of the goal turned at the plan's end

watchVars == <<activeUuid, robotPose, goalPose, cancelSent>>
navVars == <<accepted, executing, inbox, now>>
tripVars == <<asked, unheard, tripped>>
sinceVars == <<stillSince, alignSince>>
guardVars == <<rotationVars, watchVars, cap, output, navVars, tripVars, sinceVars>>

Zero == [linear |-> 0, angular |-> 0]
Lesser(a, b) == IF a <= b THEN a ELSE b

GuardInit ==
  /\ RotationInit
  /\ activeUuid = NoGoal
  /\ robotPose = None
  /\ goalPose = None
  /\ cancelSent = FALSE
  /\ cap = DefaultCap
  /\ output = Zero
  /\ accepted = {}
  /\ executing = <<>>
  /\ inbox = <<>>
  /\ now = 0
  /\ asked = {}
  /\ unheard = {}
  /\ tripped = {}
  /\ stillSince = None
  /\ alignSince = None

-----------------------------------------------------------------------------
(* Status and feedback.                                                    *)

Rewatch(g) ==  \* seeded fault: every message begins its goal again
  /\ activeUuid' = g
  /\ cancelSent' = FALSE
  /\ goalPose' = None
  /\ goalUuid' = g
  /\ latched' = FALSE
  /\ rotating' = FALSE
  /\ lastOdomYaw' = None
  /\ spin' = NoSpin
  /\ terminal' = NoTerminal

KeepCancelSent(g) ==  \* seeded fault: _cancel_sent outlives its goal
  IF g = activeUuid
    THEN UNCHANGED <<rotationVars, activeUuid, goalPose, cancelSent>>
    ELSE /\ activeUuid' = g
         /\ goalPose' = None
         /\ BeginGoal(g)
         /\ UNCHANGED cancelSent

Watch(g) ==  \* _begin_goal; its callers set robotPose
  IF g = activeUuid
    THEN UNCHANGED <<rotationVars, activeUuid, goalPose, cancelSent>>
    ELSE /\ activeUuid' = g
         /\ cancelSent' = FALSE
         /\ goalPose' = None
         /\ BeginGoal(g)

OnStatus(active) ==
  \/ /\ active # <<>>
     /\ Watch(Last(active))
     /\ robotPose' = IF Last(active) = activeUuid THEN robotPose ELSE None
  \/ /\ active = <<>>
     /\ IF activeUuid # NoGoal THEN ClearIfIdle ELSE UNCHANGED rotationVars
     /\ UNCHANGED watchVars

OnFeedback(g, pose) == Watch(g) /\ robotPose' = pose

(* The executor runs the callback of a message that no older message of    *)
(* the same topic, or of either topic if Ordered, is waiting before.       *)
Deliver ==
  \E i \in DOMAIN inbox :
    /\ \A j \in 1..i-1 : ~Ordered /\ inbox[j].topic # inbox[i].topic
    /\ inbox' = RemoveAt(inbox, i)
    /\ \/ inbox[i].topic = "status" /\ OnStatus(inbox[i].active)
       \/ inbox[i].topic = "feedback" /\ OnFeedback(inbox[i].goal, inbox[i].pose)
    /\ UNCHANGED <<cap, output, accepted, executing, now, tripVars, sinceVars>>

-----------------------------------------------------------------------------
(* Plan, odometry and speed limit.                                         *)

OnPlan(end) ==
  /\ goalPose' = end
  /\ UNCHANGED <<rotationVars, activeUuid, robotPose, cancelSent, cap, output, navVars,
                 tripVars, sinceVars>>

OnOdom(yaw) ==
  /\ spin.rotation < MaxRotation /\ terminal.rotation < MaxRotation
  /\ ObserveOdom(yaw)
  /\ stillSince' = IF lastOdomYaw \in {None, yaw} THEN stillSince ELSE None
  /\ UNCHANGED <<watchVars, cap, output, navVars, tripVars, alignSince>>

LimitUnclamped(m) ==  \* seeded fault: the limit may lie over the configured maximum
  IF m.value = 0 THEN MaxLinear
  ELSE IF m.percentage THEN (MaxLinear * m.value) \div 100 ELSE m.value

EffectiveLimit(m) ==
  IF m.value = 0 THEN MaxLinear
  ELSE IF m.percentage THEN (MaxLinear * Lesser(100, m.value)) \div 100
  ELSE Lesser(MaxLinear, m.value)

OnSpeedLimit(m) ==
  /\ cap' = EffectiveLimit(m)
  /\ UNCHANGED <<rotationVars, watchVars, output, navVars, tripVars, sinceVars>>

-----------------------------------------------------------------------------
(* Commands.                                                               *)

BoundedVelocity(c) == [c EXCEPT !.linear = Lesser(@, cap)]

InPlace(v) == v.linear <= RotatingLinear /\ v.angular >= RotatingAngular

(* _trip, once for each goal, whether or not service_is_ready() then.      *)
Trip ==
  IF cancelSent THEN UNCHANGED <<cancelSent, asked, unheard>> ELSE
  /\ cancelSent' = TRUE
  /\ \/ activeUuid # NoGoal /\ asked' = asked \cup {activeUuid} /\ UNCHANGED unheard
     \/ unheard' = unheard \cup {activeUuid} /\ UNCHANGED asked

Heard == executing # <<>> /\ inbox = <<>>

OnCmd(c) ==
  LET v == BoundedVelocity(c) IN
  /\ Evaluate(now, InPlace(v), robotPose, goalPose)
  /\ IF latched'
       THEN Trip /\ output' = Zero
       ELSE UNCHANGED <<cancelSent, asked, unheard>> /\ output' = v
  /\ tripped' = IF latched' /\ Heard /\ executing = <<goalUuid>> THEN tripped \cup {goalUuid} ELSE tripped
  /\ stillSince' = IF ~InPlace(v) THEN None
                   ELSE IF stillSince = None /\ Heard THEN now ELSE stillSince
  /\ alignSince' = IF /\ alignSince = None /\ Heard /\ Last(executing) = goalUuid
                      /\ InPlace(v) /\ AtPlanEnd(robotPose, goalPose)
                     THEN now ELSE alignSince
  /\ UNCHANGED <<activeUuid, robotPose, goalPose, cap, navVars>>

PublishLatchedZero ==
  /\ latched
  /\ output' = Zero
  /\ UNCHANGED <<rotationVars, watchVars, cap, navVars, tripVars, sinceVars>>

-----------------------------------------------------------------------------
(* External: Nav2 accepts goals, a new one preempting the one before it,   *)
(* reports on them, and ends them, the oldest first.                       *)

Send(messages) == Len(inbox) < MaxInbox /\ inbox' = inbox \o messages

AcceptGoal(g) ==
  /\ g \notin accepted /\ Len(executing) < 2
  /\ accepted' = accepted \cup {g}
  /\ executing' = Append(executing, g)
  /\ Send(<<[topic |-> "status", active |-> executing']>>)
  /\ stillSince' = None /\ alignSince' = None
  /\ UNCHANGED <<rotationVars, watchVars, cap, output, now, tripVars>>

EndGoal ==
  /\ executing # <<>>
  /\ executing' = Tail(executing)
  /\ Send(<<[topic |-> "status", active |-> executing']>>)
  /\ stillSince' = None /\ alignSince' = None
  /\ UNCHANGED <<rotationVars, watchVars, cap, output, accepted, now, tripVars>>

SendFeedback(pose) ==
  /\ executing # <<>>
  /\ Send(<<[topic |-> "feedback", goal |-> Head(executing), pose |-> pose]>>)
  /\ UNCHANGED <<rotationVars, watchVars, cap, output, accepted, executing, now,
                 tripVars, sinceVars>>

(* A tick is a second or more, and a message or a preemption takes a few   *)
(* milliseconds: none is under way when the clock ticks.                   *)
Tick ==
  /\ now < MaxTime
  /\ inbox = <<>> /\ Len(executing) <= 1
  /\ now' = now + 1
  /\ UNCHANGED <<rotationVars, watchVars, cap, output, accepted, executing, inbox,
                 tripVars, sinceVars>>

GuardNext ==
  \/ Deliver
  \/ \E end \in PlanEnds : OnPlan(end)
  \/ \E yaw \in OdomYaws : OnOdom(yaw)
  \/ \E m \in SpeedLimits : OnSpeedLimit(m)
  \/ \E c \in Commands : OnCmd(c)
  \/ PublishLatchedZero
  \/ \E g \in Goals : AcceptGoal(g)
  \/ EndGoal
  \/ \E pose \in Poses : SendFeedback(pose)
  \/ Tick

GuardSpec == GuardInit /\ [][GuardNext]_guardVars

-----------------------------------------------------------------------------
(* Properties.                                                             *)

Times == 0..MaxTime \cup {None}
Rotations == 0..(MaxRotation + Turn)

(* The types of the guard's state.  The cap, and with it the speed of what *)
(* is published, never exceeds the configured hard maximum.                *)
GuardTypeOK ==
  /\ goalUuid \in Goals \cup {NoGoal} /\ activeUuid \in Goals \cup {NoGoal}
  /\ latched \in BOOLEAN /\ rotating \in BOOLEAN /\ cancelSent \in BOOLEAN
  /\ lastOdomYaw \in OdomYaws \cup {None}
  /\ spin \in [startedAt : Times, rotation : Rotations, mark : Rotations,
               progressAt : Times]
  /\ terminal \in [startedAt : Times, rotation : Rotations,
                   allowed : 0..(Turn + TerminalMargin), bestError : 0..Turn, progressAt : Times]
  /\ robotPose \in SomePose \cup {None} /\ goalPose \in SomePose \cup {None}
  /\ cap \in 0..MaxLinear /\ output.linear \in 0..MaxLinear
  /\ stillSince \in Times /\ alignSince \in Times
  /\ asked \subseteq Goals /\ unheard \subseteq Goals \cup {NoGoal} /\ tripped \subseteq Goals
  /\ Len(inbox) <= MaxInbox

(* While a goal executes, commands that turn in place are let through for  *)
(* at most GlobalTimeout without the odometry's yaw advancing, whatever    *)
(* the guard has heard of that goal and of those before it (config.spec,   *)
(* guard_global_spin_timeout_s).                                           *)
RouteSpinBounded ==
  [][\A c \in Commands :
       OnCmd(c) /\ output' # Zero /\ stillSince' # None => now - stillSince' <= GlobalTimeout
    ]_guardVars

(* Near the end of the plan, commands that turn in place are let through   *)
(* for at most TerminalTimeout from the goal's first: pauses and new plans *)
(* do not open the window again (guard_terminal_timeout_s).                *)
AlignmentBounded ==
  [][\A c \in Commands :
       /\ OnCmd(c) /\ output' # Zero /\ alignSince' # None
       /\ InPlace(output') /\ AtPlanEnd(robotPose, goalPose)
       => now - alignSince' <= TerminalTimeout
    ]_guardVars

(* A goal whose rotation tripped the guard gets no more velocity until it  *)
(* has ended or another one is preempting it, however status, feedback,    *)
(* plans and speed limits go on arriving.                                  *)
ZeroUntilGoalEnds ==
  [][\A c \in Commands, g \in tripped :
       OnCmd(c) /\ executing = <<g>> => output' = Zero]_guardVars

(* Once the guard has heard that no goal is left, it holds nothing back:   *)
(* commands that do not come from a goal (a manual drive) pass.            *)
IdleIsReleased == executing = <<>> /\ inbox = <<>> => ~latched

(* The goal the guard stopped is the goal whose cancellation it asked for, *)
(* unless the cancel service was not ready when the guard tripped.         *)
TripAsksCancel == latched => goalUuid \in asked \cup unheard
=============================================================================
