-------------------------- MODULE TerminalControl --------------------------
(***************************************************************************)
(* The two plugins of terminal_controller that decide how a goal ends:     *)
(* PersistentGoalChecker, which says that the goal is reached, and         *)
(* PersistentRotateToGoalCritic, which rejects trajectories near it.  Both *)
(* keep state over the replans of one goal and start afresh for the next;  *)
(* each hears of goals through a NavigateGoalEpoch of its own.             *)
(*                                                                         *)
(* Their reset() does nothing, so a replan is no action.  Distances are    *)
(* counted in steps, angles in equal parts of a turn, times in ticks; the  *)
(* poses of GoalPoses are further apart than goal_change_xy or _yaw.       *)
(***************************************************************************)
EXTENDS Integers, Sequences, FiniteSets, FiniteSetsExt

CONSTANTS
  MaxGoals,       \* bound: NavigateToPose goals, numbered by their stamps
  Preemption,     \* whether a goal may be accepted while another executes
  PromptStatus,   \* whether plugins hear of a goal before it is followed or over
  NoPose,         \* no goal yet (have_goal_ is false)
  NoTime,
  NoAnswer,
  GoalPoses,      \* poses of the goals in the local frame: [at, yaw]
  RobotYaws, Distances,  \* what localization reports of the robot
  Motions,        \* what odometry reports: [speed, turning]
  Trajectories,   \* DWB's samples: [linear, angular], angular is signed
  Turn,           \* parts of a full turn
  XyEnter, XyExit, YawEnter, YawExit, StoppedLinear, MaxTerminalAngular,
  MaxTerminalDuration, NoProgressTimeout, MinYawProgress, RotationMargin,
  LeastAllowed,   \* the 0.50 rad of rotation that are always allowed
  MaxRotation,    \* bound: rotation counted, beyond any that is allowed
  MaxTime         \* bound: clock

Plugins == {"checker", "critic"}
Goals == 1..MaxGoals

Apart(a, b) ==
  LET ahead == (b - a + Turn) % Turn IN IF 2 * ahead <= Turn THEN ahead ELSE Turn - ahead

ASSUME TerminalAssumption ==
  /\ MaxGoals \in Nat /\ MaxTime \in Nat /\ Turn \in Nat \ {0}
  /\ Preemption \in BOOLEAN /\ PromptStatus \in BOOLEAN
  /\ NoPose \notin GoalPoses /\ NoTime \notin Nat
  /\ RobotYaws \subseteq 0..Turn-1 /\ \A p \in GoalPoses : p.yaw \in 0..Turn-1
  /\ Distances \subseteq Nat 
  /\ \A m \in Motions : m.speed \in Nat /\ m.turning \in BOOLEAN
  /\ \A t \in Trajectories : t.linear \in Nat /\ t.angular \in Int
  /\ XyEnter \in Nat /\ XyExit \in Nat /\ XyEnter <= XyExit
  /\ YawEnter \in Nat /\ YawExit \in Nat /\ YawEnter <= YawExit
  /\ \A n \in {StoppedLinear, MaxTerminalAngular, MaxTerminalDuration, NoProgressTimeout,
               MinYawProgress, RotationMargin, LeastAllowed} : n \in Nat
  /\ MaxRotation \in Nat /\ MaxRotation > LeastAllowed
  /\ \A y \in RobotYaws, p \in GoalPoses : MaxRotation > Apart(y, p.yaw) + RotationMargin

VARIABLES
  activeUuid,  \* active_uuid_ of each plugin's NavigateGoalEpoch; 0 when empty
  epoch,       \* epoch_
  seenEpoch,   \* seen_goal_epoch_
  storedGoal,  \* goal_ of each plugin
  xyLatched,   \* xy_latched_ of the checker
  yawLatched,  \* yaw_latched_ of the checker
  window,      \* in_window_ of the critic, and what it measures there
  rotating,    \* rotating_ of the critic
  yawReached,  \* yaw_reached_ of the critic
  answer,      \* in the very step they answer: isGoalReached, and DWB's legal samples
  executing,   \* external: the goals Nav2 is executing
  accepted,    \* external: how many goals Nav2 has accepted
  current,     \* external: the goal the controller follows; 0 if none
  pending,     \* external: the status messages each plugin has not yet heard
  now,         \* external: the clock
  approached,  \* history: the plugins that saw the robot within XyEnter of the current goal
  turnedTo,    \* history: the checker saw it within XyExit, turned to the current goal
  windowSince, \* history: when the critic first saw it within XyEnter
  committed    \* history: the critic has begun to rotate for the current goal

epochVars == <<activeUuid, epoch, seenEpoch>>
checkerVars == <<xyLatched, yawLatched>>
criticVars == <<window, rotating, yawReached>>
controlVars == <<checkerVars, criticVars, storedGoal>>
ownVars == <<approached, turnedTo, windowSince, committed>>
terminalVars ==
  <<epochVars, controlVars, ownVars, answer, executing, accepted, current, pending, now>>

NoWindow == [in |-> FALSE, enteredAt |-> 0, progressAt |-> 0, bestError |-> 0,
             allowed |-> 0, rotation |-> 0, lastYaw |-> 0]

TerminalInit ==
  /\ activeUuid = [p \in Plugins |-> 0]
  /\ epoch = [p \in Plugins |-> 0]
  /\ seenEpoch = [p \in Plugins |-> 0]
  /\ storedGoal = [p \in Plugins |-> NoPose]
  /\ xyLatched = FALSE /\ yawLatched = FALSE
  /\ window = NoWindow
  /\ rotating = FALSE /\ yawReached = FALSE
  /\ answer = NoAnswer
  /\ executing = {} /\ accepted = 0 /\ current = 0
  /\ pending = [p \in Plugins |-> <<>>]
  /\ now = 0
  /\ approached = {} /\ turnedTo = FALSE /\ windowSince = NoTime /\ committed = FALSE

-----------------------------------------------------------------------------
(* NavigateGoalEpoch: the newest active goal of a status message.          *)

AnyActive(p, active) == active # {}  \* seeded fault: the UUID is not compared
NewActive(p, active) == active # {} /\ Max(active) # activeUuid[p]

Observe(p) ==
  /\ pending[p] # <<>>
  /\ pending' = [pending EXCEPT ![p] = Tail(@)]
  /\ LET active == Head(pending[p]) IN
       IF NewActive(p, active)
         THEN /\ activeUuid' = [activeUuid EXCEPT ![p] = Max(active)]
              /\ epoch' = [epoch EXCEPT ![p] = @ + 1]
         ELSE UNCHANGED <<activeUuid, epoch>>
  /\ answer' = NoAnswer
  /\ UNCHANGED <<seenEpoch, controlVars, ownVars, executing, accepted, current, now>>

-----------------------------------------------------------------------------
(* When a plugin starts a goal.                                            *)

GoalChanged(p, goal) == storedGoal[p] # goal

(* Seeded faults: only the pose counts; only the first goal is started.    *)
StartByGeometry(p, goal) == storedGoal[p] = NoPose \/ GoalChanged(p, goal)
StartOnce(p, goal) == storedGoal[p] = NoPose

ShouldStartGoal(p, goal) ==
  \/ storedGoal[p] = NoPose
  \/ epoch[p] # 0 /\ seenEpoch[p] # 0 /\ epoch[p] # seenEpoch[p]
  \/ epoch[p] = 0 /\ GoalChanged(p, goal)

(* What both plugins do first when they are called.                        *)
AdoptGoal(goal) ==
  /\ storedGoal' = [p \in Plugins |-> IF ShouldStartGoal(p, goal) THEN goal ELSE storedGoal[p]]
  /\ seenEpoch' = [p \in Plugins |-> IF epoch[p] # 0 THEN epoch[p] ELSE seenEpoch[p]]
  /\ UNCHANGED <<activeUuid, epoch>>

Size(a) == IF a < 0 THEN -a ELSE a

(* shortest_angular_distance, with its sign.                               *)
Bearing(a, b) ==
  LET ahead == (b - a + Turn) % Turn IN IF 2 * ahead <= Turn THEN ahead ELSE ahead - Turn

-----------------------------------------------------------------------------
(* isGoalReached, and its answer.                                          *)

Stopped(robot) == robot.motion.speed <= StoppedLinear /\ ~robot.motion.turning

AtXy(robot) == xyLatched' /\ robot.distance <= XyExit

IsGoalReached(robot, goal) ==
  LET keep == ~ShouldStartGoal("checker", goal) IN
  /\ xyLatched' = ((xyLatched /\ keep) \/ robot.distance <= XyEnter)
  /\ yawLatched' = \/ yawLatched /\ keep
                   \/ AtXy(robot) /\ Apart(robot.yaw, goal.yaw) <= YawEnter

Reached(robot, goal) ==
  AtXy(robot) /\ yawLatched' /\ Apart(robot.yaw, goal.yaw) <= YawExit /\ Stopped(robot)

-----------------------------------------------------------------------------
(* prepare: it rejects by throwing, and what it stored so far stays.       *)

NewWindow(w, robot, error) ==
  [in |-> TRUE, enteredAt |-> now, progressAt |-> now, bestError |-> error,
   allowed |-> Max({LeastAllowed, error + RotationMargin}),
   rotation |-> w.rotation, lastYaw |-> robot.yaw]

ReenterWindow(w, robot, error) ==  \* seeded fault: in_window_ is not tested
  IF robot.distance <= XyEnter THEN NewWindow(w, robot, error) ELSE w

EnterWindow(w, robot, error) ==
  IF ~w.in /\ robot.distance <= XyEnter THEN NewWindow(w, robot, error) ELSE w

Improves(w, error) == error + MinYawProgress < w.bestError

(* What is measured in the window; in the order of the code, a limit that  *)
(* rejects stops the measuring that follows it.                            *)
Overdue(w, robot) == robot.distance > XyExit \/ now - w.enteredAt > MaxTerminalDuration

Turned(w, robot) ==
  [w EXCEPT !.rotation = Min({@ + Apart(w.lastYaw, robot.yaw), MaxRotation}),
            !.lastYaw = robot.yaw]

Progressed(w, error) ==
  IF Improves(w, error) THEN [w EXCEPT !.bestError = error, !.progressAt = now] ELSE w

Stuck(w, error, yawWasReached) ==
  ~Improves(w, error) /\ ~yawWasReached /\ now - w.progressAt > NoProgressTimeout

RotatingIfStopped(was, speed) == speed <= StoppedLinear  \* seeded fault: not latched
RotatingOnceStopped(was, speed) == was \/ speed <= StoppedLinear

(* Its last argument is whether prepare returns; otherwise it throws.      *)
Prepare(robot, goal, accepts) ==
  LET keep == ~ShouldStartGoal("critic", goal)
      error == Apart(robot.yaw, goal.yaw)
      yawWas == yawReached /\ keep
      rotatingWas == rotating /\ keep
      entered == EnterWindow(IF keep THEN window ELSE NoWindow, robot, error)
      turned == Turned(entered, robot)
  IN
  \/ /\ ~entered.in \/ Overdue(entered, robot)
     /\ accepts = ~entered.in
     /\ window' = entered /\ rotating' = rotatingWas /\ yawReached' = yawWas
  \/ /\ entered.in /\ ~Overdue(entered, robot)
     /\ turned.rotation > turned.allowed \/ Stuck(turned, error, yawWas)
     /\ accepts = FALSE
     /\ window' = turned /\ rotating' = rotatingWas /\ yawReached' = yawWas
  \/ /\ entered.in /\ ~Overdue(entered, robot)
     /\ turned.rotation <= turned.allowed /\ ~Stuck(turned, error, yawWas)
     /\ window' = Progressed(turned, error)
     /\ yawReached' = (yawWas \/ error <= YawEnter)
     /\ accepts = ~(yawReached' /\ error > YawExit)
     /\ rotating' = IF accepts THEN RotatingOnceStopped(rotatingWas, robot.motion.speed)
                               ELSE rotatingWas

-----------------------------------------------------------------------------
(* scoreTrajectory, of which only the rejections are followed.             *)

Illegal(t, robot, goal) ==
  LET ahead == Bearing(robot.yaw, goal.yaw) IN
  /\ window'.in
  /\ \/ yawReached' /\ t.linear > 0
     \/ /\ ~yawReached'
        /\ \/ Size(t.angular) > MaxTerminalAngular
           \/ Size(ahead) > YawEnter /\ t.angular * ahead < 0
           \/ ~rotating' /\ t.linear >= robot.motion.speed
           \/ rotating' /\ t.linear > 0

-----------------------------------------------------------------------------
(* External: the Controller Server's cycle.  goal is the end of the path   *)
(* it follows, in the local frame: localization corrections move it.  The  *)
(* trajectories are scored after prepare; a cycle whose prepare threw      *)
(* stops the robot and goes on, within failure_tolerance.                  *)

Robots == [distance : Distances, yaw : RobotYaws, motion : Motions]

(* Before the first status, a plugin knows a goal by its pose alone, and   *)
(* takes the goal for another one when a correction moves it.              *)
TakenForAnother(p, goal) == epoch[p] = 0 /\ storedGoal[p] # NoPose /\ GoalChanged(p, goal)

RecordOwn(robot, goal) ==
  LET kept(p, was) == was /\ ~TakenForAnother(p, goal)
      before == {p \in Plugins : kept(p, p \in approached)}
      near == robot.distance <= XyEnter IN
  /\ approached' = IF near THEN Plugins ELSE before
  /\ turnedTo' = \/ kept("checker", turnedTo)
                 \/ (robot.distance <= XyExit /\ Apart(robot.yaw, goal.yaw) <= YawEnter)
  /\ windowSince' = IF "critic" \in before THEN windowSince ELSE IF near THEN now ELSE NoTime
  /\ committed' = (kept("critic", committed) \/ (window'.in /\ rotating'))

Cycle(robot, goal) ==
  /\ current # 0
  /\ AdoptGoal(goal)
  /\ IsGoalReached(robot, goal)
  /\ \E accepts \in BOOLEAN :
       /\ Prepare(robot, goal, accepts)
       /\ answer' = [reached |-> Reached(robot, goal),
                     commands |-> {t \in Trajectories : accepts /\ ~Illegal(t, robot, goal)}]
  /\ RecordOwn(robot, goal)
  /\ UNCHANGED <<executing, accepted, current, pending, now>>

-----------------------------------------------------------------------------
(* External: Nav2's goals and their status messages.                       *)

Publish(active) == pending' = [p \in Plugins |-> Append(pending[p], active)]
AllHeard == \A p \in Plugins : pending[p] = <<>>

AcceptGoal ==
  /\ accepted < MaxGoals
  /\ executing = {} \/ Preemption
  /\ accepted' = accepted + 1
  /\ executing' = executing \cup {accepted'}
  /\ Publish(executing')
  /\ answer' = NoAnswer
  /\ UNCHANGED <<epochVars, controlVars, ownVars, current, now>>

(* A goal begins to execute: the same goals are listed again, before it is *)
(* followed.  (So they are when it begins to cancel, shortly before it is  *)
(* over: that list is left out, the plugins read no more from it.)         *)
Relist ==
  /\ executing # {} /\ current # Max(executing) /\ AllHeard
  /\ Publish(executing)
  /\ answer' = NoAnswer
  /\ UNCHANGED <<epochVars, controlVars, ownVars, executing, accepted, current, now>>

(* The behavior tree passes the newest goal's path to the controller.      *)
SwitchGoal ==
  /\ executing # {} /\ current # Max(executing)
  /\ PromptStatus /\ Max(executing) > 1 => AllHeard
  /\ current' = Max(executing)
  /\ approached' = {} /\ turnedTo' = FALSE /\ windowSince' = NoTime /\ committed' = FALSE
  /\ answer' = NoAnswer
  /\ UNCHANGED <<epochVars, controlVars, executing, accepted, pending, now>>

(* A goal that is over is not followed any more.                           *)
EndGoal(g) ==
  /\ g \in executing
  /\ PromptStatus => \A p \in Plugins : storedGoal[p] # NoPose => seenEpoch[p] # 0
  /\ executing' = executing \ {g}
  /\ Publish(executing')
  /\ current' = IF current = g THEN 0 ELSE current
  /\ answer' = NoAnswer
  /\ UNCHANGED <<epochVars, controlVars, ownVars, accepted, now>>

Tick ==
  /\ now < MaxTime
  /\ now' = now + 1
  /\ answer' = NoAnswer
  /\ UNCHANGED <<epochVars, controlVars, ownVars, executing, accepted, current, pending>>

TerminalNext ==
  \/ \E p \in Plugins : Observe(p)
  \/ \E robot \in Robots, goal \in GoalPoses : Cycle(robot, goal)
  \/ AcceptGoal
  \/ Relist
  \/ SwitchGoal
  \/ \E g \in executing : EndGoal(g)
  \/ Tick

TerminalSpec == TerminalInit /\ [][TerminalNext]_terminalVars

-----------------------------------------------------------------------------
(* Properties.                                                             *)

(* The types of the plugins' state.  An epoch never runs ahead of the      *)
(* goals: however often and in whatever order statuses list them, a goal   *)
(* is counted once.                                                        *)
TerminalTypeOK ==
  /\ activeUuid \in [Plugins -> 0..accepted]
  /\ \A p \in Plugins : epoch[p] <= accepted /\ seenEpoch[p] <= epoch[p]
  /\ storedGoal \in [Plugins -> GoalPoses \cup {NoPose}]
  /\ \A v \in {xyLatched, yawLatched, rotating, yawReached} : v \in BOOLEAN
  /\ window.in \in BOOLEAN
  /\ \A n \in {window.enteredAt, window.progressAt} : n \in 0..now
  /\ \A n \in {window.bestError, window.allowed, window.rotation} : n \in Nat
  /\ window.lastYaw \in 0..Turn-1
  /\ answer \in {NoAnswer} \cup [reached : BOOLEAN, commands : SUBSET Trajectories]

(* What the plugins hold against a goal, they learned of that goal: the    *)
(* checker calls it reached only after the robot came within the enter     *)
(* tolerances of it, and the critic limits it only after the robot came    *)
(* within XyEnter.  (The critic: terminal state is cleared "when the final *)
(* goal actually changes".)                                                *)
TerminalStateIsOwn ==
  answer # NoAnswer => /\ answer.reached => "checker" \in approached /\ turnedTo
                       /\ window.in => "critic" \in approached

(* Replans, localization corrections and a first status that comes late    *)
(* leave a goal's latch alone: a robot that slips out again to XyExit is   *)
(* not sent back to within XyEnter.                                        *)
LatchSurvivesReplans ==
  answer # NoAnswer => /\ "checker" \in approached => xyLatched
                       /\ "critic" \in approached => window.in

(* From the first approach on, one goal gets commands near its end for at  *)
(* most MaxTerminalDuration, whatever replans and corrections do.          *)
TerminalEnds ==
  answer # NoAnswer /\ answer.commands # {} /\ windowSince # NoTime =>
    now - windowSince <= MaxTerminalDuration

(* Once the critic has the robot rotate for a goal, the robot translates   *)
(* no more until the goal is over.                                         *)
RotationCommits ==
  answer # NoAnswer /\ committed => \A t \in answer.commands : t.linear = 0
=============================================================================
