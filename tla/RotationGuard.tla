--------------------------- MODULE RotationGuard ---------------------------
(***************************************************************************)
(* The state machine of nav2_wrapper/rotation_guard_core.py: it latches a  *)
(* navigation goal after unsafe rotation in place, on the way (the global  *)
(* limits) or near the end of the plan (the terminal limits).              *)
(*                                                                         *)
(* Angles are counted in equal parts of a turn and times in clock ticks; a *)
(* place stands for the positions within terminal_xy_m of one another, and *)
(* latched_reason, whose text only the log reads, for whether it is empty. *)
(***************************************************************************)
EXTENDS Integers

CONSTANTS
  Goals,              \* the action UUIDs
  NoGoal,             \* the empty UUID
  None,               \* Python's None
  Turn,               \* parts of a full turn
  GlobalTimeout, GlobalLimit, GlobalProgress,
  TerminalTimeout, TerminalMargin, NoProgressTimeout, TerminalProgress

ASSUME RotationGuardAssumption ==
  /\ NoGoal \notin Goals
  /\ Turn \in Nat \ {0}
  /\ None \notin Nat
  /\ GlobalProgress \in Nat \ {0}
  /\ \A n \in {GlobalTimeout, GlobalLimit, TerminalTimeout, TerminalMargin,
               NoProgressTimeout, TerminalProgress} : n \in Nat

VARIABLES
  goalUuid,     \* goal_uuid
  latched,      \* latched_reason is not empty
  rotating,     \* rotating
  lastOdomYaw,  \* last_odom_yaw
  spin,         \* spin_started_at, spin_rotation, spin_progress_rotation, last_spin_progress_at
  terminal      \* terminal_started_at, terminal_rotation, ..., last_progress_at

rotationVars == <<goalUuid, latched, rotating, lastOdomYaw, spin, terminal>>

(* The absolute value of shortest_angle.                                   *)
Apart(a, b) ==
  LET ahead == (b - a + Turn) % Turn IN IF ahead <= Turn - ahead THEN ahead ELSE Turn - ahead

NoSpin == [startedAt |-> None, rotation |-> 0, mark |-> 0, progressAt |-> None]
NoTerminal ==
  [startedAt |-> None, rotation |-> 0, allowed |-> 0, bestError |-> Turn, progressAt |-> None]

RotationInit ==
  /\ goalUuid = NoGoal
  /\ latched = FALSE
  /\ rotating = FALSE
  /\ lastOdomYaw = None
  /\ spin = NoSpin
  /\ terminal = NoTerminal

-----------------------------------------------------------------------------
BeginGoal(g) ==
  IF g = goalUuid
    THEN UNCHANGED rotationVars
    ELSE /\ goalUuid' = g
         /\ latched' = FALSE
         /\ rotating' = FALSE
         /\ lastOdomYaw' = None
         /\ spin' = NoSpin
         /\ terminal' = NoTerminal

ClearGoalOnly ==  \* seeded fault: the latch outlives the goal
  /\ goalUuid' = NoGoal
  /\ rotating' = FALSE
  /\ UNCHANGED <<latched, lastOdomYaw, spin, terminal>>

ClearIfIdle ==
  /\ goalUuid' = NoGoal
  /\ latched' = FALSE
  /\ rotating' = FALSE
  /\ UNCHANGED <<lastOdomYaw, spin, terminal>>

ObserveOdom(yaw) ==
  LET delta == IF lastOdomYaw # None /\ rotating THEN Apart(lastOdomYaw, yaw) ELSE 0 IN
  /\ lastOdomYaw' = yaw
  /\ spin' = [spin EXCEPT !.rotation = @ + delta]
  /\ terminal' = [terminal EXCEPT !.rotation = IF terminal.startedAt # None THEN @ + delta ELSE @]
  /\ UNCHANGED <<goalUuid, latched, rotating>>

-----------------------------------------------------------------------------
(* evaluate(), of a command in place: the spin first ...                   *)
NewSpin(now) == [startedAt |-> now, rotation |-> 0, mark |-> 0, progressAt |-> now]

SpinAfresh(now) == NewSpin(now)  \* seeded fault: every command starts the spin again

SpinNow(now) ==
  LET s == IF spin.startedAt = None THEN NewSpin(now) ELSE spin
  IN  IF s.rotation - s.mark >= GlobalProgress
        THEN [s EXCEPT !.mark = s.rotation, !.progressAt = now] ELSE s

SpinTrips(now, s) == now - s.progressAt > GlobalTimeout \/ s.rotation > GlobalLimit

(* ... then the alignment near the end of the plan.  Its window opens with *)
(* the first command in place there; max(0.50, error + margin) is always   *)
(* the second, for the margin is 0.50 and no setting changes it.           *)
AtPlanEnd(robot, goal) == robot # None /\ goal # None /\ robot.place = goal.place

OpenTerminal(now, error) ==
  [startedAt |-> now, rotation |-> 0,
   allowed |-> error + TerminalMargin, bestError |-> error, progressAt |-> now]

TerminalAfresh(now, error) == OpenTerminal(now, error)  \* seeded fault: it opens at every command

TerminalNow(now, error) ==
  IF terminal.startedAt = None THEN OpenTerminal(now, error) ELSE terminal

Improves(t, error) == error + TerminalProgress < t.bestError

TerminalTrips(now, t, error) ==
  \/ now - t.startedAt > TerminalTimeout
  \/ t.rotation > t.allowed
  \/ ~Improves(t, error) /\ now - t.progressAt > NoProgressTimeout

Evaluate(now, inPlace, robot, goal) ==
  IF latched THEN UNCHANGED rotationVars ELSE
  /\ UNCHANGED <<goalUuid, lastOdomYaw>>
  /\ rotating' = (inPlace /\ goalUuid # NoGoal)
  /\ spin' = IF goalUuid = NoGoal THEN spin ELSE IF inPlace THEN SpinNow(now) ELSE NoSpin
  /\ IF ~rotating' \/ SpinTrips(now, spin') \/ ~AtPlanEnd(robot, goal)
       THEN latched' = (rotating' /\ SpinTrips(now, spin')) /\ UNCHANGED terminal
       ELSE LET error == Apart(robot.yaw, goal.yaw)
                t == TerminalNow(now, error) IN
            /\ latched' = TerminalTrips(now, t, error)
            /\ terminal' = IF ~latched' /\ Improves(t, error)
                             THEN [t EXCEPT !.bestError = error, !.progressAt = now] ELSE t
=============================================================================
