-------------------------- MODULE MCVelocityGuard --------------------------
EXTENDS VelocityGuard, TLC

CONSTANTS g1, g2

Ids == Permutations(Goals)

(* To Evaluate a pose away from the plan's end is like no pose, so one     *)
(* place is enough.  A new plan may halve the yaw error.                   *)
MCPoses == {[place |-> "end", yaw |-> 0]}
MCOnePlanEnd == {[place |-> "end", yaw |-> 1]}
MCPlanEnds == {[place |-> "end", yaw |-> 1], [place |-> "end", yaw |-> 2]}

(* A bound: two kinds of plan, and the last tick of the clock, only while  *)
(* no more than one goal was accepted.                                     *)
SecondGoalInTime ==
  Cardinality(accepted) <= 1 \/ (now < MaxTime /\ goalPose \in MCOnePlanEnd \cup {None})

(* At half the speed, a curve counts as turning in place.                  *)
Curving == [linear |-> 2, angular |-> 1]
Turning == [linear |-> 0, angular |-> 1]
MCCommands == {Curving, Turning}
MCSpeedLimits == {[percentage |-> TRUE, value |-> 50], [percentage |-> FALSE, value |-> 3]}
=============================================================================
