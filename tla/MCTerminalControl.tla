------------------------ MODULE MCTerminalControl -------------------------
EXTENDS TerminalControl

(* Two goals ahead and a quarter turn apart; the second pose is also what  *)
(* a localization correction makes of the first.                           *)
MCGoalPoses == {[at |-> 0, yaw |-> 0], [at |-> 1, yaw |-> 1]}
(* At rest, or driving and turning.                                        *)
MCMotions == {[speed |-> 0, turning |-> FALSE], [speed |-> 2, turning |-> TRUE]}
MCTrajectories == {[linear |-> 0, angular |-> 1], [linear |-> 1, angular |-> 0]}
=============================================================================
