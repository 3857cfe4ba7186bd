---------------------------- MODULE MCNavBridge ----------------------------
EXTENDS NavBridge, FiniteSets, TLC

CONSTANTS r1, r2, c1, c2

Ids == Permutations(Runs) \cup Permutations(Callers)

(* A bound: a publish raises, and the controller restarts, only while no   *)
(* more than one run was submitted.                                        *)
FaultsWithOneRun ==
  faults + restarts = 0 \/ Cardinality({r \in Runs : goalStates[r].state # "absent"}) <= 1

(* A bound: no cancel of a run that was sent to Nav2.  To the speed code   *)
(* the result it leads to is a result like any other; a cancel of a run    *)
(* that still waits ends it in the handler, and is left in.                *)
CanceledWhilePending == \A r \in Runs : goalStates[r].cancelRequested => IsTerminal(r)
=============================================================================
