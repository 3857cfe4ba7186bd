---------------------------- MODULE RunContract ----------------------------
(***************************************************************************)
(* What a client of navigate/status/cancel may rely on, without threads,   *)
(* locks, queues or callbacks: a run is started at most once, the robot    *)
(* pursues its goal only while status says RUNNING, a run that ended stays *)
(* ended, and every run that was accepted ends.                            *)
(***************************************************************************)
EXTENDS Naturals

CONSTANT Runs

VARIABLES
  stage,   \* what status answers for the run; "absent" is an unknown run_id
  pursuit  \* whether the robot pursues the goal: "never" yet, "now", "over"

contractVars == <<stage, pursuit>>

Ended == {"SUCCEEDED", "FAILED", "CANCELED"}

ContractInit ==
  /\ stage = [r \in Runs |-> "absent"]
  /\ pursuit = [r \in Runs |-> "never"]

Submit(r) ==
  /\ stage[r] = "absent"
  /\ stage' = [stage EXCEPT ![r] = "PENDING"]
  /\ UNCHANGED pursuit

(* A run leaves the queue to be started, or because it was canceled.       *)
Leave(r) ==
  /\ stage[r] = "PENDING"
  /\ \E s \in {"RUNNING", "CANCELED"} : stage' = [stage EXCEPT ![r] = s]
  /\ UNCHANGED pursuit

Pursue(r) ==
  /\ stage[r] = "RUNNING"
  /\ pursuit[r] = "never"
  /\ pursuit' = [pursuit EXCEPT ![r] = "now"]
  /\ UNCHANGED stage

(* The outcome is published in the same step that ends the pursuit.        *)
End(r) ==
  /\ stage[r] = "RUNNING"
  /\ \E s \in Ended : stage' = [stage EXCEPT ![r] = s]
  /\ \/ pursuit[r] = "never" /\ UNCHANGED pursuit
     \/ pursuit' = [pursuit EXCEPT ![r] = "over"]

ContractNext == \E r \in Runs : Submit(r) \/ Leave(r) \/ Pursue(r) \/ End(r)

ContractSpec ==
  /\ ContractInit
  /\ [][ContractNext]_contractVars
  /\ \A r \in Runs : WF_contractVars(Leave(r)) /\ WF_contractVars(End(r))
=============================================================================
