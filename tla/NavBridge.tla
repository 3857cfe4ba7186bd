----------------------------- MODULE NavBridge -----------------------------
(***************************************************************************)
(* The navigation runs of GoalRuns together with the speed limit of        *)
(* nav2_wrapper/atlas_bridge.py: the effective and the session percentage, *)
(* the goal-scoped override, _speed_lock, the two SpeedLimit publishers    *)
(* and the timer that reapplies the limit when the controller reconnects.  *)
(*                                                                         *)
(* _speed_lock is held across publishing, so it is a variable and its      *)
(* holder has a program counter of its own, spc.  The step that takes the  *)
(* lock also does what its holder alone can see.  The read in              *)
(* _publish_speed_limit() takes and releases the lock in one step; what it *)
(* publishes afterwards, it publishes without the lock.                    *)
(***************************************************************************)
EXTENDS GoalRuns

CONSTANTS
  Bringup,            \* the thread of Driver.Init
  NoThread,           \* _speed_lock is free
  MinPercentage, StepPercentage, DefaultPercentage,  \* dynamic_speed
  Requests,           \* percentages set_speed_limit is called with
  MaxRestarts,        \* bound: restarts of Nav2's Controller Server
  MaxFaults           \* bound: publish() calls that raise

SpeedThreads == Threads \cup {Bringup}

ASSUME NavBridgeAssumption ==
  /\ Bringup \notin Threads
  /\ NoThread \notin SpeedThreads
  /\ MinPercentage \in Nat /\ StepPercentage \in Nat /\ DefaultPercentage \in Nat
  /\ 0 < MinPercentage /\ MinPercentage <= DefaultPercentage /\ DefaultPercentage <= 100
  /\ 0 < StepPercentage /\ StepPercentage <= 100
  /\ Requests \subseteq Nat
  /\ MaxRestarts \in Nat /\ MaxFaults \in Nat

VARIABLES
  initialized,  \* _initialized
  speedPct,     \* _speed_percentage
  sessionPct,   \* _session_speed_percentage
  scopeRun,     \* _speed_scope_run_id; NoRun when _speed_scope is "session"
  connected,    \* _speed_subscriber_connected
  speedLock,    \* the holder of _speed_lock
  spc,          \* where each thread stands in the speed code
  job,          \* what it is there for
  want,         \* the percentage it is publishing
  owner,        \* the run its mutation is scoped to; NoRun when persist
  controllerUp, \* external: the Controller Server subscribes to the limit
  navLimit,     \* external: the limit the Controller Server applies
  guardLimit,   \* external: the limit the velocity guard applies
  guardFrom,    \* history: the job that published guardLimit
  restarts, faults  \* bounded counters of the environment

wrapperVars == <<initialized, speedPct, sessionPct, scopeRun, connected>>
threadVars == <<speedLock, spc, job, want, owner>>
limitVars == <<navLimit, guardLimit, guardFrom>>
envVars == <<controllerUp, restarts, faults>>
speedVars == <<wrapperVars, threadVars, limitVars, envVars>>
vars == <<goalVars, speedVars>>

Percentages == MinPercentage..100
FullSpeed == 100   \* a controller that was told no limit

BridgeInit ==
  /\ Init
  /\ initialized = FALSE
  /\ speedPct = DefaultPercentage
  /\ sessionPct = DefaultPercentage
  /\ scopeRun = NoRun
  /\ connected = FALSE
  /\ speedLock = NoThread
  /\ spc = [t \in SpeedThreads |-> "out"]
  /\ job = [t \in SpeedThreads |-> "none"]
  /\ want = [t \in SpeedThreads |-> DefaultPercentage]
  /\ owner = [t \in SpeedThreads |-> NoRun]
  /\ controllerUp = FALSE
  /\ navLimit = FullSpeed
  /\ guardLimit = DefaultPercentage
  /\ guardFrom = "none"
  /\ restarts = 0
  /\ faults = 0

-----------------------------------------------------------------------------
(* speed_control.py: the percentages a mutation can decide on.             *)

Faster(p) == IF p + StepPercentage > 100 THEN 100 ELSE p + StepPercentage

SlowerUnbounded(p) == IF p < StepPercentage THEN 0 ELSE p - StepPercentage  \* seeded fault
Slower(p) ==
  IF p < MinPercentage + StepPercentage THEN MinPercentage ELSE p - StepPercentage

ExplicitDecisions == {p \in Requests : MinPercentage <= p /\ p <= 100}

Decisions(p) == {Faster(p), Slower(p), DefaultPercentage} \cup ExplicitDecisions

-----------------------------------------------------------------------------
(* Control of the speed code.                                              *)

OutOfSpeedCode(t) == spc[t] = "out"
LockIgnored == TRUE  \* seeded fault: the speed code without its lock
LockFree == speedLock = NoThread
ChannelsAvailable == controllerUp   \* the guard, once up, stays subscribed

(* Thread t starts to publish p.                                           *)
StartPublishing(t, why, p, run) ==
  /\ spc' = [spc EXCEPT ![t] = "nav"]
  /\ job' = [job EXCEPT ![t] = why]
  /\ want' = [want EXCEPT ![t] = p]
  /\ owner' = [owner EXCEPT ![t] = run]

LeaveSpeedCode(t) ==
  /\ spc' = [spc EXCEPT ![t] = "out"]
  /\ job' = [job EXCEPT ![t] = "none"]
  /\ want' = [want EXCEPT ![t] = DefaultPercentage]
  /\ owner' = [owner EXCEPT ![t] = NoRun]

-----------------------------------------------------------------------------
(* adjust_speed and set_speed_limit.                                       *)

Mutate(c) ==
  /\ Idle(c)
  /\ OutOfSpeedCode(c)
  /\ initialized
  /\ ChannelsAvailable
  /\ spc' = [spc EXCEPT ![c] = "acquire"]
  /\ job' = [job EXCEPT ![c] = "mutate"]
  /\ UNCHANGED <<goalVars, wrapperVars, speedLock, want, owner, limitVars, envVars>>

(* The run that owns the change; it must be active while the lock is held. *)
KnownSpeedRunIds == {ResolveRunId(id) : id \in Runs}  \* seeded fault: state not tested
ActiveSpeedRunIds == {r \in {ResolveRunId(id) : id \in Runs \cup {NoRun}} : r \in ActiveRuns}

MutateOwners == {NoRun} \cup ActiveSpeedRunIds

MutateDecide(c) ==
  /\ spc[c] = "acquire"
  /\ LockFree
  /\ speedLock' = c
  /\ \E run \in MutateOwners, p \in Decisions(speedPct) : StartPublishing(c, "mutate", p, run)
  /\ UNCHANGED <<goalVars, wrapperVars, limitVars, envVars>>

(* An unknown or ended run, a bad direction or a percentage out of bounds. *)
MutateRefused(c) ==
  /\ spc[c] = "acquire"
  /\ LockFree
  /\ LeaveSpeedCode(c)
  /\ UNCHANGED <<goalVars, wrapperVars, speedLock, limitVars, envVars>>

(* Seeded fault: a persistent change forgets the session percentage.       *)
CommitEffectiveOnly(t) ==
  /\ speedPct' = want[t]
  /\ scopeRun' = owner[t]
  /\ UNCHANGED <<initialized, sessionPct, connected>>

Commit(t) ==
  /\ speedPct' = want[t]
  /\ scopeRun' = owner[t]
  /\ sessionPct' = IF owner[t] = NoRun THEN want[t] ELSE sessionPct
  /\ UNCHANGED <<initialized, connected>>

-----------------------------------------------------------------------------
(* _restore_speed_after_run, called by the thread that ended the run.      *)

OwnsAsLatest(r) == scopeRun = r /\ lastRunId = r  \* seeded fault: the latest run restores
OwnsOverride(r) == scopeRun = r

RestoreNotOwner(t) ==
  /\ pc[t] = "restore"
  /\ OutOfSpeedCode(t)
  /\ LockFree
  /\ ~OwnsOverride(at[t])
  /\ Restored(t)
  /\ UNCHANGED speedVars

RestoreSession(t) ==
  /\ pc[t] = "restore"
  /\ OutOfSpeedCode(t)
  /\ LockFree
  /\ OwnsOverride(at[t])
  /\ speedLock' = t
  /\ speedPct' = sessionPct
  /\ scopeRun' = NoRun
  /\ StartPublishing(t, "restore", sessionPct, NoRun)
  /\ UNCHANGED <<goalVars, initialized, sessionPct, connected, limitVars, envVars>>

-----------------------------------------------------------------------------
(* The one-second timer of the node, and the end of Driver.Init.           *)

RefreshNoticesLoss ==
  /\ rosNode
  /\ Idle(Executor) /\ OutOfSpeedCode(Executor)
  /\ ~controllerUp
  /\ connected
  /\ connected' = FALSE
  /\ UNCHANGED <<goalVars, initialized, speedPct, sessionPct, scopeRun, threadVars,
                 limitVars, envVars>>

ReadAndPublish(t, why) ==
  /\ LockFree
  /\ StartPublishing(t, why, speedPct, NoRun)
  /\ UNCHANGED <<goalVars, wrapperVars, speedLock, limitVars, envVars>>

RefreshReconnected ==
  /\ rosNode
  /\ Idle(Executor) /\ OutOfSpeedCode(Executor)
  /\ controllerUp
  /\ ~connected
  /\ ReadAndPublish(Executor, "refresh")

WaitForSpeedSubscriber ==
  /\ navReady
  /\ ~initialized
  /\ OutOfSpeedCode(Bringup)
  /\ ChannelsAvailable
  /\ ReadAndPublish(Bringup, "bringup")

PublishedByPoll(t) ==
  /\ spc[t] = "done"
  /\ connected' = TRUE
  /\ initialized' = (initialized \/ job[t] = "bringup")
  /\ LeaveSpeedCode(t)
  /\ UNCHANGED <<goalVars, speedPct, sessionPct, scopeRun, speedLock, limitVars, envVars>>

-----------------------------------------------------------------------------
(* _publish_speed_limit: Nav2 first, then the guard; either call may raise. *)

PublishNav(t) ==
  /\ spc[t] = "nav"
  /\ navLimit' = IF controllerUp THEN want[t] ELSE navLimit
  /\ spc' = [spc EXCEPT ![t] = "guard"]
  /\ UNCHANGED <<goalVars, wrapperVars, speedLock, job, want, owner, guardLimit, guardFrom,
                 envVars>>

TellGuard(t) ==
  /\ guardLimit' = want[t]
  /\ guardFrom' = job[t]
  /\ UNCHANGED <<navLimit, envVars>>

PublishGuardMutate(t) ==
  /\ spc[t] = "guard" /\ job[t] = "mutate"
  /\ TellGuard(t)
  /\ Commit(t)
  /\ speedLock' = NoThread
  /\ LeaveSpeedCode(t)
  /\ UNCHANGED goalVars

PublishGuardRestore(t) ==
  /\ spc[t] = "guard" /\ job[t] = "restore"
  /\ TellGuard(t)
  /\ speedLock' = NoThread
  /\ LeaveSpeedCode(t)
  /\ Restored(t)
  /\ UNCHANGED wrapperVars

PublishGuardPoll(t) ==
  /\ spc[t] = "guard" /\ job[t] \in {"refresh", "bringup"}
  /\ TellGuard(t)
  /\ spc' = [spc EXCEPT ![t] = "done"]
  /\ UNCHANGED <<goalVars, wrapperVars, speedLock, job, want, owner>>

KeepLock == UNCHANGED speedLock  \* seeded fault: an exception skips the release
ReleaseOnRaise == speedLock' = NoThread

NoRetryOnRaise == UNCHANGED connected  \* seeded fault: a failed restore is only logged
RetryOnRaise == connected' = FALSE

(* A raise: a mutation is refused and changes nothing of the wrapper, a    *)
(* restore asks the timer for a retry, the timer tries at its next tick.   *)
(* A raise in Driver.Init ends the bring-up and is not followed here.      *)
PublishRaises(t) ==
  /\ spc[t] \in {"nav", "guard"}
  /\ faults < MaxFaults
  /\ faults' = faults + 1
  /\ LeaveSpeedCode(t)
  /\ \/ /\ job[t] = "mutate"
        /\ speedLock' = NoThread
        /\ UNCHANGED <<goalVars, connected>>
     \/ /\ job[t] = "restore"
        /\ ReleaseOnRaise
        /\ RetryOnRaise
        /\ Restored(t)
     \/ /\ job[t] = "refresh"
        /\ UNCHANGED <<goalVars, speedLock, connected>>
  /\ UNCHANGED <<initialized, speedPct, sessionPct, scopeRun, limitVars, controllerUp, restarts>>

-----------------------------------------------------------------------------
(* External: Nav2's Controller Server; a new one knows no limit.           *)

ControllerUp ==
  /\ ~controllerUp
  /\ controllerUp' = TRUE
  /\ navLimit' = FullSpeed
  /\ UNCHANGED <<goalVars, wrapperVars, threadVars, guardLimit, guardFrom, restarts, faults>>

ControllerDown ==
  /\ controllerUp
  /\ restarts < MaxRestarts
  /\ restarts' = restarts + 1
  /\ controllerUp' = FALSE
  /\ UNCHANGED <<goalVars, wrapperVars, threadVars, limitVars, faults>>

-----------------------------------------------------------------------------
(* A thread inside the speed code makes no step of GoalRuns; the end of a  *)
(* restore is a step of both.                                              *)
GoalStep ==
  /\ \/ BringupStep
     \/ \E c \in Callers : OutOfSpeedCode(c) /\ HandlerStep(c)
     \/ DispatcherStep
     \/ OutOfSpeedCode(Executor) /\ ExecutorStep
     \/ \E t \in Threads : IssueStep(t)
     \/ Environment
  /\ UNCHANGED speedVars

RestoreCall(t) == RestoreNotOwner(t) \/ RestoreSession(t)

DecideStep(c) == MutateDecide(c) \/ MutateRefused(c)

Refresh == RefreshNoticesLoss \/ RefreshReconnected

PublishStep(t) ==
  \/ PublishNav(t)
  \/ PublishGuardMutate(t)
  \/ t \in Threads /\ PublishGuardRestore(t)
  \/ PublishGuardPoll(t)
  \/ PublishedByPoll(t)

BridgeNext ==
  \/ GoalStep
  \/ \E c \in Callers : Mutate(c) \/ DecideStep(c)
  \/ \E t \in Threads : RestoreCall(t) \/ PublishRaises(t)
  \/ Refresh
  \/ WaitForSpeedSubscriber
  \/ \E t \in SpeedThreads : PublishStep(t)
  \/ ControllerUp
  \/ ControllerDown

BridgeSpec == BridgeInit /\ [][BridgeNext]_vars

(* A thread that publishes goes on; one that waits for _speed_lock gets it *)
(* if the lock is free again and again (clients do not keep it taken).     *)
(* The refresh timer fires every second.                                   *)
BridgeFairness ==
  /\ \A t \in SpeedThreads : WF_vars(PublishStep(t))
  /\ \A c \in Callers : SF_vars(DecideStep(c))
  /\ \A t \in Threads : SF_vars(RestoreCall(t))
  /\ \A t \in Threads : WF_vars(IssueStep(t) /\ UNCHANGED speedVars)
  /\ SF_vars(Refresh)

BridgeFairSpec == BridgeSpec /\ BridgeFairness

-----------------------------------------------------------------------------
(* Properties.                                                             *)

Jobs == {"none", "mutate", "restore", "refresh", "bringup"}

(* The values the speed state ranges over.                                 *)
SpeedTypeOK ==
  /\ initialized \in BOOLEAN
  /\ speedPct \in Percentages
  /\ sessionPct \in Percentages
  /\ scopeRun \in Runs \cup {NoRun}
  /\ connected \in BOOLEAN
  /\ speedLock \in SpeedThreads \cup {NoThread}
  /\ spc \in [SpeedThreads -> {"out", "acquire", "nav", "guard", "done"}]
  /\ job \in [SpeedThreads -> Jobs]
  /\ want \in [SpeedThreads -> Percentages]
  /\ owner \in [SpeedThreads -> Runs \cup {NoRun}]
  /\ controllerUp \in BOOLEAN
  /\ navLimit \in Percentages
  /\ guardLimit \in Percentages
  /\ guardFrom \in Jobs
  /\ restarts \in 0..MaxRestarts
  /\ faults \in 0..MaxFaults

(* A goal-scoped override never outlives its run: if the run has ended,    *)
(* the thread that ended it is still inside the call that restores the     *)
(* session limit.  The run may end between the check of a mutation and its *)
(* commit.                                                                 *)
RestoreOwed(r) == \E t \in Threads : pc[t] = "restore" /\ at[t] = r

OverrideIsOwned ==
  \A r \in Runs : scopeRun = r /\ IsTerminal(r) => RestoreOwed(r)

(* With no override in force, the effective percentage is the session's,   *)
(* also while a thread that holds the lock publishes another one, which it *)
(* commits only afterwards, or is refused by a publish that raises.        *)
SessionAgrees == scopeRun = NoRun => speedPct = sessionPct

(* No thread is in the speed code and the timer would find nothing to do.  *)
Settled ==
  /\ \A t \in SpeedThreads : OutOfSpeedCode(t)
  /\ initialized /\ controllerUp /\ connected

(* A limit published under _speed_lock is the one get_speed_limit reports: *)
(* when the guard enforces another, a timer or bring-up publish did it, or *)
(* a publish raised before it reached the guard.                           *)
LockedPublishAgrees ==
  Settled /\ faults = 0 /\ guardFrom \in {"mutate", "restore"} => guardLimit = speedPct

(* README and config.spec: the limit get_speed_limit reports is the one    *)
(* "the final velocity guard enforces".                                    *)
GuardEnforcesReported == Settled => guardLimit = speedPct

(* An override whose run has ended is dropped in the end.                  *)
OverrideEnds ==
  \A r \in Runs : (scopeRun = r /\ IsTerminal(r)) ~> (scopeRun # r)

(* _speed_lock is never leaked and nobody waits for it for ever: each call *)
(* into the speed code returns, the wait for the lock of a mutation and of *)
(* a restore included.                                                     *)
InSpeedCode(t) == spc[t] # "out" \/ (t \in Threads /\ pc[t] = "restore")

SpeedCallsReturn == \A t \in SpeedThreads : InSpeedCode(t) ~> ~InSpeedCode(t)

(* Both the Controller Server and the guard apply the percentage in force. *)
LimitTold == navLimit = speedPct /\ guardLimit = speedPct

PollPublishes == \E t \in SpeedThreads : job[t] \in {"refresh", "bringup"}
Restoring == \E t \in Threads : job[t] = "restore"
RestoreBegins == \E t \in Threads : job[t] = "restore" /\ spc[t] = "nav"
MutationPublishes == ~LockFree /\ job[speedLock] = "mutate"

(* A limit that is owed is told to both in the end.  The session's limit   *)
(* is owed from the moment a restore begins to publish it, whether a       *)
(* publish raises or not ("speed reset ... will retry"); the limit in      *)
(* force is owed once the timer has noticed that the controller was gone   *)
(* ("reapply once when Controller Server reconnects").  The controller may *)
(* be gone again first, and a change of the limit may take over.  Nothing  *)
(* is promised for a restore that overlaps a publish of the timer, which   *)
(* then takes the retry for done, nor for a loss that no poll noticed.     *)
OwedLimitIsTold ==
  /\ (controllerUp /\ RestoreBegins /\ ~PollPublishes)
       ~> (LimitTold \/ ~controllerUp \/ MutationPublishes)
  /\ (controllerUp /\ initialized /\ ~connected /\ ~PollPublishes)
       ~> (LimitTold \/ ~controllerUp \/ MutationPublishes \/ Restoring)
=============================================================================
