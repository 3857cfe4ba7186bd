-------------------------- MODULE NavBridgeProofs --------------------------
(***************************************************************************)
(* Theorems about the runs composed with the speed limit, for any number   *)
(* of runs and handler threads, any percentages, restarts and raises.      *)
(***************************************************************************)
EXTENDS NavBridge, ContractProofs

(***************************************************************************)
(* The composition implements GoalRuns: the speed code adds no step to the *)
(* runs, so every theorem about Spec is one about BridgeSpec.              *)
(***************************************************************************)
LEMMA BridgeStep == ASSUME [BridgeNext]_vars PROVE [Next]_goalVars
<1>1. CASE GoalStep
  BY <1>1 DEF GoalStep, Next
<1>2. ASSUME NEW c \in Callers, Mutate(c) \/ DecideStep(c) PROVE UNCHANGED goalVars
  BY <1>2 DEF Mutate, DecideStep, MutateDecide, MutateRefused
<1>3. ASSUME NEW t \in Threads, RestoreCall(t) PROVE [Next]_goalVars
  BY <1>3 DEF RestoreCall, RestoreNotOwner, RestoreSession, Next
<1>4. ASSUME NEW t \in Threads, PublishRaises(t) PROVE [Next]_goalVars
  BY <1>4 DEF PublishRaises, Next
<1>5. CASE Refresh \/ WaitForSpeedSubscriber \/ ControllerUp \/ ControllerDown
  BY <1>5 DEF Refresh, RefreshNoticesLoss, RefreshReconnected, WaitForSpeedSubscriber,
              ReadAndPublish, ControllerUp, ControllerDown
<1>6. ASSUME NEW t \in SpeedThreads, PublishStep(t) PROVE [Next]_goalVars
  BY <1>6 DEF PublishStep, PublishNav, PublishGuardMutate, PublishGuardRestore,
              PublishGuardPoll, PublishedByPoll, Next
<1>7. CASE UNCHANGED vars
  BY <1>7 DEF vars
<1> QED BY <1>1, <1>2, <1>3, <1>4, <1>5, <1>6, <1>7 DEF BridgeNext

\* Every behaviour of the wrapper with its speed limit is one of the runs.
THEOREM BridgeImplementsRuns == BridgeSpec => Spec
<1>1. BridgeInit => Init
  BY DEF BridgeInit
<1> QED BY <1>1, BridgeStep, PTL DEF BridgeSpec, Spec

\* No timer, mutation, restore or restart of the Controller Server makes the
\* runs forget, revive or cut short a run, or lose a cancel.
THEOREM BridgeRunsSafe ==
  BridgeSpec => /\ [](PendingIsQueued /\ NoEarlyTerminal /\ CancelIsForwarded)
                /\ TerminalIsFinal
BY BridgeImplementsRuns, PendingQueued, NoEarlyTerminalCorrect, CancelForwarded, TerminalFinal, PTL

\* With its speed limit the wrapper still gives a client what RunContract says
\* of a run, and keeps a cancel latched until the run ends or it is forwarded.
THEOREM BridgeImplementsContract ==
  ASSUME "UNKNOWN" \notin ResultStatuses
  PROVE  BridgeSpec => /\ Contract!ContractInit /\ [][Contract!ContractNext]_Contract!contractVars
                       /\ LatchIsKept
BY BridgeImplementsRuns, ContractImplemented, LatchKept, PTL

\* What is proved about the runs alone, where the speed code needs it.
LEMMA RunsCorrect == BridgeSpec => [](TypeOK /\ Inv)
BY BridgeImplementsRuns, TypeCorrect, InvCorrect, PTL

(***************************************************************************)
(* Types.                                                                  *)
(***************************************************************************)
\* A mutation decides on a percentage within the bounds ...
LEMMA DecisionsTyped ==
  ASSUME NEW p \in Percentages
  PROVE  Decisions(p) \subseteq Percentages
<1> USE NavBridgeAssumption DEF NavBridgeAssumption, Percentages
<1>1. Faster(p) \in Percentages
  BY DEF Faster
<1>2. Slower(p) \in Percentages
  BY DEF Slower
<1>3. DefaultPercentage \in Percentages
  OBVIOUS
<1>4. ASSUME NEW q \in ExplicitDecisions PROVE q \in Percentages
  <2>1. q \in Nat /\ MinPercentage <= q /\ q <= 100
    BY DEF ExplicitDecisions
  <2> QED BY <2>1
<1> QED BY <1>1, <1>2, <1>3, <1>4 DEF Decisions

\* ... for the session or for a run that is active.
LEMMA OwnersTyped ==
  ASSUME NEW run \in MutateOwners
  PROVE  run \in Runs \cup {NoRun} /\ (run # NoRun => run \in ActiveRuns)
BY DEF MutateOwners, ActiveSpeedRunIds, ActiveRuns

LEMMA LevelsTyped ==
  /\ DefaultPercentage \in Percentages /\ FullSpeed \in Percentages
  /\ NoThread \notin SpeedThreads
  /\ Threads \subseteq SpeedThreads /\ Bringup \in SpeedThreads /\ Bringup \notin Threads
BY NavBridgeAssumption DEF NavBridgeAssumption, Percentages, FullSpeed, SpeedThreads

LEMMA PublishTyped ==
  ASSUME SpeedTypeOK, NEW t \in SpeedThreads, NEW why \in Jobs, NEW p \in Percentages,
         NEW run \in Runs \cup {NoRun}, StartPublishing(t, why, p, run)
  PROVE  /\ spc' \in [SpeedThreads -> {"out", "acquire", "nav", "guard", "done"}]
         /\ job' \in [SpeedThreads -> Jobs]
         /\ want' \in [SpeedThreads -> Percentages]
         /\ owner' \in [SpeedThreads -> Runs \cup {NoRun}]
         /\ spc'[t] = "nav" /\ job'[t] = why /\ want'[t] = p /\ owner'[t] = run
         /\ \A u \in SpeedThreads : u # t =>
              spc'[u] = spc[u] /\ job'[u] = job[u] /\ want'[u] = want[u] /\ owner'[u] = owner[u]
BY DEF StartPublishing, SpeedTypeOK

LEMMA LeaveTyped ==
  ASSUME SpeedTypeOK, NEW t \in SpeedThreads, LeaveSpeedCode(t)
  PROVE  /\ spc' \in [SpeedThreads -> {"out", "acquire", "nav", "guard", "done"}]
         /\ job' \in [SpeedThreads -> Jobs]
         /\ want' \in [SpeedThreads -> Percentages]
         /\ owner' \in [SpeedThreads -> Runs \cup {NoRun}]
         /\ spc'[t] = "out" /\ job'[t] = "none" /\ owner'[t] = NoRun
         /\ \A u \in SpeedThreads : u # t =>
              spc'[u] = spc[u] /\ job'[u] = job[u] /\ want'[u] = want[u] /\ owner'[u] = owner[u]
BY LevelsTyped DEF LeaveSpeedCode, SpeedTypeOK, Jobs

LEMMA SpeedTypeStep ==
  ASSUME SpeedTypeOK, [BridgeNext]_vars
  PROVE  SpeedTypeOK'
<1> USE LevelsTyped
<1> Executor \in SpeedThreads /\ Callers \subseteq SpeedThreads
  BY ThreadSets
<1> {"none", "mutate", "restore", "refresh", "bringup"} = Jobs
  BY DEF Jobs
<1>1. CASE UNCHANGED speedVars
  BY <1>1 DEF speedVars, wrapperVars, threadVars, limitVars, envVars, SpeedTypeOK
<1>2. ASSUME NEW c \in Callers, Mutate(c) PROVE SpeedTypeOK'
  BY <1>2 DEF Mutate, wrapperVars, limitVars, envVars, SpeedTypeOK
<1>3. ASSUME NEW c \in Callers, MutateDecide(c) PROVE SpeedTypeOK'
  <2>1. PICK run \in MutateOwners, p \in Decisions(speedPct) : StartPublishing(c, "mutate", p, run)
    BY <1>3 DEF MutateDecide
  <2>2. run \in Runs \cup {NoRun} /\ p \in Percentages
    BY OwnersTyped, DecisionsTyped DEF SpeedTypeOK
  <2> QED BY <1>3, <2>1, <2>2, PublishTyped DEF MutateDecide, wrapperVars, limitVars, envVars, SpeedTypeOK
<1>4. ASSUME NEW c \in Callers, MutateRefused(c) PROVE SpeedTypeOK'
  BY <1>4, LeaveTyped DEF MutateRefused, wrapperVars, limitVars, envVars, SpeedTypeOK
<1>5. ASSUME NEW t \in Threads, RestoreSession(t) PROVE SpeedTypeOK'
  BY <1>5, PublishTyped DEF RestoreSession, limitVars, envVars, SpeedTypeOK
<1>6. ASSUME NEW t \in SpeedThreads, NEW why \in Jobs, ReadAndPublish(t, why) PROVE SpeedTypeOK'
  BY <1>6, PublishTyped DEF ReadAndPublish, wrapperVars, limitVars, envVars, SpeedTypeOK
<1>7. CASE RefreshNoticesLoss
  BY <1>7 DEF RefreshNoticesLoss, threadVars, limitVars, envVars, SpeedTypeOK
<1>8. ASSUME NEW t \in SpeedThreads, PublishNav(t) PROVE SpeedTypeOK'
  BY <1>8 DEF PublishNav, wrapperVars, envVars, SpeedTypeOK
<1>9. ASSUME NEW t \in SpeedThreads, PublishGuardMutate(t) PROVE SpeedTypeOK'
  BY <1>9, LeaveTyped DEF PublishGuardMutate, TellGuard, Commit, envVars, SpeedTypeOK
<1>10. ASSUME NEW t \in SpeedThreads, PublishGuardRestore(t) PROVE SpeedTypeOK'
  BY <1>10, LeaveTyped DEF PublishGuardRestore, TellGuard, wrapperVars, envVars, SpeedTypeOK
<1>11. ASSUME NEW t \in SpeedThreads, PublishGuardPoll(t) PROVE SpeedTypeOK'
  BY <1>11 DEF PublishGuardPoll, TellGuard, wrapperVars, envVars, SpeedTypeOK
<1>12. ASSUME NEW t \in SpeedThreads, PublishedByPoll(t) PROVE SpeedTypeOK'
  BY <1>12, LeaveTyped DEF PublishedByPoll, limitVars, envVars, SpeedTypeOK
<1>13. ASSUME NEW t \in Threads, PublishRaises(t) PROVE SpeedTypeOK'
  <2>1. faults + 1 \in 0..MaxFaults
    BY <1>13, NavBridgeAssumption DEF PublishRaises, SpeedTypeOK, NavBridgeAssumption
  <2>2. speedLock' \in SpeedThreads \cup {NoThread} /\ connected' \in BOOLEAN
    BY <1>13 DEF PublishRaises, ReleaseOnRaise, RetryOnRaise, SpeedTypeOK
  <2> QED BY <1>13, <2>1, <2>2, LeaveTyped DEF PublishRaises, limitVars, SpeedTypeOK
<1>14. CASE ControllerUp
  BY <1>14 DEF ControllerUp, wrapperVars, threadVars, SpeedTypeOK
<1>15. CASE ControllerDown
  <2>1. restarts' \in 0..MaxRestarts
    BY <1>15, NavBridgeAssumption DEF ControllerDown, SpeedTypeOK, NavBridgeAssumption
  <2> QED BY <1>15, <2>1 DEF ControllerDown, wrapperVars, threadVars, limitVars, SpeedTypeOK
<1>16. CASE BridgeNext
  <2>1. CASE GoalStep
    BY <2>1, <1>1 DEF GoalStep
  <2>2. ASSUME NEW c \in Callers, Mutate(c) \/ DecideStep(c) PROVE SpeedTypeOK'
    BY <2>2, <1>2, <1>3, <1>4 DEF DecideStep
  <2>3. ASSUME NEW t \in Threads, RestoreCall(t) \/ PublishRaises(t) PROVE SpeedTypeOK'
    BY <2>3, <1>1, <1>5, <1>13 DEF RestoreCall, RestoreNotOwner
  <2>4. CASE Refresh \/ WaitForSpeedSubscriber
    BY <2>4, <1>6, <1>7 DEF Refresh, RefreshReconnected, WaitForSpeedSubscriber
  <2>5. ASSUME NEW t \in SpeedThreads, PublishStep(t) PROVE SpeedTypeOK'
    BY <2>5, <1>8, <1>9, <1>10, <1>11, <1>12 DEF PublishStep
  <2> QED BY <1>16, <2>1, <2>2, <2>3, <2>4, <2>5, <1>14, <1>15 DEF BridgeNext
<1> QED BY <1>1, <1>16 DEF vars

\* Type correctness; the percentages stay within the configured bounds.
THEOREM SpeedTypeCorrect == BridgeSpec => []SpeedTypeOK
<1>1. BridgeInit => SpeedTypeOK
  <2>1. 0 \in 0..MaxRestarts /\ 0 \in 0..MaxFaults
    BY NavBridgeAssumption DEF NavBridgeAssumption
  <2> QED BY <2>1, LevelsTyped DEF BridgeInit, SpeedTypeOK, Jobs
<1> QED BY <1>1, SpeedTypeStep, PTL DEF BridgeSpec

(***************************************************************************)
(* The inductive invariant.                                                *)
(***************************************************************************)
\* What a thread is in the speed code for: a handler for a mutation, outside
\* of any other call; the thread that ended a run, to restore.
JobOK(t) ==
  /\ spc[t] = "out" <=> job[t] = "none"
  /\ spc[t] = "acquire" => job[t] = "mutate"
  /\ job[t] = "mutate" => t \in Callers /\ Idle(t)
  /\ job[t] = "restore" => t \in Threads /\ pc[t] = "restore" /\ spc[t] \in {"nav", "guard"}

\* Exactly the threads that publish a mutation or a restore hold the lock.
LockInv ==
  \A t \in SpeedThreads :
    speedLock = t <=> spc[t] \in {"nav", "guard"} /\ job[t] \in {"mutate", "restore"}

\* A run that ends while a mutation for it is being published is restored
\* after that mutation: whoever ended it waits for the lock.
OwnerInv ==
  speedLock # NoThread => \A r \in Runs : owner[speedLock] = r /\ IsTerminal(r) => RestoreOwed(r)

\* A restore publishes what it has put in force.
RestoringInv ==
  \A t \in SpeedThreads :
    job[t] = "restore" => scopeRun = NoRun /\ owner[t] = NoRun /\ want[t] = speedPct

SessionInv == scopeRun = NoRun => speedPct = sessionPct

\* Between publishes under the lock the guard has what they published last.
PublishedInv ==
  /\ faults = 0 /\ guardFrom \in {"mutate", "restore"}
  /\ \A t \in SpeedThreads : job[t] # "restore"
  => guardLimit = speedPct

BridgeInv ==
  /\ \A t \in SpeedThreads : JobOK(t)
  /\ LockInv /\ OwnerInv /\ OverrideIsOwned /\ RestoringInv /\ SessionInv /\ PublishedInv

(***************************************************************************)
(* What a step of the runs does to the threads in the speed code.          *)
(***************************************************************************)
\* A thread that restores, and a handler inside a mutation, stay where they are.
LEMMA StaysPut ==
  ASSUME TypeOK, GoalStep, NEW t \in Threads,
         pc[t] = "restore" \/ (t \in Callers /\ Idle(t) /\ ~OutOfSpeedCode(t))
  PROVE  pc'[t] = pc[t] /\ at'[t] = at[t]
<1> USE ThreadSets
<1> ThreadTypeOK
  BY DEF TypeOK
<1>1. ASSUME NEW u \in Threads, NEW l, NEW r, u # t, Goto(u, l, r) PROVE pc'[t] = pc[t] /\ at'[t] = at[t]
  BY <1>1 DEF Goto, ThreadTypeOK
<1>2. CASE UNCHANGED <<pc, at>>
  BY <1>2
<1>3. CASE BringupStep
  BY <1>2, <1>3 DEF BringupStep, NodeUp, WaitForAction
<1>4. ASSUME NEW c \in Callers, OutOfSpeedCode(c), HandlerStep(c) PROVE pc'[t] = pc[t] /\ at'[t] = at[t]
  <2>1. CASE Navigate(c) \/ NavigateEnqueue(c)
    BY <1>1, <1>4, <2>1 DEF Navigate, NavigateRecord, NavigateEnqueue, Return, Idle
  <2>2. ASSUME NEW r \in Runs, Cancel(c, r) PROVE pc'[t] = pc[t] /\ at'[t] = at[t]
    BY <1>1, <1>2, <1>4, <2>2 DEF Cancel, CancelPending, CancelLatch, CancelSubmit, CanCancel, Idle
  <2> QED BY <1>4, <2>1, <2>2, CancelCallRun DEF HandlerStep
<1>5. CASE DispatcherStep
  BY <1>1, <1>2, <1>5 DEF DispatcherStep, DispatchSkip, DispatchClaim, DispatchNotReady, DispatchSend,
                          DispatchSent, Return, Idle
<1>6. CASE ExecutorStep
  BY <1>1, <1>2, <1>6 DEF ExecutorStep, GoalRefused, GoalAccepted, GoalAnswered, Result, Idle
<1>7. ASSUME NEW u \in Threads, IssueStep(u) PROVE pc'[t] = pc[t] /\ at'[t] = at[t]
  BY <1>1, <1>7 DEF IssueStep, IssueCancel, IssueCancelRaises, Return, Idle
<1>8. CASE Environment
  BY <1>2, <1>8 DEF Environment, Nav2Cancel, CancelGranted, CancelRefused
<1> QED BY <1>3, <1>4, <1>5, <1>6, <1>7, <1>8 DEF GoalStep

\* The thread that ends a run goes on to restore the session limit.
LEMMA EndIsOwed ==
  ASSUME TypeOK, GoalStep, NEW r \in Runs, ~IsTerminal(r), IsTerminal(r)'
  PROVE  RestoreOwed(r)'
<1> USE ThreadSets
<1> ThreadTypeOK /\ StatesTypeOK
  BY DEF TypeOK
<1>1. ASSUME NEW t \in Threads, Goto(t, "restore", r) PROVE RestoreOwed(r)'
  BY <1>1 DEF Goto, ThreadTypeOK, RestoreOwed
\* Only a write of another state to this run's entry can end it.
<1>2. ASSUME NEW q \in Runs, NEW s, NEW b, SetRun(q, s, b), s \notin Terminal \/ s = goalStates[q].state
      PROVE  FALSE
  BY <1>2 DEF SetRun, StatesTypeOK, IsTerminal
<1>3. ASSUME NEW q \in Runs, NEW s, NEW b, SetRun(q, s, b), NEW t \in Threads, Goto(t, "restore", q)
      PROVE  RestoreOwed(r)'
  BY <1>1, <1>3 DEF SetRun, StatesTypeOK, IsTerminal
<1>4. CASE UNCHANGED goalStates
  BY <1>4 DEF IsTerminal
<1>5. "PENDING" \notin Terminal /\ "RUNNING" \notin Terminal
  BY DEF Terminal
<1>6. CASE BringupStep
  BY <1>4, <1>6 DEF BringupStep, NodeUp, WaitForAction, tableVars
<1>7. ASSUME NEW c \in Callers, HandlerStep(c) PROVE RestoreOwed(r)'
  <2>1. CASE Navigate(c) \/ NavigateEnqueue(c)
    BY <1>2, <1>4, <1>5, <2>1 DEF Navigate, NavigateRecord, NavigateEnqueue, tableVars
  <2>2. ASSUME NEW q \in Runs, Cancel(c, q) PROVE RestoreOwed(r)'
    <3>1. CASE CancelPending(c, q)
      BY <1>3, <3>1 DEF CancelPending
    <3>2. CASE CancelLatch(c, q)
      BY <1>2, <1>5, <3>2 DEF CancelLatch, StateOnCancel
    <3>3. CASE CancelSubmit(c, q)
      BY <1>2, <3>3 DEF CancelSubmit
    <3> QED BY <2>2, <3>1, <3>2, <3>3 DEF Cancel
  <2> QED BY <1>7, <2>1, <2>2, CancelCallRun DEF HandlerStep
<1>8. CASE DispatcherStep
  <2>1. CASE DispatchClaim
    <3>1. Head(navQueue) \in Runs
      BY <2>1 DEF DispatchClaim, TypeOK, QueueTypeOK
    <3> QED BY <1>2, <1>5, <2>1, <3>1 DEF DispatchClaim
  <2>2. CASE DispatchNotReady
    BY <1>3, <2>2, AtRun DEF DispatchNotReady
  <2>3. CASE DispatchSent
    BY <1>2, <1>5, <2>3, AtRun DEF DispatchSent
  <2> QED BY <1>4, <1>8, <2>1, <2>2, <2>3 DEF DispatcherStep, DispatchSkip, DispatchSend, tableVars
<1>9. ASSUME NEW q \in Runs, GoalRefused(q) \/ GoalAccepted(q) \/ \E s \in ResultStatuses : Result(q, s)
      PROVE  RestoreOwed(r)'
  BY <1>2, <1>3, <1>5, <1>9 DEF GoalRefused, GoalAccepted, Result
<1>10. ASSUME NEW t \in Threads, IssueStep(t) PROVE RestoreOwed(r)'
  BY <1>2, <1>4, <1>10, AtRun DEF IssueStep, IssueCancel, IssueCancelRaises, tableVars
<1>11. ASSUME NEW q \in Runs, Nav2Cancel(q) \/ CancelGranted(q) \/ CancelRefused(q) PROVE RestoreOwed(r)'
  BY <1>2, <1>4, <1>5, <1>11 DEF Nav2Cancel, CancelGranted, CancelRefused, RecordCancelAnswer, tableVars
<1> QED BY <1>6, <1>7, <1>8, <1>9, <1>10, <1>11 DEF GoalStep, ExecutorStep, Environment

(***************************************************************************)
(* The inductive invariant holds and is kept by every step.                *)
(***************************************************************************)
LEMMA BridgeInvInit == BridgeInit => BridgeInv
<1> SUFFICES ASSUME BridgeInit PROVE BridgeInv
  OBVIOUS
<1> USE LevelsTyped DEF BridgeInit
<1>1. \A t \in SpeedThreads : JobOK(t)
  BY DEF JobOK
<1>2. LockInv /\ OwnerInv /\ RestoringInv
  BY DEF LockInv, OwnerInv, RestoringInv
<1>3. OverrideIsOwned
  BY GoalRunsAssumption DEF OverrideIsOwned, GoalRunsAssumption
<1>4. SessionInv /\ PublishedInv
  BY DEF SessionInv, PublishedInv
<1> QED BY <1>1, <1>2, <1>3, <1>4 DEF BridgeInv

\* A step of the runs.
LEMMA BridgeInvGoal ==
  ASSUME TypeOK, BridgeInv, GoalStep
  PROVE  BridgeInv'
<1> UNCHANGED speedVars
  BY DEF GoalStep
<1> USE DEF speedVars, wrapperVars, threadVars, limitVars, envVars
<1>1. ASSUME NEW r \in Runs, IsTerminal(r) => RestoreOwed(r), IsTerminal(r)' PROVE RestoreOwed(r)'
  <2>1. CASE IsTerminal(r)
    BY <1>1, <2>1, StaysPut DEF RestoreOwed
  <2>2. CASE ~IsTerminal(r)
    BY <1>1, <2>2, EndIsOwed
  <2> QED BY <2>1, <2>2
<1>2. ASSUME NEW t \in SpeedThreads PROVE JobOK(t)'
  <2>1. JobOK(t)
    BY DEF BridgeInv
  <2>2. CASE job[t] \in {"mutate", "restore"}
    BY <2>1, <2>2, StaysPut, ThreadSets DEF JobOK, Idle, OutOfSpeedCode
  <2>3. CASE job[t] \notin {"mutate", "restore"}
    BY <2>1, <2>3 DEF JobOK
  <2> QED BY <2>2, <2>3
<1>3. LockInv' /\ RestoringInv' /\ SessionInv' /\ PublishedInv'
  BY DEF BridgeInv, LockInv, RestoringInv, SessionInv, PublishedInv
<1>4. OwnerInv'
  BY <1>1 DEF BridgeInv, OwnerInv
<1>5. OverrideIsOwned'
  BY <1>1 DEF BridgeInv, OverrideIsOwned
<1> QED BY <1>2, <1>3, <1>4, <1>5 DEF BridgeInv

\* What the runs look like, where a step leaves them alone.
LEMMA RunsUntouched ==
  ASSUME UNCHANGED goalVars
  PROVE  /\ \A r : IsTerminal(r)' <=> IsTerminal(r)
         /\ \A r : RestoreOwed(r)' <=> RestoreOwed(r)
         /\ \A t : Idle(t)' <=> Idle(t)
         /\ UNCHANGED <<pc, at>>
BY DEF goalVars, tableVars, IsTerminal, RestoreOwed, Idle

\* A handler that wants to change the limit, up to its decision.
LEMMA BridgeInvMutate ==
  ASSUME SpeedTypeOK, BridgeInv, NEW c \in Callers, Mutate(c) \/ DecideStep(c)
  PROVE  BridgeInv'
<1> USE LevelsTyped, ThreadSets, RunsUntouched DEF BridgeInv
<1> c \in SpeedThreads /\ c \in Threads
  OBVIOUS
<1>1. CASE Mutate(c)
  <2> USE DEF Mutate, wrapperVars, limitVars, envVars
  <2>1. /\ spc'[c] = "acquire" /\ job'[c] = "mutate" /\ spc[c] = "out" /\ Idle(c)
        /\ \A t \in SpeedThreads : t # c => spc'[t] = spc[t] /\ job'[t] = job[t]
    BY <1>1 DEF SpeedTypeOK, OutOfSpeedCode
  <2>2. \A t \in SpeedThreads : JobOK(t)'
    BY <1>1, <2>1 DEF JobOK
  <2>3. LockInv'
    BY <1>1, <2>1 DEF LockInv
  <2>4. RestoringInv' /\ PublishedInv'
    BY <1>1, <2>1 DEF RestoringInv, PublishedInv, JobOK
  <2>5. OwnerInv' /\ OverrideIsOwned' /\ SessionInv'
    BY <1>1 DEF OwnerInv, OverrideIsOwned, SessionInv
  <2> QED BY <2>2, <2>3, <2>4, <2>5
<1>2. CASE MutateDecide(c)
  <2>1. PICK run \in MutateOwners, p \in Decisions(speedPct) : StartPublishing(c, "mutate", p, run)
    BY <1>2 DEF MutateDecide
  <2>2. /\ spc[c] = "acquire" /\ job[c] = "mutate" /\ Idle(c) /\ speedLock = NoThread /\ speedLock' = c
        /\ UNCHANGED <<goalVars, wrapperVars, limitVars, envVars>>
    BY <1>2 DEF MutateDecide, JobOK, LockFree, SpeedTypeOK, Jobs, LockInv
  <2>3. /\ spc'[c] = "nav" /\ job'[c] = "mutate" /\ owner'[c] = run
        /\ \A t \in SpeedThreads : t # c =>
             spc'[t] = spc[t] /\ job'[t] = job[t] /\ want'[t] = want[t] /\ owner'[t] = owner[t]
    BY <2>1 DEF StartPublishing, SpeedTypeOK
  <2>4. \A t \in SpeedThreads : JobOK(t)'
    BY <2>2, <2>3 DEF JobOK
  <2>5. LockInv'
    BY <2>2, <2>3 DEF LockInv
  <2>6. RestoringInv' /\ SessionInv' /\ PublishedInv'
    BY <2>2, <2>3 DEF RestoringInv, SessionInv, PublishedInv, wrapperVars, limitVars, envVars
  <2>7. OverrideIsOwned'
    BY <2>2 DEF OverrideIsOwned, wrapperVars
  <2>8. OwnerInv'
    <3> SUFFICES ASSUME NEW r \in Runs, owner'[c] = r, IsTerminal(r)' PROVE FALSE
      BY <2>2 DEF OwnerInv
    <3>1. run = r /\ r # NoRun
      BY <2>3, GoalRunsAssumption DEF GoalRunsAssumption
    <3>2. r \in ActiveRuns /\ IsTerminal(r)
      BY <3>1, <2>2, OwnersTyped
    <3> QED BY <3>2 DEF ActiveRuns, IsTerminal, Terminal
  <2> QED BY <2>4, <2>5, <2>6, <2>7, <2>8
<1>3. CASE MutateRefused(c)
  <2>1. /\ spc[c] = "acquire" /\ job[c] # "restore" /\ speedLock = NoThread
        /\ UNCHANGED <<goalVars, wrapperVars, speedLock, limitVars, envVars>>
    BY <1>3 DEF MutateRefused, JobOK, LockFree, LockInv
  <2>2. /\ spc'[c] = "out" /\ job'[c] = "none"
        /\ \A t \in SpeedThreads : t # c =>
             spc'[t] = spc[t] /\ job'[t] = job[t] /\ want'[t] = want[t] /\ owner'[t] = owner[t]
    BY <1>3, LeaveTyped DEF MutateRefused
  <2>3. \A t \in SpeedThreads : JobOK(t)'
    BY <2>1, <2>2 DEF JobOK
  <2>4. LockInv' /\ OwnerInv'
    BY <2>1, <2>2 DEF LockInv, OwnerInv
  <2>5. OverrideIsOwned' /\ SessionInv' /\ RestoringInv' 
    BY <2>1, <2>2 DEF OverrideIsOwned, SessionInv, RestoringInv, wrapperVars
  <2>6. PublishedInv'
    <3>1. JobOK(c)
      OBVIOUS
    <3> QED BY <2>1, <2>2, <3>1 DEF PublishedInv, JobOK, wrapperVars, limitVars, envVars
  <2> QED BY <2>3, <2>4, <2>5, <2>6
<1> QED BY <1>1, <1>2, <1>3 DEF DecideStep

\* Whoever is restoring, or publishing a mutation, is the only one to do so.
LEMMA LockExcludes ==
  ASSUME SpeedTypeOK, BridgeInv, NEW t \in SpeedThreads, speedLock \in {t, NoThread}
  PROVE  \A u \in SpeedThreads : u # t => job[u] # "restore"
BY LevelsTyped DEF BridgeInv, LockInv, JobOK

\* A thread that ended a run begins to restore the session limit.
LEMMA BridgeInvRestore ==
  ASSUME TypeOK, SpeedTypeOK, BridgeInv, NEW t \in Threads, RestoreCall(t)
  PROVE  BridgeInv'
<1> USE LevelsTyped, ThreadSets DEF BridgeInv
<1> t \in SpeedThreads
  OBVIOUS
<1>1. CASE RestoreNotOwner(t)
  <2>1. /\ pc[t] = "restore" /\ spc[t] = "out" /\ speedLock = NoThread /\ scopeRun # at[t]
        /\ UNCHANGED speedVars /\ UNCHANGED goalStates
    BY <1>1 DEF RestoreNotOwner, OutOfSpeedCode, LockFree, OwnsOverride, Restored, tableVars
  <2>2. \A u \in Threads : u # t => pc'[u] = pc[u] /\ at'[u] = at[u]
    BY <1>1 DEF RestoreNotOwner, Restored, Return, Goto, TypeOK, ThreadTypeOK
  <2> USE DEF speedVars, wrapperVars, threadVars, limitVars, envVars
  <2>3. \A u \in SpeedThreads : JobOK(u)'
    BY <2>1, <2>2 DEF JobOK, Idle
  <2>4. LockInv' /\ RestoringInv' /\ SessionInv' /\ PublishedInv' /\ OwnerInv'
    BY <2>1 DEF LockInv, RestoringInv, SessionInv, PublishedInv, OwnerInv
  <2>5. OverrideIsOwned'
    <3> SUFFICES ASSUME NEW r \in Runs, scopeRun = r, IsTerminal(r) PROVE RestoreOwed(r)'
      BY <2>1 DEF OverrideIsOwned, IsTerminal
    <3>1. PICK u \in Threads : pc[u] = "restore" /\ at[u] = r
      BY DEF OverrideIsOwned, RestoreOwed
    <3> QED BY <3>1, <2>1, <2>2 DEF RestoreOwed
  <2> QED BY <2>3, <2>4, <2>5
<1>2. CASE RestoreSession(t)
  <2>1. /\ pc[t] = "restore" /\ spc[t] = "out" /\ speedLock = NoThread /\ speedLock' = t
        /\ speedPct' = sessionPct /\ scopeRun' = NoRun
        /\ UNCHANGED <<goalVars, initialized, sessionPct, connected, limitVars, envVars>>
    BY <1>2 DEF RestoreSession, OutOfSpeedCode, LockFree
  <2>2. /\ spc'[t] = "nav" /\ job'[t] = "restore" /\ owner'[t] = NoRun /\ want'[t] = sessionPct
        /\ \A u \in SpeedThreads : u # t =>
             spc'[u] = spc[u] /\ job'[u] = job[u] /\ want'[u] = want[u] /\ owner'[u] = owner[u]
    BY <1>2 DEF RestoreSession, StartPublishing, SpeedTypeOK
  <2>3. \A u \in SpeedThreads : JobOK(u)'
    BY <2>1, <2>2, RunsUntouched DEF JobOK
  <2>4. LockInv'
    BY <2>1, <2>2 DEF LockInv
  <2>5. RestoringInv'
    BY <2>1, <2>2, LockExcludes DEF RestoringInv
  <2>6. OwnerInv' /\ OverrideIsOwned'
    BY <2>1, <2>2, GoalRunsAssumption DEF OwnerInv, OverrideIsOwned, GoalRunsAssumption
  <2>7. SessionInv' /\ PublishedInv'
    BY <2>1, <2>2 DEF SessionInv, PublishedInv
  <2> QED BY <2>3, <2>4, <2>5, <2>6, <2>7
<1> QED BY <1>1, <1>2 DEF RestoreCall

\* The timer and the bring-up begin to publish what they read.
LEMMA BridgeInvRead ==
  ASSUME SpeedTypeOK, BridgeInv, Refresh \/ WaitForSpeedSubscriber
  PROVE  BridgeInv'
<1> USE LevelsTyped, ThreadSets, RunsUntouched DEF BridgeInv
<1>1. CASE RefreshNoticesLoss
  <2> USE <1>1 DEF RefreshNoticesLoss, threadVars, limitVars, envVars
  <2>1. \A u \in SpeedThreads : JobOK(u)'
    BY DEF JobOK
  <2>2. LockInv' /\ RestoringInv' /\ SessionInv' /\ PublishedInv'
    BY DEF LockInv, RestoringInv, SessionInv, PublishedInv
  <2>3. OwnerInv' /\ OverrideIsOwned'
    BY DEF OwnerInv, OverrideIsOwned
  <2> QED BY <2>1, <2>2, <2>3
<1>2. ASSUME NEW t \in SpeedThreads, NEW why \in {"refresh", "bringup"}, spc[t] = "out", ReadAndPublish(t, why)
      PROVE  BridgeInv'
  <2>1. speedLock = NoThread /\ UNCHANGED <<goalVars, wrapperVars, speedLock, limitVars, envVars>>
    BY <1>2 DEF ReadAndPublish, LockFree
  <2>2. /\ spc'[t] = "nav" /\ job'[t] = why /\ job[t] = "none"
        /\ \A u \in SpeedThreads : u # t =>
             spc'[u] = spc[u] /\ job'[u] = job[u] /\ want'[u] = want[u] /\ owner'[u] = owner[u]
    BY <1>2 DEF ReadAndPublish, StartPublishing, SpeedTypeOK, JobOK
  <2>3. \A u \in SpeedThreads : JobOK(u)'
    BY <2>1, <2>2 DEF JobOK
  <2>4. LockInv' /\ OwnerInv'
    BY <2>1, <2>2 DEF LockInv, OwnerInv
  <2>5. RestoringInv' /\ SessionInv' /\ PublishedInv'
    BY <2>1, <2>2 DEF RestoringInv, SessionInv, PublishedInv, wrapperVars, limitVars, envVars
  <2>6. OverrideIsOwned'
    BY <2>1 DEF OverrideIsOwned, wrapperVars
  <2> QED BY <2>3, <2>4, <2>5, <2>6
<1> QED BY <1>1, <1>2 DEF Refresh, RefreshReconnected, WaitForSpeedSubscriber, OutOfSpeedCode

\* A thread that publishes, up to its return.
LEMMA BridgeInvPublish ==
  ASSUME TypeOK, SpeedTypeOK, BridgeInv, NEW t \in SpeedThreads,
         PublishNav(t) \/ PublishGuardMutate(t) \/ PublishGuardPoll(t) \/ PublishedByPoll(t)
  PROVE  BridgeInv'
<1> USE LevelsTyped, ThreadSets, RunsUntouched DEF BridgeInv
<1>1. CASE PublishNav(t)
  <2> USE <1>1 DEF PublishNav, wrapperVars, envVars
  <2>1. spc[t] = "nav" /\ spc'[t] = "guard" /\ \A u \in SpeedThreads : u # t => spc'[u] = spc[u]
    BY DEF SpeedTypeOK
  <2>2. \A u \in SpeedThreads : JobOK(u)'
    BY <2>1 DEF JobOK
  <2>3. LockInv' /\ OwnerInv'
    BY <2>1 DEF LockInv, OwnerInv
  <2>4. RestoringInv' /\ SessionInv' /\ PublishedInv' /\ OverrideIsOwned'
    BY DEF RestoringInv, SessionInv, PublishedInv, OverrideIsOwned
  <2> QED BY <2>2, <2>3, <2>4
<1>2. CASE PublishGuardMutate(t)
  <2>1. /\ spc[t] = "guard" /\ job[t] = "mutate" /\ speedLock = t /\ speedLock' = NoThread
        /\ UNCHANGED goalVars
    BY <1>2 DEF PublishGuardMutate, LockInv
  <2>2. /\ spc'[t] = "out" /\ job'[t] = "none"
        /\ \A u \in SpeedThreads : u # t =>
             spc'[u] = spc[u] /\ job'[u] = job[u] /\ want'[u] = want[u] /\ owner'[u] = owner[u]
    BY <1>2, LeaveTyped DEF PublishGuardMutate
  <2>3. /\ speedPct' = want[t] /\ scopeRun' = owner[t] /\ guardLimit' = want[t]
        /\ sessionPct' = IF owner[t] = NoRun THEN want[t] ELSE sessionPct
    BY <1>2 DEF PublishGuardMutate, Commit, TellGuard
  <2>4. \A u \in SpeedThreads : JobOK(u)'
    BY <2>1, <2>2 DEF JobOK
  <2>5. LockInv' /\ OwnerInv'
    BY <2>1, <2>2 DEF LockInv, OwnerInv
  <2>6. RestoringInv'
    BY <2>1, <2>2, LockExcludes DEF RestoringInv
  <2>7. SessionInv' /\ PublishedInv'
    BY <2>3 DEF SessionInv, PublishedInv
  <2>8. OverrideIsOwned'
    BY <2>1, <2>3 DEF OverrideIsOwned, OwnerInv
  <2> QED BY <2>4, <2>5, <2>6, <2>7, <2>8
<1>3. CASE PublishGuardPoll(t)
  <2> USE <1>3 DEF PublishGuardPoll, TellGuard, wrapperVars, envVars
  <2>1. /\ job[t] \in {"refresh", "bringup"} /\ spc'[t] = "done"
        /\ \A u \in SpeedThreads : u # t => spc'[u] = spc[u]
    BY DEF SpeedTypeOK
  <2>2. \A u \in SpeedThreads : JobOK(u)'
    BY <2>1 DEF JobOK
  <2>3. LockInv' /\ OwnerInv'
    BY <2>1 DEF LockInv, OwnerInv
  <2>4. RestoringInv' /\ SessionInv' /\ PublishedInv' /\ OverrideIsOwned'
    BY <2>1 DEF RestoringInv, SessionInv, PublishedInv, OverrideIsOwned
  <2> QED BY <2>2, <2>3, <2>4
<1>4. CASE PublishedByPoll(t)
  <2>1. spc[t] = "done" /\ job[t] # "restore" /\ speedLock # t
    BY <1>4 DEF PublishedByPoll, JobOK, LockInv
  <2>2. /\ spc'[t] = "out" /\ job'[t] = "none"
        /\ \A u \in SpeedThreads : u # t =>
             spc'[u] = spc[u] /\ job'[u] = job[u] /\ want'[u] = want[u] /\ owner'[u] = owner[u]
    BY <1>4, LeaveTyped DEF PublishedByPoll
  <2> USE <1>4 DEF PublishedByPoll, limitVars, envVars
  <2>3. \A u \in SpeedThreads : JobOK(u)'
    BY <2>1, <2>2 DEF JobOK
  <2>4. LockInv' /\ OwnerInv'
    BY <2>1, <2>2 DEF LockInv, OwnerInv, SpeedTypeOK
  <2>5. RestoringInv' /\ SessionInv' /\ PublishedInv' /\ OverrideIsOwned'
    BY <2>1, <2>2 DEF RestoringInv, SessionInv, PublishedInv, OverrideIsOwned
  <2> QED BY <2>3, <2>4, <2>5
<1> QED BY <1>1, <1>2, <1>3, <1>4

\* A restore returns, having published or not: its run is no longer owed one,
\* and no override of it is in force.
LEMMA BridgeInvRestored ==
  ASSUME TypeOK, SpeedTypeOK, BridgeInv, NEW t \in Threads, job[t] = "restore",
         Restored(t), LeaveSpeedCode(t), speedLock' = NoThread,
         UNCHANGED <<speedPct, sessionPct, scopeRun>>,
         faults' # 0 \/ guardLimit' = want[t]
  PROVE  BridgeInv'
<1> USE LevelsTyped, ThreadSets DEF BridgeInv
<1> t \in SpeedThreads
  OBVIOUS
<1>1. speedLock = t /\ scopeRun = NoRun /\ want[t] = speedPct /\ UNCHANGED goalStates
  BY DEF JobOK, LockInv, RestoringInv, Restored, tableVars
<1>2. /\ spc'[t] = "out" /\ job'[t] = "none"
      /\ \A u \in SpeedThreads : u # t =>
           spc'[u] = spc[u] /\ job'[u] = job[u] /\ want'[u] = want[u] /\ owner'[u] = owner[u]
  BY LeaveTyped
<1>3. \A u \in Threads : u # t => pc'[u] = pc[u] /\ at'[u] = at[u]
  BY DEF Restored, Return, Goto, TypeOK, ThreadTypeOK
<1>4. \A u \in SpeedThreads : JobOK(u)'
  BY <1>2, <1>3 DEF JobOK, Idle
<1>5. LockInv' /\ OwnerInv'
  BY <1>1, <1>2 DEF LockInv, OwnerInv
<1>6. RestoringInv'
  BY <1>1, <1>2, LockExcludes DEF RestoringInv
<1>7. SessionInv' /\ PublishedInv'
  BY <1>1 DEF SessionInv, PublishedInv
<1>8. OverrideIsOwned'
  BY <1>1, GoalRunsAssumption DEF OverrideIsOwned, GoalRunsAssumption
<1> QED BY <1>4, <1>5, <1>6, <1>7, <1>8

\* A publish raises.
LEMMA BridgeInvRaises ==
  ASSUME TypeOK, SpeedTypeOK, BridgeInv, NEW t \in Threads, PublishRaises(t)
  PROVE  BridgeInv'
<1> USE LevelsTyped, ThreadSets
<1> t \in SpeedThreads
  OBVIOUS
<1>1. /\ faults' # 0 /\ LeaveSpeedCode(t) /\ spc[t] \in {"nav", "guard"}
      /\ UNCHANGED <<speedPct, sessionPct, scopeRun>>
  BY DEF PublishRaises, SpeedTypeOK
<1>2. CASE job[t] = "restore"
  BY <1>1, <1>2, BridgeInvRestored DEF PublishRaises, ReleaseOnRaise, RetryOnRaise
<1>3. CASE job[t] # "restore"
  <2> USE RunsUntouched DEF BridgeInv
  <2>1. /\ UNCHANGED goalVars
        /\ \/ job[t] = "mutate" /\ speedLock = t /\ speedLock' = NoThread
           \/ job[t] = "refresh" /\ speedLock # t /\ speedLock' = speedLock
    BY <1>1, <1>3 DEF PublishRaises, LockInv
  <2>2. /\ spc'[t] = "out" /\ job'[t] = "none"
        /\ \A u \in SpeedThreads : u # t =>
             spc'[u] = spc[u] /\ job'[u] = job[u] /\ want'[u] = want[u] /\ owner'[u] = owner[u]
    BY <1>1, LeaveTyped
  <2>3. \A u \in SpeedThreads : JobOK(u)'
    BY <2>1, <2>2 DEF JobOK
  <2>4. LockInv' /\ OwnerInv'
    BY <2>1, <2>2 DEF LockInv, OwnerInv, SpeedTypeOK
  <2>5. RestoringInv' /\ SessionInv' /\ PublishedInv' /\ OverrideIsOwned'
    BY <1>1, <2>1, <2>2 DEF RestoringInv, SessionInv, PublishedInv, OverrideIsOwned
  <2> QED BY <2>3, <2>4, <2>5
<1> QED BY <1>2, <1>3

LEMMA BridgeInvStep ==
  ASSUME TypeOK, SpeedTypeOK, BridgeInv, [BridgeNext]_vars
  PROVE  BridgeInv'
<1>1. CASE GoalStep
  BY <1>1, BridgeInvGoal
<1>2. ASSUME NEW t \in SpeedThreads, PublishStep(t) PROVE BridgeInv'
  <2>1. CASE t \in Threads /\ PublishGuardRestore(t)
    <3>1. UNCHANGED <<speedPct, sessionPct, scopeRun>> /\ guardLimit' = want[t]
      BY <2>1 DEF PublishGuardRestore, TellGuard, wrapperVars
    <3> QED BY <2>1, <3>1, BridgeInvRestored DEF PublishGuardRestore
  <2> QED BY <1>2, <2>1, BridgeInvPublish DEF PublishStep
<1>3. CASE UNCHANGED <<goalVars, wrapperVars, threadVars, guardLimit, guardFrom, faults>>
  <2> USE <1>3, RunsUntouched DEF wrapperVars, threadVars, BridgeInv
  <2>1. \A u \in SpeedThreads : JobOK(u)'
    BY DEF JobOK
  <2>2. LockInv' /\ RestoringInv' /\ SessionInv' /\ PublishedInv'
    BY DEF LockInv, RestoringInv, SessionInv, PublishedInv
  <2>3. OwnerInv' /\ OverrideIsOwned'
    BY DEF OwnerInv, OverrideIsOwned
  <2> QED BY <2>1, <2>2, <2>3
<1>4. CASE UNCHANGED vars \/ ControllerUp \/ ControllerDown
  BY <1>3, <1>4 DEF vars, speedVars, limitVars, envVars, ControllerUp, ControllerDown
<1> QED BY <1>1, <1>2, <1>4, BridgeInvMutate, BridgeInvRestore, BridgeInvRead, BridgeInvRaises DEF BridgeNext

LEMMA BridgeInvCorrect == BridgeSpec => []BridgeInv
BY BridgeInvInit, BridgeInvStep, RunsCorrect, SpeedTypeCorrect, PTL DEF BridgeSpec

(***************************************************************************)
(* What the invariant gives.                                               *)
(***************************************************************************)
\* A goal-scoped override never outlives its run, whichever of a mutation's
\* publish, the run's end and its restore comes first.
THEOREM OverrideOwned == BridgeSpec => []OverrideIsOwned
<1>1. BridgeInv => OverrideIsOwned
  BY DEF BridgeInv
<1> QED BY <1>1, BridgeInvCorrect, PTL

\* Without an override the effective percentage is the session's, whoever holds
\* the lock.
THEOREM SessionCorrect == BridgeSpec => []SessionAgrees
<1>1. BridgeInv => SessionAgrees
  BY DEF BridgeInv, SessionInv, SessionAgrees
<1> QED BY <1>1, BridgeInvCorrect, PTL

\* A limit published under the lock is the one that is reported, when all is
\* settled and no publish has raised.
THEOREM LockedPublishCorrect == BridgeSpec => []LockedPublishAgrees
<1>1. BridgeInv => LockedPublishAgrees
  BY DEF BridgeInv, PublishedInv, JobOK, LockedPublishAgrees, Settled, OutOfSpeedCode
<1> QED BY <1>1, BridgeInvCorrect, PTL
=============================================================================
