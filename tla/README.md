# A TLA+ model of the Robonix navigation service

The repository wraps a Nav2 stack as a Robonix service. A Python wrapper
(`nav2_wrapper/atlas_bridge.py`) serves navigate, status, cancel and speed
commands over gRPC and MCP and talks to Nav2 through an action client and a
speed-limit topic. A second process, the velocity guard
(`nav2_wrapper/velocity_guard.py`), is the last node before the wheels. Three
C++ plugins (`terminal_controller/`) run inside Nav2's servers and decide, among
other things, how a goal ends. This directory holds the models of that code, the
TLC runs that check them on small instances, and the proofs that hold for any
instance.

Paths below are relative to the repository's root.

## 1. Inventory

| component | state it keeps | operations | talks to |
|---|---|---|---|
| navigation runs, `atlas_bridge.py` 1006-1236, 1369-1437 | `_goal_states`, `_goal_handles`, `_last_run_id`, `_nav_queue` under `_state_lock` | navigate, status, cancel (handler threads); `_dispatch_goal` (rclpy thread); `_goal_response_cb`, `_result_cb`, `_cancel_response_cb` (executor) | Nav2's `navigate_to_pose` action; the end of a run calls the speed code |
| speed limit, `atlas_bridge.py` 839-887, 968-978, 1040-1077, 1440-1584, `speed_control.py` | effective and session percentage, scope and owning run under `_speed_lock`; `_speed_subscriber_connected` | adjust, set, get; restore at the end of a run; one-second refresh timer; initial publish of the bring-up | run table (is the owner active?), Nav2's Controller Server, velocity guard |
| velocity guard, `velocity_guard.py` | watched goal, poses, speed cap, `_cancel_sent` under `_lock` | callbacks of command, speed limit, odometry, plan, status, feedback; a 50 ms timer | action topics of Nav2, cancel service, the wheels |
| rotation guard, `rotation_guard_core.py` | latched goal, spin and terminal measurements | begin_goal, clear_if_idle, observe_odom, evaluate | called by the velocity guard |
| goal checker and critic, `persistent_goal_checker.cpp`, `persistent_rotate_to_goal_critic.cpp`, `navigate_goal_epoch.hpp` | stored goal, epoch, latches, terminal window | isGoalReached, prepare, scoreTrajectory, status subscription | Controller Server and DWB |
| goal-aware planner, `goal_aware_navfn_planner.cpp`, `unknown_path_budget.hpp` | none between calls; the counters of one measurement | createPlan, measureUnknownExposure | Planner Server, the global costmap, two NavFn planners |
| bring-up and shutdown, `atlas_bridge.py` 196-434, 499-580, 699-836, 890-978, 1241-1361 | references to seven process groups, `_dep_channels`, `_initialized`, `_ros_node` | CMD_INIT, CMD_SHUTDOWN, discovery, spawn, kill | Atlas, the operating system, Nav2 |
| velocity chain, `atlas_bridge.py` 605-696, `configuration.py` 80-130 | the topics of a running chain | patching of the launch file, names of the output topic | every velocity between Nav2 and the base |
| scan speckle filter, `scan_filter.py`, `scan_filter_core.py` | none between scans | _on_scan, filter_ranges | the scan projector, the costmaps |
| depth cloud, `depth_cloud.py` | CameraInfo, cached rays, time of the last cloud | _on_info, _on_depth | the depth camera, the costmaps |
| cmd_vel summary, `cmd_vel_summary.py` | counts and peaks of a window | observe | called by the velocity guard |
| other configuration, diagnostics, scripts | none that survives a message | validation, log text | |

What is hard here is not in one function. Several kinds of threads meet in the
wrapper (gRPC handlers, MCP handlers, the rclpy thread, the executor, the timer,
the bring-up), each handler gives up its lock between two blocks, and answers
from Nav2 arrive in any order. Both the guard and the terminal plugins learn
which goal is executing from topics that are not ordered with each other or
with the paths and commands they act on. `PROJECT.json` lists these hazards at
their lines, with the properties that would catch them.

What makes each component correct:

- *runs*: an accepted run is dispatched at most once, never forgotten, ends,
  stays ended, and does not look ended while the robot may still pursue it; a
  cancel that was accepted is not lost on the way to Nav2;
- *speed*: an override never outlives its run, the percentages stay in their
  bounds, what is reported is what is enforced, no call leaks the lock;
- *guard*: rotation in place is bounded in time whatever else arrives, a tripped
  goal gets no more velocity, its own goal is canceled, an idle guard passes all;
- *terminal plugins*: latches survive replans and corrections and belong to the
  goal being followed, and the terminal phase ends in time;
- *bring-up*: no process outlives a failed start or a shutdown, a start that is
  answered ok is whole, Atlas sees the inputs that are in use, each driver call
  is answered;
- *velocity chain*: with or without a mux and a Collision Monitor, and whatever
  topics are configured as long as they are apart, every velocity crosses the
  guard, comes out where it should, and is read by somebody;
- *planner*: the measurement follows the ground, and no fallback path is over a
  budget;
- *scan filter, depth cloud, summary*: small obstacles stay and speckles go; a
  cloud is projected with its own camera's rays; every command the guard was given
  is in one line, and a line tells a robot that was asked to move from one that
  was not.

## 2. Modules

`RunContract` - what a client relies on, without threads, locks or callbacks: a
run is started at most once, pursued only while status says RUNNING, and ends in
the very step that ends the pursuit.

`GoalRuns` - the runs. Each `with _state_lock` block is one action, because the
blocks make no blocking call and nothing else touches the table. Between two
blocks a thread has a program counter `pc` and the run it works on, `at`; it is
there that other threads interleave. `nav2`, `asked`, `granted` and `refused`
are Nav2's side: the goal's state, cancel requests not looked at, and answers
not handled. The dispatcher's three blocks are `DispatchClaim`, `DispatchSend`
(or `DispatchNotReady`) and `DispatchSent`; the answer of the action server
follows the last one, because only the thread that dispatches polls the
executor. `Restored` stands for the call of the speed code, which `NavBridge`
spells out. Texts (details, feedback, diagnostics) are left out.

`NavBridge` - extends `GoalRuns` with the speed limit and composes the two:
`GoalStep` is a step of the runs by threads that are not in the speed code, and
the end of a restore is a step of both. `_speed_lock` is held while publishing,
so it is a variable with a holder and a second program counter, `spc`.
`_publish_speed_limit()` without an argument reads under the lock and publishes
after its release (`ReadAndPublish`, then `PublishNav`, `PublishGuardPoll`).

`RotationGuard` - the methods of `rotation_guard_core.py` as operators on its
fields. `VelocityGuard` - the node around it; every callback runs under one lock
and is one action. Status and feedback messages wait in `inbox`; `Ordered` says
whether they are handled in the order in which they were sent.

`TerminalControl` - the two plugins and the epoch each keeps. `Cycle` is one
control cycle: `prepare`, which may throw half way and keeps what it stored so
far, the set of samples `scoreTrajectory` does not reject, and
`isGoalReached`. `reset()` does nothing in either plugin, so a replan is no
action; a localization correction is a `Cycle` with another pose.

`Bringup` - CMD_INIT and CMD_SHUTDOWN. `pc` is where the driver call is:
`resolve` (discovery on Atlas, one contract after the other, in any order),
`spawn`, `check` and `camera` (the seven process groups in the order of the code,
each with the inputs it needs and the look at it 0.25 s later), `action` and
`speed` (the two waits), `kill` (`_kill_nav2`, group by group). `proc` is what the
wrapper's reference to a group points to; `headless` is a group whose leader has
died before its children, and `stray` holds the groups whose reference is lost
while they run. Any group may die at any time. `channel` and `open` are the
channels the wrapper holds and those Atlas sees; a call to a provider that
fails, an endpoint that is empty and a provider that changed between two starts
are choices of `ResolveDep`. `Advance` starts the rclpy thread after the last
group; only the first thread's `rclpy.init()` succeeds.

`VelocityChain` - the topics. Which nodes run, and the input and output of each,
follow from `controllerTopic` (a mux of the deployment) and `monitor`; one
command at a time travels from node to node. The output is resolved from
configuration and environment as the code does, and a name that the validation
rejects starts nothing. Any valid name is accepted, as in the code, also one that
leads past the guard; the properties are about names that are apart (`NamesApart`):
the controller's output is neither a topic the base listens on (`BaseTopics`) nor one
inside the chain, and the guard's output is not one inside the chain.

`PathBudget` - `createPlan`: the choice between the two NavFn planners, and the
measurement of the fallback path, one sample an action with the code's counters.
The costmap is a row of cells and lengths are integers (section 3). The
reference definitions at its end measure the same path unit by unit.

`ScanFilter`, `DepthCloud`, `CmdVelSummary` - the three programs beside the
chain; each callback is one action. The summary gets a command as the guard hands it
over, bounded but before the latch; what the base is sent for it, zero while the
guard is latched, is a history variable (`SentFor`, `sent`). Of the summary's two
peaks the linear one is kept, the other is treated alike; the depth cloud's pixels are left out, and the
rays are named by the size and the intrinsics they were computed of.

`MC*` give TLC its model values and the small sets. `MCParts` lets the parts that
share no state be checked in one run: in each behaviour one of them acts, over
all its inputs, and the others stay in an initial state, so their states add up.
`GoalRunsProofs`, `ContractProofs`, `NavBridgeProofs`, `VelocityGuardProofs`,
`TerminalControlProofs`, `BringupProofs`, `PathBudgetProofs` and `PartsProofs` hold the
theorems; the last has those of the velocity chain, the scan filter, the depth cloud
and the summary.

Variables marked *history* record what happened and are read by properties
only. Definitions marked *seeded fault* are bugs a property must find; no model
uses them.

## 3. Runs

| run | question | bounds |
|---|---|---|
| `goals_safety` | `TypeOK`, `NoEarlyTerminal`, `PendingIsQueued`, `CancelIsForwarded`, `TerminalIsFinal` | 2 runs, 2 handlers, 1 unanswered cancel of a run, every result status including UNKNOWN |
| `goals_live` | `EveryRunEnds`, `ImplementsContract`, `LatchIsKept` | 2 runs, 1 handler |
| `goals_empty_id` | violation: an empty run_id is not "the most recent active run" | as `goals_safety` |
| `bridge_safety` | `SpeedTypeOK`, `OverrideIsOwned`, `SessionAgrees`, `LockedPublishAgrees` | 1 handler; 2 runs without faults, or 1 run with 1 controller restart and 1 publish that raises |
| `bridge_live` | `OwedLimitIsTold`, `OverrideEnds`, `SpeedCallsReturn` | 1 run, 1 handler, 1 restart, 1 publish that raises, no cancel of a run that Nav2 has |
| `bridge_reported` | violation: the guard enforces another limit than is reported | 1 run, 2 handlers |
| `guard` | `GuardTypeOK`, `IdleIsReleased`, `TripAsksCancel`, `RouteSpinBounded`, `AlignmentBounded`, `ZeroUntilGoalEnds` | 2 goals, 2 messages under way, timeouts of 0 ticks; times 0..2 and 2 plan ends with one goal, times 0..1 and 1 plan end once there is a second |
| `guard_reordered` | violation: status and feedback out of order blind the guard | 2 goals, 3 messages under way |
| `terminal` | `TerminalTypeOK`, `TerminalStateIsOwn`, `LatchSurvivesReplans`, `TerminalEnds`, `RotationCommits` | 2 goals in sequence, times 0..2, 3 distances, 2 yaws |
| `terminal_preempt` | violation: a preempting goal inherits the old goal's terminal state | as `terminal`, with preemption |
| `parts`, bring-up | `NothingLeftRunning`, `StartedWhole`, `ConsumersKnown`, `DriverAnswers` | 2 providers, 4 contracts, 6 configurations of helpers and overrides, any number of calls; leaders of the scan programs may die before their children |
| `parts`, velocity chain | `EveryVelocityIsGuarded`, `SinkIsRespected`, `ControllerIsMonitored`, `CommandsArrive` | 3 valid names of the guard's output, 4 of the controller's, 3 invalid ones, some of the valid ones not apart; with and without mux and monitor |
| `parts`, planner | `FallbackIsBounded`, `MeasuresTheGround` | every path of up to 4 poses over every row of 2 cells and their surroundings |
| `parts`, scan filter | `ObstacleIsKept`, `SpecklesAreRemoved` | every scan of 6 bins with 3 ranges, no return and returns that are too near; windows of 2 bins, 2 neighbours |
| `parts`, depth cloud | `RaysFitTheImage` | 2 intrinsics, 2 image sizes |
| `parts`, summary | `EveryCommandIsReported` | 5 commands within three periods, the guard latched or not at each |
| `bringup_orphans` | violation: nodes of a `ros2 launch` outlive a failed start | as the bring-up, 1 provider; leaders of the launches may die before their nodes |

*Why the bounds are enough.* Two runs are the least that can confuse ids, owners
and the last run; two handlers the least that can race on one run (two cancels,
or a cancel and a mutation). One unanswered cancel of a run still lets the next
be sent as soon as it is looked at, so refused second cancels happen. One
restart and one raising publish let each fall at every place of the speed code.
The percentages are 50 and 100 with a step of 50, and requests of 40 and 100:
both bounds are met and one request is refused; an old percentage and a new one
differ. The constraint `CanceledWhilePending` of `bridge_live` leaves out cancels
of a run that was already sent to Nav2. They are calls nobody is obliged to make, so
no step that fairness asks for is cut off, and to the speed code the result they
lead to is a result like any other. The constraint `FaultsWithOneRun` of `bridge_safety` keeps two runs and
faults apart: what two runs can do to each other is the hand-over of an
override, and what a fault can do it does to whichever thread publishes. The
constraint `SecondGoalInTime` of `guard` does the same for the last tick and the
second kind of plan: a limit is passed one tick after it is kept, which both goals
have time for. Timeouts of zero or one tick
with one tick more on the clock are the least at which a limit is kept and
passed. `MaxRotation` in `TerminalControl` lies over every rotation that is
allowed, so counting no further changes no comparison; in `VelocityGuard` it
stops odometry one step after the limit. Three distances are inside, between and
outside the enter and exit tolerances; two yaws are aligned and not; the robot
is at rest, or drives and turns.

Two providers are the least between which a channel can change; the
configurations of the bring-up are one with every helper, those in which an input
is overridden, the camera alone, the monitored scan pipeline alone, none and a
rejected one, and a retry may change from any to any. The chain is wired in every
combination of mux, monitor and names. In the planner a cell is four units and a sample step two, as in
the code (half a cell); `Scale` makes the length of every sample whole, which an
assumption states, so that sums are exact and no rounding hides an error; the
three budgets are all met and exceeded. Six bins with a window of two let a group
lie at either end, in the middle, and beside another group.

Deadlock is not checked where the system may stop because the ids, the goals or
the clock of the instance are used up. It is checked in the bridge runs, where
the timer, the handlers and the controller can always go on.

*Fairness.* `goals_live` assumes that a thread inside a call goes on, that the
dispatcher drains its queue, that callbacks that are ready run, and that Nav2
answers each goal with an acceptance or a refusal and in the end with a result.
The threads are Python threads and the executor polls every 50 ms, so the first
three hold while the process lives; the last is what an action server owes. The
bring-up is not assumed to finish, nor anyone to call anything. `bridge_live`
adds strong fairness for a thread that waits for `_speed_lock`: each holder
leaves it after a bounded number of steps, and a Python lock that is free again
and again is in practice obtained; under weak fairness handlers that take it in
turns could keep one waiting; and for the timer, whose poll is let through between
the callbacks of the same executor. In `parts`, `DriverAnswers` needs only that the
thread of a driver call goes on: its two waits end by their deadlines, so `WaitFails`
is always possible. `CommandsArrive` needs that a node whose input has a message
handles it.

*What an environment may do.* `VelocityGuard`'s clock ticks only when no message
is under way and at most one goal is executing, because a tick is a second or
more and a message takes milliseconds. A cancel service that is not ready is a
choice at each trip. `TerminalControl` assumes in its passing run
(`PromptStatus`) that the plugins hear of a goal before the robot is sent to the
next; both plugins subscribe before any goal exists.

## 4. Findings

- **`goals_empty_id`** - `_resolve_run_id` falls back to the last run accepted.
  If that one has ended while an older one is active, `cancel("")` is refused
  and the older run goes on, against the docstrings of cancel, adjust_speed and
  set_speed_limit.
- **`bridge_reported`** - the timer reads 50 %, a client sets
  100 %, which is published and committed, and the timer then publishes 50 %.
  `get_speed_limit` says 100 %, the guard enforces 50 %, and nothing corrects it
  before the next change. Publishing inside the lock would.
- **`guard_reordered`** - one goal ends and the next begins; its feedback is
  handled before the status that listed no goal. The guard's inner state machine
  is emptied while the node still watches the new goal, so no later message of
  that goal begins it again and no rotation limit holds for it.
- **`terminal_preempt`** - the status of a preempting goal is heard one control
  cycle before its path arrives. The plugins start the new goal on the old
  pose. The latches this sets are not cleared when the path arrives, because the
  epoch was already adopted: the checker may call the new goal reached without
  the robot ever having been within the enter tolerances, and the critic's window
  is open although the new goal is far away, which rejects every trajectory.

- **`bringup_orphans`** - `_kill_nav2` signals Nav2's and the Collision Monitor's
  groups only while `poll()` says that the leader runs. Both are `ros2 launch`,
  the parent of the nodes: if it dies alone, a failed start or a shutdown leaves
  its nodes running, against "tears down every child process" (README, 125). The
  scan programs' groups are signalled by number instead, for the reason a comment
  gives (`atlas_bridge.py` 315); signalling all groups that way would end it. The
  passing run shows that nothing else is left.

Met while modelling, without a run of their own:

- A navigate call between the creation of the rclpy node and the end of CMD_INIT
  is accepted and queued, where a comment promises "not initialized"
  (`atlas_bridge.py` 1710, 910). The run ends all the same (`EveryRunEnds`).
- A second cancel of a goal that is already canceling is refused by Nav2, and the
  run then says "goal remains active" until its result arrives (1129, 1138).
- A Controller Server that is gone and back between two polls of the timer is not
  told the limit again (877), against the docstring at 873. `OwedLimitIsTold`
  covers the losses that a poll notices.
- The retry of a failed restore can be lost. The restore raises and sets `connected`
  to FALSE (1067), and its log says "will retry"; a refresh that read the old
  percentage before the restore began then ends, and sets `connected` to TRUE (885).
  The guard or Nav2 keeps the run's limit until the next change. `OwedLimitIsTold`
  excepts a restore that overlaps a publish of the timer (`PollPublishes`); without
  the exception TLC violates it under the constants of `bridge_live`.
- `cmd_vel_summary.py` (2) speaks of the "velocity actually sent to the base", but the
  guard hands over the command it computed before its latch
  (`velocity_guard.py` 308), sends zero instead while it is latched (312-314), and
  does not hand over the zeros its timer sends (331-334). A line is about what the
  guard was asked for; of what was sent it gives the bound `EveryCommandIsReported`
  states: nothing was faster than its peak.
- A docstring says that "every Nav2 velocity crosses our final guard"
  (`atlas_bridge.py` 644). The validation accepts a controller topic that is
  `/cmd_vel` or the guard's output, and an output topic inside the chain
  (`configuration.py` 123-130): such velocities reach the base past the guard. Those
  names are in the model; without either half of `NamesApart` TLC violates
  `EveryVelocityIsGuarded` in `parts`.
- After a failed start the first rclpy node stays; a retry with another
  `use_sim_time` stamps its goals on the old clock (900).
- Recovery behaviors feed the guard directly, past the Collision Monitor
  (`atlas_bridge.py` 674); `config.spec` 298 says so, `README.md` 76 does not.

## 5. Proofs

`GoalRunsProofs` proves, for any sets of runs, handlers and result statuses:

- `TypeCorrect`: `Spec => []TypeOK`;
- `InvCorrect`: `Spec => []Inv`, the inductive invariant below;
- `PendingQueued`: `Spec => []PendingIsQueued`;
- `NoEarlyTerminalCorrect`: `Spec => []NoEarlyTerminal`;
- `TerminalFinal`: `Spec => TerminalIsFinal`, an action property;
- `CancelForwarded`: `Spec => []CancelIsForwarded`, from `CancelInv`.

`ContractProofs` proves, if no result carries UNKNOWN:

- `ContractImplemented`: each behaviour of `Spec` is, through the refinement mapping
  of `GoalRuns`, one of the safety part of `RunContract`;
- `LatchKept`: `Spec => LatchIsKept`, an action property.

None of the safety properties is inductive. That an ended run is not sent
to Nav2, for example, depends on the dispatcher not having claimed it, and so on
which entries may still be in the queue. `Inv` has two parts. `WaitingInv` says
that a run on its way to the dispatcher has not been seen by Nav2 and waits in
exactly one place: once in the queue, or with one handler that is about to put it
there. `GoalInv` says for each thread inside a call which states of its run are
possible (`ThreadOK`), and for each run which of its entry, its handle and Nav2's
goal go together (`RunOK`). Each action is a lemma: helper lemmas say what
`SetRun` and `Goto` change, and a step re-establishes only the conjuncts of the
run and the thread it moves. `TerminalIsFinal` follows because the only blocks
that write a state without testing it belong to the dispatcher or to Nav2's
answers, whose runs `GoalInv` shows not to have ended.

`CancelIsForwarded` speaks of a run that shows its cancel as requested; `CancelInv`
adds where the requests themselves may be: Nav2 looks at one, or has answered one,
only for a goal it was given, and it grants one by beginning to cancel. So the
answer that clears the mark is never one to a request of another goal, and the
thread that sets the mark stands at `issue` until the request is under way.
`LatchKept` needs its hypothesis: a result with status UNKNOWN drops the handle of a
run that status still shows as RUNNING, and a cancel latched after that has nobody
to forward it.

The assumptions are `GoalRunsAssumption`: the empty id is no run, the thread
names differ, the statuses are those an action result can carry, and at least
one cancel may be under way. TLC evaluates them in each run.

`NavBridgeProofs` proves, for any bounds and steps of the percentage, any requests,
and any numbers of restarts and of publishes that raise:

- `BridgeImplementsRuns`: `BridgeSpec => Spec`. The speed code adds no step to the
  runs, so each theorem of `GoalRunsProofs` and `ContractProofs` holds of the wrapper
  as a whole; `BridgeRunsSafe` names four;
- `BridgeImplementsContract`: the wrapper as a whole implements the safety part of
  `RunContract` and has `LatchIsKept`, if no result carries UNKNOWN;
- `SpeedTypeCorrect`: `BridgeSpec => []SpeedTypeOK`;
- `OverrideOwned`: `BridgeSpec => []OverrideIsOwned`;
- `SessionCorrect`: `BridgeSpec => []SessionAgrees`, in every state, whether
  `_speed_lock` is held or free;
- `LockedPublishCorrect`: `BridgeSpec => []LockedPublishAgrees`.

`OverrideIsOwned` says that the run an override belongs to is active or is about to
be restored. A mutation tests that its run is active, publishes for as long as it
takes, and only then commits: the run may end in between. The proof is about who
waits for whom. `LockInv` says that exactly the threads that publish a mutation or a
restore hold `_speed_lock`; `OwnerInv` that while one does, a run it has decided for
is active or its restore is still owed (by a thread that must wait for that very
lock). `JobOK` keeps apart what a thread is in the speed code for, without
which the thread that ended the run might be the one that holds the lock.
`RestoringInv`, `SessionInv` and `PublishedInv` say what is in force between the two
publishes of a restore and after the last one; the unlocked publishes of the timer
and the bring-up are excluded by `guardFrom`, and `bridge_reported` shows that they
must be. That the runs themselves behave is cited, not proved again (`RunsCorrect`).

`VelocityGuardProofs` proves, for any goals, poses, commands, limits and timeouts:

- `GuardTypeCorrect`: `GuardSpec => []GuardTypeOK`;
- `TripAsks`: `GuardSpec => []TripAsksCancel`;
- `ZeroUntilEnd`: `GuardSpec => ZeroUntilGoalEnds`;
- `Alignment`: `GuardSpec => AlignmentBounded`;

and, if status and feedback are heard in the order in which they were sent
(`Ordered`; under the constants of `guard_reordered` TLC violates both without it):

- `IdleReleased`: `GuardSpec => []IdleIsReleased`;
- `RouteSpin`: `GuardSpec => RouteSpinBounded`.

`LinkInv` ties the two halves together: the goal the inner guard judges is the one
the node watches, and a latched guard has asked for its cancellation. `ZeroInv` is
what makes a trip last in any order: a goal that tripped is executing
first or not at all, and while it executes alone every message under way tells of
it. For the time limits the guard must be judging the goal that executes.
`StillInv` and `AlignInv` compare the clocks of the history variables with the guard's
own: since a goal's commands turn in place, either the guard has latched or it has
been counting from no later a time (`ClockInv` keeps its readings in the past). The
alignment's clock starts with a command the guard judges the executing goal by, when
nothing is under way, and all later messages tell of that goal (`Follows`): so
`AlignInv` needs no order. The spin's clock starts with any command; with messages in
order the guard judges the right goal then, because by `OrderInv` a message that says
a goal is gone is followed by none that names it, and by `HeardInv` the last one under
way tells of the goal that executes alone.
Two assumptions of the models are used only here: `GlobalProgress` is positive (a
constant 0.04 rad in the code), and commands, limits and poses are what the
constants' comments say they are.

`TerminalControlProofs` proves, for any goals, poses, tolerances, motions and times:

- `TerminalTypeCorrect`: `~Preemption => (TerminalSpec => []TerminalTypeOK)`; with
  preemption a status may fall back to an older goal and an epoch count it again;
- `TerminalStateOwned`, `LatchSurvives`, `TerminalEnding`, `RotationCommitted`:
  `TerminalStateIsOwn`, `LatchSurvivesReplans`, `TerminalEnds` and `RotationCommits` are
  invariants if `~Preemption` and `PromptStatus`, the conditions of the passing run.
  Neither can be dropped: on the constants of `terminal` TLC violates each of the four
  with preemption (`terminal_preempt` is one of these runs), and each with late statuses.

`HeardInv` says of each plugin what it has not heard yet: statuses that list one goal
at a time, in order, from the goal it knows up to the newest, so that the
epoch moves once a goal and a plugin that has heard all knows the newest.
`WaitInv` says that before a goal is followed its predecessor's epoch has been taken
in and its own has not: that is why the first cycle starts it. `FollowInv` says that
a plugin either has yet to be called for the goal it follows, or has been and then
holds exactly what the history records of that goal (`CheckerIsOwn`, `CriticIsOwn`);
only a pose known before the first status can start it a second time
(`StartFacts`). The four properties are read off the cycle that gives the answer.

`BringupProofs` proves, for any sets of contracts, providers and configurations and
any number of calls:

- `BringupTypeCorrect`: `BringupSpec => []BringupTypeOK`;
- `NothingLeftCorrect`: `Headless \subseteq ScanGroups => (BringupSpec => []NothingLeftRunning)`;
- `ConsumersCorrect`: `BringupSpec => []ConsumersKnown`;
- `StartedCorrect`: `BringupSpec => []StartedWhole`, whatever `Headless` is.

`NothingLeftRunning` speaks of the moment a call is answered; `BringupInv` says
what makes it true on the way: while groups are started, those still to come are
not running, so `Popen` never overwrites the reference to a running group and
`stray` stays empty; while they are taken down, those done with are not running;
and a start begins with nothing running. Its hypothesis is the one that
`bringup_orphans` shows to be necessary: if the leader of another group may die
before its children, the theorem is false. `ConsumersKnown` is inductive with the
types; it speaks of every state, also of those between two lookups. `StartInv`
follows a start through the order of the groups: those done with are the wanted ones,
out of inputs found; of those to come no reference is left from an earlier attempt,
but for Nav2's, which `_kill_nav2` keeps. It needs that the camera's contracts are
none of the other inputs, as in the code: the camera is looked up in the middle of
the start, after the others have been tested (`CameraApart`).

`PathBudgetProofs` proves, for any row of cells, cell width, sample step and budgets,
and any path of any number of poses whose segments `PathBudgetAssumption` allows (sample
lengths are whole):

- `PlanCorrect`: `PlanSpec => []PlanInv`, the inductive invariant below;
- `FallbackBounded`: `PlanSpec => []FallbackIsBounded`;
- `GroundIsMeasured`: `PlanSpec => []MeasuresTheGround`;
- `UnknownGroundBounded`: `PlanSpec => []UnknownGroundIsBounded`, which only the proof
  states: it follows from what the runs check.

`PlanInv` says what the loops' counters stand for in the middle of a path. `CursorOK`
keeps them on a sample; `LengthsMeasured` says that the two lengths are the sums over
the segments entered and the gaps passed; `RunsMeasured` that `maxRun` bounds each
stretch of gaps passed and `run` those that reach up to now, which is what makes runs
over several segments count. `GroundMeasured` compares with the ground: on whole
segments the error is bounded already, and of the segment under way some number of
the samples passed were gaps, whose length is close to the unknown ground up to there
(`SamplesNear`). The step is the midpoint argument: a segment is cut into units so fine
that cells and samples are whole numbers of them; a sample with no border inside is
counted as what it is, and one with borders errs by half its length for each at most,
because its midpoint lies on one side of them. `UnknownGroundIsBounded` puts the two
together: what the budgets bound is the ground, but for that error. The sums are the
library's recursive ones. What they are with one element more is proved by induction
on the subsets of a finite set, from the well-founded order of `FiniteSetTheorems`, with
a set in the place of the predicate that the provers cannot instantiate
(`FiniteInduction`, `CountingUp`).

`PartsProofs` proves, for any sets of valid and invalid names, those of the chain's
own topics included, that `EveryVelocityIsGuarded`, `SinkIsRespected` and
`ControllerIsMonitored` are invariants of `ChainSpec`. That the names of the deployment
at hand are apart is a hypothesis inside the three properties (`NamesApart`), not an
assumption about the sets, and it is necessary (section 4). `ChainInv` says that a
running chain's names were validated, that they stay, and, for each place a command of
names that are apart may be in, which nodes it has crossed.

It also proves the properties of the three programs beside the chain, for every value
of their parameters:

- `ObstacleCorrect`: `MinNeighbors <= WindowBins => (ScanSpec => []ObstacleIsKept)`; the
  code's defaults are 2 and 2, and with a narrower window its outer bins may go;
- `SpecklesCorrect`: `ScanSpec => []SpecklesAreRemoved`;
- `RaysCorrect`: `DepthSpec => []RaysFitTheImage`;
- `SummaryCorrect`: `SummarySpec => []EveryCommandIsReported`.

The filter's two are about the number of bins that support a bin: an obstacle's
other bins are among them, and those of a speckle are among the rest of its group
(`ScanInv` says that what was published is the filtered scan). `GridInv` says that
cached rays are those of the intrinsics heard last; `WindowInv` that the window
under way tells still commands from others, and bounds what was sent, before it
becomes a line.

Every invariant and every action property that a passing run checks is stated by one
of these theorems, under no more than the hypotheses named there. Model-checked only is
what holds under fairness (`EveryRunEnds`, `OverrideEnds`, `SpeedCallsReturn`,
`OwedLimitIsTold`, `DriverAnswers`, `CommandsArrive`, and the liveness of the contract, which
`ImplementsContract` includes): liveness is out of the prover's reach.

## 6. Not modelled, and why

- Driver calls that overlap, and a CMD_INIT after CMD_SHUTDOWN: whether
  `robonix_api` admits them cannot be seen in this repository. The model has one
  driver call at a time and a shutdown as the last one.
- A provider that registers again under the same id with another endpoint: the
  held channel is returned (`atlas_bridge.py` 239); endpoints are not modelled.
- What becomes of velocities when the topic names are not apart: such names are in the
  model, and the properties of the chain except them (`NamesApart`).
- `_nav_action_ready` after a later start failed, and the publisher of a retry
  with another `dynamic_speed.topic`: `GoalRuns` and `NavBridge` have one bring-up.
- The rewriting of YAML and launch files: what the result wires is in
  `VelocityChain`, how the text is edited is not. Deployment files, deprecated
  profiles and the normalisation of `scan_projection` are checks of single values;
  the bounds that `speed_settings` enforces are assumptions of `NavBridge`.
- The footprint and geometry asked of Soma: one value, read once per start.
- A result that never comes or a Nav2 that dies: fairness of `goals_live` only.
- The seam of a 360 degree scan: `filter_ranges` cuts its window at the ends, so an
  obstacle across the seam has neighbours on one side only; no text promises
  otherwise.
- Traces, scan log, diagnostics, details: nothing reads them back.
- Invalid speed limits and empty plans in the guard: they change nothing.
- The scores of legal trajectories: DWB may take any of them.
- Noise of the odometry: every change of yaw counts as rotation, as in the code.
- The status that lists a goal as being cancelled: the plugins read no more from
  it than from the lists before and after it.
- Scripts, containers, gRPC and MCP wrappers: no state.

## 7. Plan

Done, in this order: `RunContract`, `GoalRuns`, its proofs and the contract's;
`NavBridge`; `RotationGuard` and `VelocityGuard`; `TerminalControl`; the proofs of these
three; `Bringup` and its proofs; `VelocityChain` and its proofs; `PathBudget`; `ScanFilter`,
`DepthCloud`, `CmdVelSummary` and their proofs; the timer and restarts of `NavBridge`; the
proofs of `PathBudget`.

Next, the most important first:

1. A composition of `NavBridge` with `VelocityGuard` over the goals Nav2 executes:
   what the guard cancels must become a run that ends CANCELED or FAILED.
2. `GoalRuns` with more than one bring-up, after a start that failed.
3. An abstract latch that both `VelocityGuard` and `TerminalControl` implement:
   a goal, its verdict, and a release at the goal's end.

Proofs to come: the invariants of those compositions.

## 8. Running

    tlc -config GoalsSafety.cfg MCGoalRuns.tla
    tlapm GoalRunsProofs.tla

Section 3's table names the runs; `PROJECT.json` gives each one's module and
configuration. The longest take two to three minutes with two workers.
