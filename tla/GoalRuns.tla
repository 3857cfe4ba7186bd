------------------------------ MODULE GoalRuns ------------------------------
(***************************************************************************)
(* The life of a navigation run in nav2_wrapper/atlas_bridge.py: the table *)
(* _goal_states, the handles of the goals Nav2 accepted, the queue between *)
(* the gRPC/MCP handlers and the rclpy thread, and the callbacks of the    *)
(* action client.                                                          *)
(*                                                                         *)
(* Every `with _state_lock` block is one step: the blocks take no other    *)
(* lock, make no blocking call, and nothing else touches the table.  What  *)
(* a handler does between two blocks is where other threads run, so each   *)
(* thread has a program counter between its blocks.                        *)
(*                                                                         *)
(* Details, feedback and diagnostics are wording and are left out.         *)
(***************************************************************************)
EXTENDS Naturals, Sequences

CONSTANTS
  Runs,            \* the run ids uuid4() can still produce
  NoRun,           \* the empty run_id
  Callers,         \* gRPC and MCP handler threads
  Dispatcher,      \* the rclpy thread: it polls and drains _nav_queue
  Executor,        \* the executor worker that runs the node's callbacks
  ResultStatuses,  \* the GoalStatus values Nav2's results carry
  MaxCancels       \* bound: cancel requests of one run Nav2 has not answered

Terminal == {"SUCCEEDED", "FAILED", "CANCELED"}

(* _goal_status_name of the statuses an action result can carry; a result  *)
(* request for a goal the server does not know is answered UNKNOWN.        *)
StatusNames == {"UNKNOWN", "SUCCEEDED", "CANCELED", "ABORTED"}

ASSUME GoalRunsAssumption ==
  /\ NoRun \notin Runs
  /\ Dispatcher \notin Callers
  /\ Executor \notin Callers
  /\ Dispatcher # Executor
  /\ ResultStatuses \subseteq StatusNames
  /\ MaxCancels \in Nat \ {0}

Threads == Callers \cup {Dispatcher, Executor}

VARIABLES
  rosNode,      \* _ros_node is set
  navReady,     \* _nav_action_ready
  goalStates,   \* _goal_states: "absent" stands for a missing key
  goalHandles,  \* the keys of _goal_handles
  lastRunId,    \* _last_run_id
  navQueue,     \* _nav_queue
  pc,           \* where each thread stands between two locked blocks
  at,           \* the run each thread is working on
  nav2,         \* external: the goal of the run in Nav2's action server
  asked,        \* external: cancel requests Nav2 has not looked at
  granted,      \* external: the runs whose granted cancel is not yet answered
  refused       \* external: refusals of a cancel not yet answered

cancelVars == <<asked, granted, refused>>
tableVars == <<goalStates, goalHandles, lastRunId>>
goalVars == <<rosNode, navReady, tableVars, navQueue, pc, at, nav2, cancelVars>>

Init ==
  /\ rosNode = FALSE
  /\ navReady = FALSE
  /\ goalStates = [r \in Runs |-> [state |-> "absent", cancelRequested |-> FALSE]]
  /\ goalHandles = {}
  /\ lastRunId = NoRun
  /\ navQueue = <<>>
  /\ pc = [t \in Threads |-> "idle"]
  /\ at = [t \in Threads |-> NoRun]
  /\ nav2 = [r \in Runs |-> "none"]
  /\ asked = [r \in Runs |-> 0]
  /\ granted = {}
  /\ refused = [r \in Runs |-> 0]

-----------------------------------------------------------------------------
(* Helpers.                                                                *)

IsTerminal(r) == goalStates[r].state \in Terminal

ActiveRuns == {r \in Runs : goalStates[r].state \in {"PENDING", "RUNNING"}}

(* Seeded faults of CanonicalState: the map forgotten, and a failure shown *)
(* as still running.                                                       *)
CanonicalStateUnmapped(status) == status
CanonicalStateHidesAbort(status) == IF status = "SUCCEEDED" THEN status ELSE "RUNNING"

CanonicalState(status) ==
  CASE status = "UNKNOWN" -> "RUNNING"
    [] status = "ABORTED" -> "FAILED"
    [] OTHER -> status

ResolveRunId(id) == IF id = NoRun THEN lastRunId ELSE id

(* The table entry a block writes.                                         *)
SetRun(r, state, cancelRequested) ==
  goalStates' = [goalStates EXCEPT ![r] =
                   [state |-> state, cancelRequested |-> cancelRequested]]

(* What a block that rewrites the entry carries over: a latched cancel.    *)
ForgetCancel(r) == FALSE  \* seeded fault: the entry is written afresh
CarriedCancel(r) == goalStates[r].cancelRequested

(* A cancel without a handle ends a run that is still queued, no other.    *)
CancelEndsAny(r) == "CANCELED"  \* seeded fault: PENDING is not tested
StateOnCancel(r) ==
  IF goalStates[r].state = "PENDING" THEN "CANCELED" ELSE goalStates[r].state

(* The end of a run nobody accepted: canceled if a cancel was latched.     *)
RefusedState(r) ==
  IF CarriedCancel(r) THEN "CANCELED" ELSE "FAILED"

Goto(t, label, r) ==
  /\ pc' = [pc EXCEPT ![t] = label]
  /\ at' = [at EXCEPT ![t] = r]

Idle(t) == pc[t] = "idle"
Return(t) == Goto(t, "idle", NoRun)

-----------------------------------------------------------------------------
(* The bring-up, as far as the handlers see it.                            *)

NodeUp ==
  /\ ~rosNode
  /\ rosNode' = TRUE
  /\ UNCHANGED <<navReady, tableVars, navQueue, pc, at, nav2, cancelVars>>

WaitForAction ==
  /\ rosNode
  /\ ~navReady
  /\ navReady' = TRUE
  /\ UNCHANGED <<rosNode, tableVars, navQueue, pc, at, nav2, cancelVars>>

-----------------------------------------------------------------------------
(* Handler threads: navigate and cancel.                                   *)

NavigateRecord(c, r) ==
  /\ Idle(c)
  /\ rosNode
  /\ goalStates[r].state = "absent"
  /\ lastRunId' = r
  /\ SetRun(r, "PENDING", FALSE)
  /\ Goto(c, "enqueue", r)
  /\ UNCHANGED <<rosNode, navReady, goalHandles, navQueue, nav2, cancelVars>>

NavigateEnqueue(c) ==
  /\ pc[c] = "enqueue"
  /\ navQueue' = Append(navQueue, at[c])
  /\ Return(c)
  /\ UNCHANGED <<rosNode, navReady, tableVars, nav2, cancelVars>>

(* An unknown or ended run is refused without a change.                    *)
CanCancel(c, r) ==
  /\ Idle(c)
  /\ r \in ActiveRuns

CancelPending(c, r) ==
  /\ CanCancel(c, r)
  /\ r \notin goalHandles
  /\ goalStates[r].state = "PENDING"
  /\ SetRun(r, StateOnCancel(r), TRUE)
  /\ Goto(c, "restore", r)
  /\ UNCHANGED <<rosNode, navReady, goalHandles, lastRunId, navQueue, nav2, cancelVars>>

CancelLatch(c, r) ==
  /\ CanCancel(c, r)
  /\ r \notin goalHandles
  /\ goalStates[r].state = "RUNNING"
  /\ SetRun(r, StateOnCancel(r), TRUE)
  /\ UNCHANGED <<rosNode, navReady, goalHandles, lastRunId, navQueue, pc, at, nav2, cancelVars>>

CancelSubmit(c, r) ==
  /\ CanCancel(c, r)
  /\ r \in goalHandles
  /\ SetRun(r, goalStates[r].state, TRUE)
  /\ Goto(c, "issue", r)
  /\ UNCHANGED <<rosNode, navReady, goalHandles, lastRunId, navQueue, nav2, cancelVars>>

Cancel(c, r) == CancelPending(c, r) \/ CancelLatch(c, r) \/ CancelSubmit(c, r)

(* _issue_cancel: the handler or the executor asks Nav2 ...                *)
IssueCancel(t) ==
  /\ pc[t] = "issue"
  /\ asked[at[t]] < MaxCancels
  /\ asked' = [asked EXCEPT ![at[t]] = @ + 1]
  /\ Return(t)
  /\ UNCHANGED <<rosNode, navReady, tableVars, navQueue, nav2, granted, refused>>

(* ... or the call raises; the entry is then updated whatever its state.   *)
IssueCancelRaises(t) ==
  /\ pc[t] = "issue"
  /\ SetRun(at[t], goalStates[at[t]].state, FALSE)
  /\ Return(t)
  /\ UNCHANGED <<rosNode, navReady, goalHandles, lastRunId, navQueue, nav2, cancelVars>>

(* The speed-limit code the end of a run calls; NavBridge says what it does. *)
Restored(t) ==
  /\ pc[t] = "restore"
  /\ Return(t)
  /\ UNCHANGED <<rosNode, navReady, tableVars, navQueue, nav2, cancelVars>>

-----------------------------------------------------------------------------
(* The rclpy thread takes one goal at a time from the queue.               *)

SkipUnlessRunning(r) == goalStates[r].state # "RUNNING"  \* seeded fault: skips live entries
CanceledBeforeDispatch(r) ==
  goalStates[r].state = "CANCELED" /\ goalStates[r].cancelRequested

DispatchSkip ==
  /\ Idle(Dispatcher)
  /\ navQueue # <<>>
  /\ CanceledBeforeDispatch(Head(navQueue))
  /\ navQueue' = Tail(navQueue)
  /\ UNCHANGED <<rosNode, navReady, tableVars, pc, at, nav2, cancelVars>>

DispatchClaim ==
  /\ Idle(Dispatcher)
  /\ navQueue # <<>>
  /\ LET r == Head(navQueue) IN
       /\ ~CanceledBeforeDispatch(r)
       /\ SetRun(r, "RUNNING", CarriedCancel(r))
       /\ Goto(Dispatcher, "claimed", r)
  /\ navQueue' = Tail(navQueue)
  /\ UNCHANGED <<rosNode, navReady, goalHandles, lastRunId, nav2, cancelVars>>

DispatchNotReady ==
  /\ pc[Dispatcher] = "claimed"
  /\ ~navReady
  /\ SetRun(at[Dispatcher], "FAILED", FALSE)
  /\ Goto(Dispatcher, "restore", at[Dispatcher])
  /\ UNCHANGED <<rosNode, navReady, goalHandles, lastRunId, navQueue, nav2, cancelVars>>

DispatchSend ==
  /\ pc[Dispatcher] = "claimed"
  /\ navReady
  /\ nav2' = [nav2 EXCEPT ![at[Dispatcher]] = "sent"]
  /\ Goto(Dispatcher, "sent", at[Dispatcher])
  /\ UNCHANGED <<rosNode, navReady, tableVars, navQueue, cancelVars>>

DispatchSent ==
  /\ pc[Dispatcher] = "sent"
  /\ SetRun(at[Dispatcher], "RUNNING", CarriedCancel(at[Dispatcher]))
  /\ Return(Dispatcher)
  /\ UNCHANGED <<rosNode, navReady, goalHandles, lastRunId, navQueue, nav2, cancelVars>>

-----------------------------------------------------------------------------
(* Callbacks of the action client.  The node's callback group runs one at  *)
(* a time.  A response is only taken off the wire by the thread that is    *)
(* also the dispatcher, so it follows the dispatch that asked for it.      *)

GoalAnswered(r) ==
  /\ Idle(Executor)
  /\ nav2[r] = "sent"
  /\ ~(pc[Dispatcher] = "sent" /\ at[Dispatcher] = r)

GoalRefused(r) ==
  /\ GoalAnswered(r)
  /\ SetRun(r, RefusedState(r), FALSE)
  /\ Goto(Executor, "restore", r)
  /\ nav2' = [nav2 EXCEPT ![r] = "ended"]
  /\ UNCHANGED <<rosNode, navReady, goalHandles, lastRunId, navQueue, cancelVars>>

NeverForward(r) == FALSE  \* seeded fault: the latched cancel is not issued
ForwardLatched(r) == goalStates[r].cancelRequested

GoalAccepted(r) ==
  /\ GoalAnswered(r)
  /\ goalHandles' = goalHandles \cup {r}
  /\ SetRun(r, "RUNNING", CarriedCancel(r))
  /\ IF ForwardLatched(r)
       THEN Goto(Executor, "issue", r)
       ELSE UNCHANGED <<pc, at>>
  /\ nav2' = [nav2 EXCEPT ![r] = "active"]
  /\ UNCHANGED <<rosNode, navReady, lastRunId, navQueue, cancelVars>>

(* A result that could not be read ends the run like an ABORTED one.       *)
Result(r, status) ==
  /\ Idle(Executor)
  /\ nav2[r] \in {"active", "canceling"}
  /\ SetRun(r, CanonicalState(status), FALSE)
  /\ goalHandles' = goalHandles \ {r}
  /\ Goto(Executor, "restore", r)
  /\ nav2' = [nav2 EXCEPT ![r] = "ended"]
  /\ UNCHANGED <<rosNode, navReady, lastRunId, navQueue, cancelVars>>

(* External: Nav2 grants a cancel of a goal it is executing; a goal that   *)
(* is already being canceled, or has ended, cannot be canceled again.      *)
Nav2Cancel(r) ==
  /\ asked[r] > 0
  /\ asked' = [asked EXCEPT ![r] = @ - 1]
  /\ \/ /\ nav2[r] = "active"
        /\ nav2' = [nav2 EXCEPT ![r] = "canceling"]
        /\ granted' = granted \cup {r}
        /\ UNCHANGED refused
     \/ /\ nav2[r] # "active"
        /\ refused[r] < MaxCancels
        /\ refused' = [refused EXCEPT ![r] = @ + 1]
        /\ UNCHANGED <<nav2, granted>>
  /\ UNCHANGED <<rosNode, navReady, tableVars, navQueue, pc, at>>

(* The answer is recorded only while the run is RUNNING.  The callback     *)
(* runs in the executor, or in the handler when the answer was faster.     *)
RecordAnyAnswer(r, accepted) == SetRun(r, "RUNNING", accepted)  \* seeded fault: no test
RecordCancelAnswer(r, accepted) ==
  IF goalStates[r].state = "RUNNING"
    THEN SetRun(r, "RUNNING", accepted)
    ELSE UNCHANGED goalStates

CancelGranted(r) ==
  /\ r \in granted
  /\ granted' = granted \ {r}
  /\ RecordCancelAnswer(r, TRUE)
  /\ UNCHANGED <<rosNode, navReady, goalHandles, lastRunId, navQueue, pc, at, nav2, asked, refused>>

CancelRefused(r) ==
  /\ refused[r] > 0
  /\ refused' = [refused EXCEPT ![r] = @ - 1]
  /\ RecordCancelAnswer(r, FALSE)
  /\ UNCHANGED <<rosNode, navReady, goalHandles, lastRunId, navQueue, pc, at, nav2, asked, granted>>

-----------------------------------------------------------------------------
Navigate(c) == \E r \in Runs : NavigateRecord(c, r)

CancelCall(c) == \E id \in Runs \cup {NoRun} : Cancel(c, ResolveRunId(id))

HandlerStep(c) == Navigate(c) \/ NavigateEnqueue(c) \/ CancelCall(c)

DispatcherStep ==
  DispatchSkip \/ DispatchClaim \/ DispatchNotReady \/ DispatchSend \/ DispatchSent

ExecutorStep ==
  \E r \in Runs :
    GoalRefused(r) \/ GoalAccepted(r) \/ \E s \in ResultStatuses : Result(r, s)

IssueStep(t) == IssueCancel(t) \/ IssueCancelRaises(t)

Environment == \E r \in Runs : Nav2Cancel(r) \/ CancelGranted(r) \/ CancelRefused(r)

BringupStep == NodeUp \/ WaitForAction

Next ==
  \/ BringupStep
  \/ \E c \in Callers : HandlerStep(c)
  \/ DispatcherStep
  \/ ExecutorStep
  \/ \E t \in Threads : IssueStep(t) \/ Restored(t)
  \/ Environment

Spec == Init /\ [][Next]_goalVars

(* Threads keep running once inside a call, the dispatcher drains its      *)
(* queue, ready callbacks are run, and Nav2 answers every goal it was sent *)
(* with an acceptance or a refusal and, in the end, with a result.  Nobody *)
(* has to call navigate or cancel, and the bring-up may never finish.      *)
Fairness ==
  /\ \A c \in Callers : WF_goalVars(NavigateEnqueue(c))
  /\ WF_goalVars(DispatcherStep)
  /\ \A t \in Threads : WF_goalVars(IssueStep(t)) /\ WF_goalVars(Restored(t))
  /\ \A r \in Runs : /\ WF_goalVars(GoalRefused(r) \/ GoalAccepted(r))
                     /\ WF_goalVars(\E s \in ResultStatuses : Result(r, s))

FairSpec == Spec /\ Fairness

-----------------------------------------------------------------------------
(* Properties.                                                             *)

RunStates == {"absent", "PENDING", "RUNNING"} \cup Terminal

Labels == {"idle", "enqueue", "issue", "restore", "claimed", "sent"}

StatesTypeOK == goalStates \in [Runs -> [state : RunStates, cancelRequested : BOOLEAN]]

TableTypeOK ==
  /\ rosNode \in BOOLEAN
  /\ navReady \in BOOLEAN
  /\ goalHandles \subseteq Runs
  /\ lastRunId \in Runs \cup {NoRun}

QueueTypeOK == navQueue \in Seq(Runs)

ThreadTypeOK ==
  /\ pc \in [Threads -> Labels]
  /\ at \in [Threads -> Runs \cup {NoRun}]
  /\ \A t \in Threads : at[t] = NoRun <=> pc[t] = "idle"

Nav2TypeOK ==
  /\ nav2 \in [Runs -> {"none", "sent", "active", "canceling", "ended"}]
  /\ asked \in [Runs -> 0..MaxCancels]
  /\ granted \subseteq Runs
  /\ refused \in [Runs -> 0..MaxCancels]

(* The values the shared state, the threads' program counters and Nav2's   *)
(* side range over; a thread inside a call is working on a run.            *)
TypeOK == StatesTypeOK /\ TableTypeOK /\ QueueTypeOK /\ ThreadTypeOK /\ Nav2TypeOK

(* A run whose status is final is not a goal Nav2 is still working on, nor *)
(* one it will still be sent: a cancel that races with the dispatcher      *)
(* "must not look terminal prematurely" (atlas_bridge.py, _dispatch_goal). *)
NoEarlyTerminal ==
  \A r \in Runs :
    IsTerminal(r) => /\ nav2[r] \in {"none", "ended"}
                     /\ \A t \in Threads : at[t] = r => pc[t] \in {"enqueue", "restore", "issue"}

(* A run that is PENDING is in the queue, or its handler is about to put   *)
(* it there: no run is ever accepted and then forgotten.                   *)
PendingIsQueued ==
  \A r \in Runs :
    goalStates[r].state = "PENDING" =>
      \/ \E i \in 1..Len(navQueue) : navQueue[i] = r
      \/ \E c \in Callers : pc[c] = "enqueue" /\ at[c] = r

(* A cancel shown as requested on an accepted goal is on its way: a thread *)
(* is about to ask Nav2, or Nav2's answer is awaited, or Nav2 is canceling. *)
CancelUnderWay(r) ==
  \/ \E t \in Threads : pc[t] = "issue" /\ at[t] = r
  \/ asked[r] > 0
  \/ refused[r] > 0
  \/ nav2[r] = "canceling"

CancelIsForwarded ==
  \A r \in goalHandles : goalStates[r].cancelRequested => CancelUnderWay(r)

(* A cancel accepted before Nav2 returned the handle is latched until the  *)
(* run ends or the thread that gets the handle turns to forward it.        *)
Latched(r) ==
  goalStates[r].state = "RUNNING" /\ goalStates[r].cancelRequested /\ r \notin goalHandles

LatchIsKept ==
  [][\A r \in Runs :
       Latched(r) =>
         \/ Latched(r)'
         \/ IsTerminal(r)'
         \/ r \in goalHandles' /\ pc'[Executor] = "issue" /\ at'[Executor] = r]_goalVars

(* What status answered for an ended run never changes: no late callback,  *)
(* cancel answer or dispatcher write brings a run back or renames its end. *)
TerminalIsFinal ==
  [][\A r \in Runs :
       IsTerminal(r) => goalStates'[r].state = goalStates[r].state]_goalVars

(* Every run navigate accepted ends, whatever cancels arrive and whether   *)
(* or not the bring-up ever completes.                                     *)
EveryRunEnds ==
  \A r \in Runs : goalStates[r].state \in {"PENDING", "RUNNING"} ~> IsTerminal(r)

(* The threads, queue and callbacks implement what a client relies on.     *)
Contract == INSTANCE RunContract WITH
  stage <- [r \in Runs |-> goalStates[r].state],
  pursuit <- [r \in Runs |->
    CASE nav2[r] \in {"none", "sent"} -> "never"
      [] nav2[r] = "ended" -> "over"
      [] OTHER -> "now"]

ImplementsContract == Contract!ContractSpec

(* README and docstrings: "Empty run_id means the most recent active run." *)
EmptyIdIsActiveRun == ActiveRuns # {} => ResolveRunId(NoRun) \in ActiveRuns
=============================================================================
