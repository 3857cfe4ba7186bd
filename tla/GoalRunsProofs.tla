-------------------------- MODULE GoalRunsProofs --------------------------
(***************************************************************************)
(* Theorems about GoalRuns, for any number of runs and handler threads and *)
(* for whatever statuses Nav2's results carry.                             *)
(***************************************************************************)
EXTENDS GoalRuns, TLAPS

(* The threads, the states of a run and the statuses of a result.          *)
LEMMA ThreadSets ==
  /\ Callers \subseteq Threads /\ Dispatcher \in Threads /\ Executor \in Threads
  /\ Dispatcher \notin Callers /\ Executor \notin Callers /\ Dispatcher # Executor
  BY GoalRunsAssumption DEF GoalRunsAssumption, Threads

LEMMA StateSets ==
  /\ {"PENDING", "RUNNING", "CANCELED", "FAILED"} \subseteq RunStates
  /\ \A s \in ResultStatuses : CanonicalState(s) \in {"RUNNING"} \cup Terminal
  /\ {"RUNNING"} \cup Terminal \subseteq RunStates
  BY GoalRunsAssumption DEF GoalRunsAssumption, RunStates, Terminal, CanonicalState, StatusNames

(* A block that writes one entry of _goal_states keeps the table well      *)
(* typed, and writes what it is told to that entry only.                   *)
LEMMA SetRunFacts ==
  ASSUME StatesTypeOK, NEW r \in Runs, NEW s \in RunStates, NEW b \in BOOLEAN, SetRun(r, s, b)
  PROVE  /\ StatesTypeOK'
         /\ goalStates'[r].state = s /\ goalStates'[r].cancelRequested = b
         /\ \A q \in Runs : q # r => goalStates'[q] = goalStates[q]
  BY DEF StatesTypeOK, SetRun

LEMMA EntryTyped ==
  ASSUME StatesTypeOK, NEW r \in Runs
  PROVE  /\ goalStates[r].state \in RunStates
         /\ CarriedCancel(r) \in BOOLEAN
         /\ StateOnCancel(r) \in RunStates
         /\ RefusedState(r) \in RunStates
  BY StateSets DEF StatesTypeOK, CarriedCancel, StateOnCancel, RefusedState

(* A thread that moves on is where it is told to be; the others stay.      *)
LEMMA GotoFacts ==
  ASSUME ThreadTypeOK, NEW t \in Threads, NEW l \in Labels, NEW r \in Runs \cup {NoRun},
         l = "idle" <=> r = NoRun, Goto(t, l, r)
  PROVE  /\ ThreadTypeOK'
         /\ pc'[t] = l /\ at'[t] = r
         /\ \A u \in Threads : u # t => pc'[u] = pc[u] /\ at'[u] = at[u]
  BY DEF ThreadTypeOK, Goto

LEMMA ReturnFacts ==
  ASSUME ThreadTypeOK, NEW t \in Threads, Return(t)
  PROVE  /\ ThreadTypeOK'
         /\ pc'[t] = "idle" /\ at'[t] = NoRun
         /\ \A u \in Threads : u # t => pc'[u] = pc[u] /\ at'[u] = at[u]
  BY GotoFacts DEF Return, Labels

(* The run a thread inside a call is working on.                           *)
LEMMA AtRun ==
  ASSUME ThreadTypeOK, NEW t \in Threads, pc[t] # "idle"
  PROVE  at[t] \in Runs
  BY DEF ThreadTypeOK

(* Every reachable state is well typed.                                    *)
LEMMA TypeInit == Init => TypeOK
<1> SUFFICES ASSUME Init PROVE TypeOK
  OBVIOUS
<1>1. StatesTypeOK
  BY DEF Init, StatesTypeOK, RunStates
<1>2. TableTypeOK
  BY DEF Init, TableTypeOK
<1>3. QueueTypeOK
  BY DEF Init, QueueTypeOK
<1>4. ThreadTypeOK
  BY DEF Init, ThreadTypeOK, Labels
<1>5. Nav2TypeOK
  BY GoalRunsAssumption DEF GoalRunsAssumption, Init, Nav2TypeOK
<1>6. QED
  BY <1>1, <1>2, <1>3, <1>4, <1>5 DEF TypeOK

(* A navigate call.                                                        *)
LEMMA TypeNavigate ==
  ASSUME TypeOK, NEW c \in Callers, Navigate(c) \/ NavigateEnqueue(c)
  PROVE  TypeOK'
<1> StatesTypeOK /\ TableTypeOK /\ QueueTypeOK /\ ThreadTypeOK /\ Nav2TypeOK
  BY DEF TypeOK
<1> USE ThreadSets
<1>1. ASSUME NEW r \in Runs, NavigateRecord(c, r) PROVE TypeOK'
  <2>1. StatesTypeOK'
    BY <1>1, SetRunFacts, StateSets DEF NavigateRecord
  <2>2. ThreadTypeOK'
    BY <1>1, GotoFacts, GoalRunsAssumption DEF NavigateRecord, Labels, GoalRunsAssumption
  <2>3. TableTypeOK' /\ QueueTypeOK' /\ Nav2TypeOK'
    BY <1>1 DEF NavigateRecord, TableTypeOK, QueueTypeOK, Nav2TypeOK, cancelVars
  <2>4. QED
    BY <2>1, <2>2, <2>3 DEF TypeOK
<1>2. CASE NavigateEnqueue(c)
  <2>1. ThreadTypeOK'
    BY <1>2, ReturnFacts DEF NavigateEnqueue
  <2>2. QueueTypeOK'
    BY <1>2, AtRun DEF NavigateEnqueue, QueueTypeOK
  <2>3. StatesTypeOK' /\ TableTypeOK' /\ Nav2TypeOK'
    BY <1>2 DEF NavigateEnqueue, StatesTypeOK, TableTypeOK, Nav2TypeOK, tableVars, cancelVars
  <2>4. QED
    BY <2>1, <2>2, <2>3 DEF TypeOK
<1>3. QED
  BY <1>1, <1>2 DEF Navigate

(* A cancel call.                                                          *)
LEMMA TypeCancel ==
  ASSUME TypeOK, NEW c \in Callers, NEW r \in Runs, Cancel(c, r)
  PROVE  TypeOK'
<1> StatesTypeOK /\ TableTypeOK /\ QueueTypeOK /\ ThreadTypeOK /\ Nav2TypeOK
  BY DEF TypeOK
<1> USE ThreadSets
<1>1. CASE CancelPending(c, r)
  <2>1. StatesTypeOK'
    BY <1>1, SetRunFacts, EntryTyped DEF CancelPending
  <2>2. ThreadTypeOK'
    BY <1>1, GotoFacts, GoalRunsAssumption DEF CancelPending, Labels, GoalRunsAssumption
  <2>3. TableTypeOK' /\ QueueTypeOK' /\ Nav2TypeOK'
    BY <1>1 DEF CancelPending, TableTypeOK, QueueTypeOK, Nav2TypeOK, cancelVars
  <2>4. QED
    BY <2>1, <2>2, <2>3 DEF TypeOK
<1>2. CASE CancelLatch(c, r)
  <2>1. StatesTypeOK'
    BY <1>2, SetRunFacts, EntryTyped DEF CancelLatch
  <2>2. TableTypeOK' /\ QueueTypeOK' /\ ThreadTypeOK' /\ Nav2TypeOK'
    BY <1>2 DEF CancelLatch, TableTypeOK, QueueTypeOK, ThreadTypeOK, Nav2TypeOK, cancelVars
  <2>3. QED
    BY <2>1, <2>2 DEF TypeOK
<1>3. CASE CancelSubmit(c, r)
  <2>1. StatesTypeOK'
    BY <1>3, SetRunFacts, EntryTyped DEF CancelSubmit
  <2>2. ThreadTypeOK'
    BY <1>3, GotoFacts, GoalRunsAssumption DEF CancelSubmit, Labels, GoalRunsAssumption
  <2>3. TableTypeOK' /\ QueueTypeOK' /\ Nav2TypeOK'
    BY <1>3 DEF CancelSubmit, TableTypeOK, QueueTypeOK, Nav2TypeOK, cancelVars
  <2>4. QED
    BY <2>1, <2>2, <2>3 DEF TypeOK
<1>4. QED
  BY <1>1, <1>2, <1>3 DEF Cancel

(* A thread that asks Nav2 to cancel, or returns from restoring the speed. *)
LEMMA TypeIssue ==
  ASSUME TypeOK, NEW t \in Threads, IssueStep(t) \/ Restored(t)
  PROVE  TypeOK'
<1> StatesTypeOK /\ TableTypeOK /\ QueueTypeOK /\ ThreadTypeOK /\ Nav2TypeOK
  BY DEF TypeOK
<1> USE ThreadSets
<1>1. CASE IssueCancel(t)
  <2>1. ThreadTypeOK'
    BY <1>1, ReturnFacts DEF IssueCancel
  <2>2. StatesTypeOK' /\ TableTypeOK' /\ QueueTypeOK' /\ Nav2TypeOK'
    BY <1>1, AtRun, GoalRunsAssumption DEF IssueCancel, StatesTypeOK, TableTypeOK, QueueTypeOK, Nav2TypeOK, GoalRunsAssumption, tableVars
  <2>3. QED
    BY <2>1, <2>2 DEF TypeOK
<1>2. CASE IssueCancelRaises(t)
  <2>1. StatesTypeOK'
    BY <1>2, AtRun, SetRunFacts, EntryTyped DEF IssueCancelRaises
  <2>2. ThreadTypeOK'
    BY <1>2, ReturnFacts DEF IssueCancelRaises
  <2>3. TableTypeOK' /\ QueueTypeOK' /\ Nav2TypeOK'
    BY <1>2 DEF IssueCancelRaises, TableTypeOK, QueueTypeOK, Nav2TypeOK, cancelVars
  <2>4. QED
    BY <2>1, <2>2, <2>3 DEF TypeOK
<1>3. CASE Restored(t)
  <2>1. ThreadTypeOK'
    BY <1>3, ReturnFacts DEF Restored
  <2>2. StatesTypeOK' /\ TableTypeOK' /\ QueueTypeOK' /\ Nav2TypeOK'
    BY <1>3 DEF Restored, StatesTypeOK, TableTypeOK, QueueTypeOK, Nav2TypeOK, tableVars, cancelVars
  <2>3. QED
    BY <2>1, <2>2 DEF TypeOK
<1>4. QED
  BY <1>1, <1>2, <1>3 DEF IssueStep

(* A step of the rclpy thread.                                             *)
LEMMA TypeDispatch ==
  ASSUME TypeOK, DispatcherStep
  PROVE  TypeOK'
<1> StatesTypeOK /\ TableTypeOK /\ QueueTypeOK /\ ThreadTypeOK /\ Nav2TypeOK
  BY DEF TypeOK
<1> USE ThreadSets
<1>1. CASE DispatchSkip
  <2>1. StatesTypeOK' /\ TableTypeOK' /\ QueueTypeOK' /\ ThreadTypeOK' /\ Nav2TypeOK'
    BY <1>1 DEF DispatchSkip, StatesTypeOK, TableTypeOK, QueueTypeOK, ThreadTypeOK, Nav2TypeOK, tableVars, cancelVars
  <2>2. QED
    BY <2>1 DEF TypeOK
<1>2. CASE DispatchClaim
  <2>1. StatesTypeOK'
    BY <1>2, EntryTyped, SetRunFacts, StateSets DEF DispatchClaim, QueueTypeOK
  <2>2. ThreadTypeOK'
    BY <1>2, GotoFacts, GoalRunsAssumption DEF DispatchClaim, QueueTypeOK, Labels, GoalRunsAssumption
  <2>3. TableTypeOK' /\ QueueTypeOK' /\ Nav2TypeOK'
    BY <1>2 DEF DispatchClaim, TableTypeOK, QueueTypeOK, Nav2TypeOK, cancelVars
  <2>4. QED
    BY <2>1, <2>2, <2>3 DEF TypeOK
<1>3. CASE DispatchNotReady
  <2>1. StatesTypeOK'
    BY <1>3, AtRun, SetRunFacts, StateSets DEF DispatchNotReady
  <2>2. ThreadTypeOK'
    BY <1>3, AtRun, GotoFacts, GoalRunsAssumption DEF DispatchNotReady, Labels, GoalRunsAssumption
  <2>3. TableTypeOK' /\ QueueTypeOK' /\ Nav2TypeOK'
    BY <1>3 DEF DispatchNotReady, TableTypeOK, QueueTypeOK, Nav2TypeOK, cancelVars
  <2>4. QED
    BY <2>1, <2>2, <2>3 DEF TypeOK
<1>4. CASE DispatchSend
  <2>1. ThreadTypeOK'
    BY <1>4, AtRun, GotoFacts, GoalRunsAssumption DEF DispatchSend, Labels, GoalRunsAssumption
  <2>2. StatesTypeOK' /\ TableTypeOK' /\ QueueTypeOK' /\ Nav2TypeOK'
    BY <1>4, AtRun DEF DispatchSend, StatesTypeOK, TableTypeOK, QueueTypeOK, Nav2TypeOK, tableVars, cancelVars
  <2>3. QED
    BY <2>1, <2>2 DEF TypeOK
<1>5. CASE DispatchSent
  <2>1. StatesTypeOK'
    BY <1>5, AtRun, EntryTyped, SetRunFacts, StateSets DEF DispatchSent
  <2>2. ThreadTypeOK'
    BY <1>5, ReturnFacts DEF DispatchSent
  <2>3. TableTypeOK' /\ QueueTypeOK' /\ Nav2TypeOK'
    BY <1>5 DEF DispatchSent, TableTypeOK, QueueTypeOK, Nav2TypeOK, cancelVars
  <2>4. QED
    BY <2>1, <2>2, <2>3 DEF TypeOK
<1>6. QED
  BY <1>1, <1>2, <1>3, <1>4, <1>5 DEF DispatcherStep

(* A callback of the action client about a goal.                           *)
LEMMA TypeExecutor ==
  ASSUME TypeOK, ExecutorStep
  PROVE  TypeOK'
<1> StatesTypeOK /\ TableTypeOK /\ QueueTypeOK /\ ThreadTypeOK /\ Nav2TypeOK
  BY DEF TypeOK
<1> USE ThreadSets
<1>1. ASSUME NEW r \in Runs, GoalRefused(r) PROVE TypeOK'
  <2>1. StatesTypeOK'
    BY <1>1, EntryTyped, SetRunFacts DEF GoalRefused
  <2>2. ThreadTypeOK'
    BY <1>1, GotoFacts, GoalRunsAssumption DEF GoalRefused, Labels, GoalRunsAssumption
  <2>3. TableTypeOK' /\ QueueTypeOK' /\ Nav2TypeOK'
    BY <1>1 DEF GoalRefused, TableTypeOK, QueueTypeOK, Nav2TypeOK, cancelVars
  <2>4. QED
    BY <2>1, <2>2, <2>3 DEF TypeOK
<1>2. ASSUME NEW r \in Runs, GoalAccepted(r) PROVE TypeOK'
  <2>1. StatesTypeOK'
    BY <1>2, EntryTyped, SetRunFacts, StateSets DEF GoalAccepted
  <2>2. ThreadTypeOK'
    BY <1>2, GotoFacts, GoalRunsAssumption DEF GoalAccepted, ThreadTypeOK, Labels, GoalRunsAssumption
  <2>3. TableTypeOK' /\ QueueTypeOK' /\ Nav2TypeOK'
    BY <1>2 DEF GoalAccepted, TableTypeOK, QueueTypeOK, Nav2TypeOK, cancelVars
  <2>4. QED
    BY <2>1, <2>2, <2>3 DEF TypeOK
<1>3. ASSUME NEW r \in Runs, NEW s \in ResultStatuses, Result(r, s) PROVE TypeOK'
  <2>1. StatesTypeOK'
    BY <1>3, SetRunFacts, StateSets DEF Result
  <2>2. ThreadTypeOK'
    BY <1>3, GotoFacts, GoalRunsAssumption DEF Result, Labels, GoalRunsAssumption
  <2>3. TableTypeOK' /\ QueueTypeOK' /\ Nav2TypeOK'
    BY <1>3 DEF Result, TableTypeOK, QueueTypeOK, Nav2TypeOK, cancelVars
  <2>4. QED
    BY <2>1, <2>2, <2>3 DEF TypeOK
<1>4. QED
  BY <1>1, <1>2, <1>3 DEF ExecutorStep

(* Nav2 looks at a cancel request, or its answer is recorded.              *)
LEMMA TypeEnvironment ==
  ASSUME TypeOK, Environment
  PROVE  TypeOK'
<1> StatesTypeOK /\ TableTypeOK /\ QueueTypeOK /\ ThreadTypeOK /\ Nav2TypeOK
  BY DEF TypeOK
<1> USE ThreadSets
<1>1. ASSUME NEW r \in Runs, Nav2Cancel(r) PROVE TypeOK'
  <2>1. StatesTypeOK' /\ TableTypeOK' /\ QueueTypeOK' /\ ThreadTypeOK'
    BY <1>1 DEF Nav2Cancel, StatesTypeOK, TableTypeOK, QueueTypeOK, ThreadTypeOK, tableVars
  <2>2. Nav2TypeOK'
    BY <1>1, GoalRunsAssumption DEF Nav2Cancel, Nav2TypeOK, GoalRunsAssumption
  <2>3. QED
    BY <2>1, <2>2 DEF TypeOK
<1>2. ASSUME NEW r \in Runs, CancelGranted(r) PROVE TypeOK'
  <2>1. StatesTypeOK'
    BY <1>2, SetRunFacts, StateSets DEF CancelGranted, RecordCancelAnswer, StatesTypeOK
  <2>2. TableTypeOK' /\ QueueTypeOK' /\ ThreadTypeOK' /\ Nav2TypeOK'
    BY <1>2 DEF CancelGranted, TableTypeOK, QueueTypeOK, ThreadTypeOK, Nav2TypeOK
  <2>3. QED
    BY <2>1, <2>2 DEF TypeOK
<1>3. ASSUME NEW r \in Runs, CancelRefused(r) PROVE TypeOK'
  <2>1. StatesTypeOK'
    BY <1>3, SetRunFacts, StateSets DEF CancelRefused, RecordCancelAnswer, StatesTypeOK
  <2>2. TableTypeOK' /\ QueueTypeOK' /\ ThreadTypeOK' /\ Nav2TypeOK'
    BY <1>3, GoalRunsAssumption DEF CancelRefused, TableTypeOK, QueueTypeOK, ThreadTypeOK, Nav2TypeOK, GoalRunsAssumption
  <2>3. QED
    BY <2>1, <2>2 DEF TypeOK
<1>4. QED
  BY <1>1, <1>2, <1>3 DEF Environment

(* The run a cancel call names may be the empty id of a fresh service,     *)
(* which no entry of the table answers.                                    *)
LEMMA CancelCallRun ==
  ASSUME TypeOK, NEW c \in Callers, CancelCall(c)
  PROVE  \E r \in Runs : Cancel(c, r)
  BY DEF CancelCall, Cancel, CancelPending, CancelLatch, CancelSubmit, CanCancel, ActiveRuns

LEMMA TypeStep ==
  ASSUME TypeOK, [Next]_goalVars
  PROVE  TypeOK'
<1>1. CASE UNCHANGED goalVars
  BY <1>1 DEF goalVars, tableVars, cancelVars, TypeOK, StatesTypeOK, TableTypeOK, QueueTypeOK,
              ThreadTypeOK, Nav2TypeOK
<1>2. CASE BringupStep
  BY <1>2 DEF BringupStep, NodeUp, WaitForAction, tableVars, cancelVars, TypeOK, StatesTypeOK,
              TableTypeOK, QueueTypeOK, ThreadTypeOK, Nav2TypeOK
<1>3. ASSUME NEW c \in Callers, HandlerStep(c) PROVE TypeOK'
  BY <1>3, TypeNavigate, TypeCancel, CancelCallRun DEF HandlerStep
<1>4. QED
  BY <1>1, <1>2, <1>3, TypeIssue, TypeDispatch, TypeExecutor, TypeEnvironment DEF Next

(* Type correctness of every behavior of the specification.                *)
THEOREM TypeCorrect == Spec => []TypeOK
BY TypeInit, TypeStep, PTL DEF Spec

-----------------------------------------------------------------------------
(* Where a run stands on its way to the dispatcher.                        *)
Queued(r) == \E i \in 1..Len(navQueue) : navQueue[i] = r
Enqueuing(t, r) == pc[t] = "enqueue" /\ at[t] = r
Waiting(r) == Queued(r) \/ \E t \in Threads : Enqueuing(t, r)

(* A thread is inside its own code only, working on a run navigate has     *)
(* recorded; the dispatcher's run is RUNNING and not Nav2's before it is   *)
(* sent, and nobody asks to cancel a goal Nav2 has not accepted.           *)
ThreadOK(t) ==
  /\ pc[t] # "idle" => goalStates[at[t]].state # "absent"
  /\ pc[t] = "enqueue" => t \in Callers
  /\ pc[t] \in {"claimed", "sent"} => t = Dispatcher
  /\ pc[t] = "claimed" => goalStates[at[t]].state = "RUNNING" /\ nav2[at[t]] = "none"
  /\ pc[t] = "sent" => nav2[at[t]] = "sent"
  /\ pc[t] = "issue" => nav2[at[t]] \in {"active", "canceling", "ended"}

(* The handles are those of the goals Nav2 is executing, and a goal Nav2   *)
(* was sent and has not ended belongs to a RUNNING run.                    *)
RunOK(r) ==
  /\ r \in goalHandles <=> nav2[r] \in {"active", "canceling"}
  /\ nav2[r] \in {"sent", "active", "canceling"} => goalStates[r].state = "RUNNING"
  /\ goalStates[r].state = "absent" => nav2[r] = "none"

(* A run still on its way to the dispatcher is PENDING, or was canceled    *)
(* there and will be skipped; it is on its way at most once.               *)
WaitingIsEarly ==
  \A r \in Runs : Waiting(r) => /\ nav2[r] = "none"
                                /\ \/ goalStates[r].state = "PENDING"
                                   \/ CanceledBeforeDispatch(r)
QueuedOnce ==
  /\ \A i, j \in 1..Len(navQueue) : navQueue[i] = navQueue[j] => i = j
  /\ \A r \in Runs, t \in Threads : Enqueuing(t, r) =>
       /\ ~Queued(r)
       /\ \A u \in Threads : Enqueuing(u, r) => u = t

(* The inductive invariant: who waits, and what Nav2 was given.            *)
WaitingInv == WaitingIsEarly /\ QueuedOnce /\ PendingIsQueued

GoalInv == (\A t \in Threads : ThreadOK(t)) /\ (\A r \in Runs : RunOK(r))

Inv == WaitingInv /\ GoalInv

LEMMA PendingWaits ==
  ASSUME PendingIsQueued, NEW r \in Runs, goalStates[r].state = "PENDING"
  PROVE  Waiting(r)
  BY ThreadSets DEF PendingIsQueued, Waiting, Queued, Enqueuing

LEMMA RunningIsNotWaiting ==
  ASSUME WaitingIsEarly, NEW r \in Runs, goalStates[r].state = "RUNNING"
  PROVE  ~Waiting(r)
  BY DEF WaitingIsEarly, CanceledBeforeDispatch

(* Who waits changes only with the queue and with the threads that are     *)
(* about to append to it, and what is waiting may only be canceled.        *)
LEMMA WaitingFrame ==
  ASSUME WaitingInv, UNCHANGED navQueue,
         \A t \in Threads : pc[t] = "enqueue" \/ pc'[t] = "enqueue" =>
                              pc'[t] = pc[t] /\ at'[t] = at[t],
         \A q \in Runs : \/ goalStates'[q] = goalStates[q] /\ nav2'[q] = nav2[q]
                         \/ ~Waiting(q) /\ goalStates'[q].state # "PENDING"
                         \/ /\ goalStates'[q].state = "CANCELED"
                            /\ goalStates'[q].cancelRequested
                            /\ nav2'[q] = nav2[q]
  PROVE  WaitingInv'
<1>1. \A q : Queued(q)' <=> Queued(q)
  BY DEF Queued
<1>2. \A t \in Threads : \A q : Enqueuing(t, q)' <=> Enqueuing(t, q)
  BY DEF Enqueuing
<1>3. \A q : Waiting(q)' <=> Waiting(q)
  BY <1>1, <1>2 DEF Waiting
<1>4. WaitingIsEarly'
  BY <1>3 DEF WaitingInv, WaitingIsEarly, CanceledBeforeDispatch
<1>5. QueuedOnce'
  <2>1. \A i, j \in 1..Len(navQueue') : navQueue'[i] = navQueue'[j] => i = j
    BY DEF WaitingInv, QueuedOnce
  <2>2. \A r \in Runs, t \in Threads : Enqueuing(t, r)' =>
           /\ ~Queued(r)'
           /\ \A u \in Threads : Enqueuing(u, r)' => u = t
    BY <1>1, <1>2 DEF WaitingInv, QueuedOnce
  <2>3. QED
    BY <2>1, <2>2 DEF QueuedOnce
<1>6. PendingIsQueued'
  <2>1. SUFFICES ASSUME NEW r \in Runs, goalStates'[r].state = "PENDING"
                 PROVE  Queued(r)' \/ \E c \in Callers : Enqueuing(c, r)'
    BY DEF PendingIsQueued, Queued, Enqueuing
  <2>2. goalStates[r].state = "PENDING"
    BY <2>1
  <2>3. Queued(r) \/ \E c \in Callers : Enqueuing(c, r)
    BY <2>2 DEF WaitingInv, PendingIsQueued, Queued, Enqueuing
  <2>4. QED
    BY <2>3, <1>1, <1>2, ThreadSets
<1>7. QED
  BY <1>4, <1>5, <1>6 DEF WaitingInv

LEMMA QueueAppended ==
  ASSUME QueueTypeOK, NEW r \in Runs, navQueue' = Append(navQueue, r)
  PROVE  \A q : Queued(q)' <=> Queued(q) \/ q = r
<1>1. /\ Len(navQueue) \in Nat /\ Len(navQueue') = Len(navQueue) + 1
      /\ navQueue'[Len(navQueue) + 1] = r
      /\ \A i \in 1..Len(navQueue) : navQueue'[i] = navQueue[i]
  BY DEF QueueTypeOK
<1>2. QED
  BY <1>1 DEF Queued

LEMMA QueueTaken ==
  ASSUME QueueTypeOK, QueuedOnce, navQueue # <<>>, navQueue' = Tail(navQueue)
  PROVE  /\ Head(navQueue) \in Runs /\ Queued(Head(navQueue))
         /\ \A q : Queued(q)' <=> Queued(q) /\ q # Head(navQueue)
         /\ \A i, j \in 1..Len(navQueue') : navQueue'[i] = navQueue'[j] => i = j
<1>1. /\ Len(navQueue) \in Nat \ {0} /\ Len(navQueue') = Len(navQueue) - 1
      /\ \A i \in 1..Len(navQueue') : navQueue'[i] = navQueue[i + 1]
      /\ Head(navQueue) = navQueue[1]
      /\ Head(navQueue) \in Runs
  BY DEF QueueTypeOK
<1>2. \A i, j \in 1..Len(navQueue) : navQueue[i] = navQueue[j] => i = j
  BY DEF QueuedOnce
<1>3. Queued(Head(navQueue))
  BY <1>1 DEF Queued
<1>4. ASSUME NEW q, Queued(q)' PROVE Queued(q) /\ q # Head(navQueue)
  <2>1. PICK i \in 1..Len(navQueue') : navQueue'[i] = q
    BY <1>4 DEF Queued
  <2>2. i + 1 \in 1..Len(navQueue) /\ navQueue[i + 1] = q /\ i + 1 # 1 /\ 1 \in 1..Len(navQueue)
    BY <2>1, <1>1
  <2>3. QED
    BY <2>2, <1>1, <1>2 DEF Queued
<1>5. ASSUME NEW q, Queued(q), q # Head(navQueue) PROVE Queued(q)'
  <2>1. PICK i \in 1..Len(navQueue) : navQueue[i] = q
    BY <1>5 DEF Queued
  <2>2. i - 1 \in 1..Len(navQueue') /\ navQueue'[i - 1] = q
    BY <2>1, <1>1, <1>5
  <2>3. QED
    BY <2>2 DEF Queued
<1>6. ASSUME NEW i \in 1..Len(navQueue'), NEW j \in 1..Len(navQueue'), navQueue'[i] = navQueue'[j]
      PROVE  i = j
  <2>1. i + 1 \in 1..Len(navQueue) /\ j + 1 \in 1..Len(navQueue) /\ navQueue[i + 1] = navQueue[j + 1]
    BY <1>6, <1>1
  <2>2. i + 1 = j + 1
    BY <2>1, <1>2
  <2>3. QED
    BY <2>2, <1>1
<1>7. QED
  BY <1>1, <1>3, <1>4, <1>5, <1>6

(* A navigate call: the run is new to everybody when it is recorded.       *)
LEMMA InvNavigate ==
  ASSUME TypeOK, Inv, NEW c \in Callers, Navigate(c) \/ NavigateEnqueue(c)
  PROVE  Inv'
<1> StatesTypeOK /\ TableTypeOK /\ QueueTypeOK /\ ThreadTypeOK /\ Nav2TypeOK
  BY DEF TypeOK
<1> /\ WaitingInv /\ WaitingIsEarly /\ QueuedOnce /\ PendingIsQueued
    /\ \A u \in Threads : ThreadOK(u)
    /\ \A q \in Runs : RunOK(q)
  BY DEF Inv, WaitingInv, GoalInv
<1> USE ThreadSets
<1>1. ASSUME NEW r \in Runs, NavigateRecord(c, r) PROVE Inv'
  <2>1. goalStates[r].state = "absent" /\ c # Dispatcher /\ r # NoRun
    BY <1>1, GoalRunsAssumption DEF NavigateRecord, GoalRunsAssumption
  <2>2. /\ goalStates'[r].state = "PENDING" /\ goalStates'[r].cancelRequested = FALSE
        /\ \A q \in Runs : q # r => goalStates'[q] = goalStates[q]
    BY <1>1, SetRunFacts, EntryTyped, StateSets DEF NavigateRecord
  <2>3. /\ pc'[c] = "enqueue" /\ at'[c] = r
        /\ \A u \in Threads : u # c => pc'[u] = pc[u] /\ at'[u] = at[u]
    BY <1>1, GotoFacts, GoalRunsAssumption DEF NavigateRecord, Labels, GoalRunsAssumption
  <2>4. UNCHANGED <<nav2, goalHandles, navQueue>>
    BY <1>1 DEF NavigateRecord, tableVars
  <2>5. ASSUME NEW u \in Threads PROVE ThreadOK(u)'
    BY <2>1, <2>2, <2>3, <2>4 DEF ThreadOK, ThreadTypeOK
  <2>6. ASSUME NEW q \in Runs PROVE RunOK(q)'
    BY <2>1, <2>2, <2>3, <2>4 DEF RunOK
  <2>7. WaitingInv'
    <3>1. \A q : Queued(q)' <=> Queued(q)
      BY <2>4 DEF Queued
    <3>2. ~Waiting(r)
      BY <2>1 DEF WaitingIsEarly, CanceledBeforeDispatch
    <3>3. \A t \in Threads : \A q \in Runs : Enqueuing(t, q)' <=> Enqueuing(t, q) \/ (t = c /\ q = r)
      BY <2>3, <1>1 DEF Enqueuing, NavigateRecord, Idle
    <3>4. \A q \in Runs : Waiting(q)' <=> Waiting(q) \/ q = r
      BY <3>1, <3>3 DEF Waiting
    <3>5. WaitingIsEarly'
      <4>1. nav2[r] = "none"
        BY <2>1 DEF RunOK
      <4>2. ASSUME NEW q \in Runs, q # r, Waiting(q)
            PROVE  /\ nav2[q] = "none"
                   /\ goalStates[q].state = "PENDING" \/ CanceledBeforeDispatch(q)
        BY <4>2 DEF WaitingIsEarly
      <4>3. QED
        BY <4>1, <4>2, <3>4, <2>2, <2>4 DEF WaitingIsEarly, CanceledBeforeDispatch
    <3>6. QueuedOnce'
      <4>1. \A i, j \in 1..Len(navQueue') : navQueue'[i] = navQueue'[j] => i = j
        BY <2>4 DEF QueuedOnce
      <4>2. \A q \in Runs, t \in Threads : Enqueuing(t, q)' =>
               ~Queued(q)' /\ \A u \in Threads : Enqueuing(u, q)' => u = t
        BY <3>1, <3>2, <3>3 DEF QueuedOnce, Waiting
      <4>3. QED
        BY <4>1, <4>2 DEF QueuedOnce
    <3>7. ASSUME NEW q \in Runs, goalStates'[q].state = "PENDING"
          PROVE  Queued(q)' \/ \E t \in Callers : Enqueuing(t, q)'
      <4>1. CASE q = r
        BY <4>1, <3>3
      <4>2. CASE q # r
        <5>1. Queued(q) \/ \E t \in Callers : Enqueuing(t, q)
          BY <4>2, <3>7, <2>2 DEF PendingIsQueued, Queued, Enqueuing
        <5>2. QED
          BY <5>1, <3>1, <3>3
      <4>3. QED
        BY <4>1, <4>2
    <3>8. PendingIsQueued'
      BY <3>7 DEF PendingIsQueued, Queued, Enqueuing
    <3>9. QED
      BY <3>5, <3>6, <3>8 DEF WaitingInv
  <2>8. QED
    BY <2>5, <2>6, <2>7 DEF Inv, GoalInv
<1>2. CASE NavigateEnqueue(c)
  <2>1. at[c] \in Runs
    BY <1>2, AtRun DEF NavigateEnqueue
  <2>2. /\ pc'[c] = "idle" /\ at'[c] = NoRun
        /\ \A u \in Threads : u # c => pc'[u] = pc[u] /\ at'[u] = at[u]
    BY <1>2, ReturnFacts DEF NavigateEnqueue
  <2>3. UNCHANGED <<nav2, goalHandles, goalStates>>
    BY <1>2 DEF NavigateEnqueue, tableVars
  <2>4. ASSUME NEW u \in Threads PROVE ThreadOK(u)'
    BY <2>1, <2>2, <2>3 DEF ThreadOK, ThreadTypeOK
  <2>5. ASSUME NEW q \in Runs PROVE RunOK(q)'
    BY <2>1, <2>2, <2>3 DEF RunOK
  <2>6. WaitingInv'
    <3>1. \A q : Queued(q)' <=> Queued(q) \/ q = at[c]
      BY <1>2, <2>1, QueueAppended DEF NavigateEnqueue
    <3>2. /\ Enqueuing(c, at[c])
          /\ \A t \in Threads : \A q \in Runs : Enqueuing(t, q)' <=> Enqueuing(t, q) /\ t # c
      BY <1>2, <2>2 DEF Enqueuing, NavigateEnqueue
    <3>3. \A q \in Runs : Waiting(q)' <=> Waiting(q)
      BY <3>1, <3>2, <2>1 DEF Waiting, Enqueuing
    <3>4. WaitingIsEarly'
      BY <3>3, <2>3 DEF WaitingIsEarly, CanceledBeforeDispatch
    <3>5. QueuedOnce'
      <4>1. ~Queued(at[c])
        BY <3>2, <2>1 DEF QueuedOnce
      <4>2. \A i, j \in 1..Len(navQueue') : navQueue'[i] = navQueue'[j] => i = j
        <5>1. /\ Len(navQueue) \in Nat /\ Len(navQueue') = Len(navQueue) + 1
              /\ navQueue'[Len(navQueue) + 1] = at[c]
              /\ \A i \in 1..Len(navQueue) : navQueue'[i] = navQueue[i]
          BY <1>2, <2>1 DEF NavigateEnqueue, QueueTypeOK
        <5>2. \A i, j \in 1..Len(navQueue) : navQueue[i] = navQueue[j] => i = j
          BY DEF QueuedOnce
        <5>3. \A i \in 1..Len(navQueue) : navQueue[i] # at[c]
          BY <4>1 DEF Queued
        <5>4. QED
          BY <5>1, <5>2, <5>3
      <4>3. \A q \in Runs, t \in Threads : Enqueuing(t, q)' =>
               ~Queued(q)' /\ \A u \in Threads : Enqueuing(u, q)' => u = t
        BY <3>1, <3>2, <2>1 DEF QueuedOnce
      <4>4. QED
        BY <4>2, <4>3 DEF QueuedOnce
    <3>6. ASSUME NEW q \in Runs, goalStates'[q].state = "PENDING"
          PROVE  Queued(q)' \/ \E t \in Callers : Enqueuing(t, q)'
      <4>1. Queued(q) \/ \E t \in Callers : Enqueuing(t, q)
        BY <3>6, <2>3 DEF PendingIsQueued, Queued, Enqueuing
      <4>2. QED
        BY <4>1, <3>1, <3>2 DEF Enqueuing
    <3>7. PendingIsQueued'
      BY <3>6 DEF PendingIsQueued, Queued, Enqueuing
    <3>8. QED
      BY <3>4, <3>5, <3>7 DEF WaitingInv
  <2>7. QED
    BY <2>4, <2>5, <2>6 DEF Inv, GoalInv
<1>3. QED
  BY <1>1, <1>2 DEF Navigate

(* A cancel call: only a run that is still waiting is ended at once.       *)
LEMMA InvCancel ==
  ASSUME TypeOK, Inv, NEW c \in Callers, NEW r \in Runs, Cancel(c, r)
  PROVE  Inv'
<1> StatesTypeOK /\ TableTypeOK /\ QueueTypeOK /\ ThreadTypeOK /\ Nav2TypeOK
  BY DEF TypeOK
<1> /\ WaitingInv /\ WaitingIsEarly /\ QueuedOnce /\ PendingIsQueued
    /\ \A u \in Threads : ThreadOK(u)
    /\ \A q \in Runs : RunOK(q)
  BY DEF Inv, WaitingInv, GoalInv
<1> USE ThreadSets
<1>1. CASE CancelPending(c, r)
  <2>1. goalStates[r].state = "PENDING" /\ nav2[r] = "none" /\ r # NoRun /\ pc[c] = "idle"
    BY <1>1, PendingWaits, GoalRunsAssumption DEF CancelPending, CanCancel, Idle, WaitingIsEarly, GoalRunsAssumption
  <2>2. /\ goalStates'[r].state = "CANCELED" /\ goalStates'[r].cancelRequested = TRUE
        /\ \A q \in Runs : q # r => goalStates'[q] = goalStates[q]
    BY <1>1, SetRunFacts, EntryTyped, StateSets, <2>1 DEF CancelPending, StateOnCancel
  <2>3. /\ pc'[c] = "restore" /\ at'[c] = r
        /\ \A u \in Threads : u # c => pc'[u] = pc[u] /\ at'[u] = at[u]
    BY <1>1, GotoFacts, GoalRunsAssumption, <2>1, <2>2 DEF CancelPending, Labels, GoalRunsAssumption
  <2>4. UNCHANGED <<nav2, goalHandles, navQueue>>
    BY <1>1 DEF CancelPending, tableVars
  <2>5. ASSUME NEW u \in Threads PROVE ThreadOK(u)'
    BY <2>1, <2>2, <2>3, <2>4 DEF ThreadOK, ThreadTypeOK
  <2>6. ASSUME NEW q \in Runs PROVE RunOK(q)'
    BY <2>1, <2>2, <2>3, <2>4 DEF RunOK
  <2>7. WaitingInv'
    BY <2>1, <2>2, <2>3, <2>4, WaitingFrame
  <2>8. QED
    BY <2>5, <2>6, <2>7 DEF Inv, GoalInv
<1>2. CASE CancelLatch(c, r)
  <2>1. goalStates[r].state = "RUNNING" /\ ~Waiting(r)
    BY <1>2 DEF CancelLatch, WaitingIsEarly, CanceledBeforeDispatch
  <2>2. /\ goalStates'[r].state = "RUNNING" /\ goalStates'[r].cancelRequested = TRUE
        /\ \A q \in Runs : q # r => goalStates'[q] = goalStates[q]
    BY <1>2, SetRunFacts, EntryTyped, StateSets, <2>1 DEF CancelLatch, StateOnCancel
  <2>3. UNCHANGED <<pc, at, nav2, goalHandles, navQueue>>
    BY <1>2 DEF CancelLatch, tableVars
  <2>4. ASSUME NEW u \in Threads PROVE ThreadOK(u)'
    BY <2>1, <2>2, <2>3 DEF ThreadOK, ThreadTypeOK
  <2>5. ASSUME NEW q \in Runs PROVE RunOK(q)'
    BY <2>1, <2>2, <2>3 DEF RunOK
  <2>6. WaitingInv'
    BY <2>1, <2>2, <2>3, WaitingFrame
  <2>7. QED
    BY <2>4, <2>5, <2>6 DEF Inv, GoalInv
<1>3. CASE CancelSubmit(c, r)
  <2>1. /\ goalStates[r].state = "RUNNING" /\ ~Waiting(r) /\ r # NoRun /\ pc[c] = "idle"
        /\ nav2[r] \in {"active", "canceling"}
    BY <1>3, GoalRunsAssumption DEF CancelSubmit, CanCancel, Idle, RunOK, WaitingIsEarly, CanceledBeforeDispatch, GoalRunsAssumption
  <2>2. /\ goalStates'[r].state = "RUNNING" /\ goalStates'[r].cancelRequested = TRUE
        /\ \A q \in Runs : q # r => goalStates'[q] = goalStates[q]
    BY <1>3, SetRunFacts, EntryTyped, StateSets, <2>1 DEF CancelSubmit
  <2>3. /\ pc'[c] = "issue" /\ at'[c] = r
        /\ \A u \in Threads : u # c => pc'[u] = pc[u] /\ at'[u] = at[u]
    BY <1>3, GotoFacts, GoalRunsAssumption, <2>1, <2>2 DEF CancelSubmit, Labels, GoalRunsAssumption
  <2>4. UNCHANGED <<nav2, goalHandles, navQueue>>
    BY <1>3 DEF CancelSubmit, tableVars
  <2>5. ASSUME NEW u \in Threads PROVE ThreadOK(u)'
    BY <2>1, <2>2, <2>3, <2>4 DEF ThreadOK, ThreadTypeOK
  <2>6. ASSUME NEW q \in Runs PROVE RunOK(q)'
    BY <2>1, <2>2, <2>3, <2>4 DEF RunOK
  <2>7. WaitingInv'
    BY <2>1, <2>2, <2>3, <2>4, WaitingFrame
  <2>8. QED
    BY <2>5, <2>6, <2>7 DEF Inv, GoalInv
<1>4. QED
  BY <1>1, <1>2, <1>3 DEF Cancel

(* A thread that asks Nav2 to cancel, or returns from restoring the speed. *)
LEMMA InvIssue ==
  ASSUME TypeOK, Inv, NEW t \in Threads, IssueStep(t) \/ Restored(t)
  PROVE  Inv'
<1> StatesTypeOK /\ TableTypeOK /\ QueueTypeOK /\ ThreadTypeOK /\ Nav2TypeOK
  BY DEF TypeOK
<1> /\ WaitingInv /\ WaitingIsEarly /\ QueuedOnce /\ PendingIsQueued
    /\ \A u \in Threads : ThreadOK(u)
    /\ \A q \in Runs : RunOK(q)
  BY DEF Inv, WaitingInv, GoalInv
<1> USE ThreadSets
<1>1. CASE IssueCancel(t)
  <2>1. pc[t] = "issue"
    BY <1>1 DEF IssueCancel
  <2>2. /\ pc'[t] = "idle" /\ at'[t] = NoRun
        /\ \A u \in Threads : u # t => pc'[u] = pc[u] /\ at'[u] = at[u]
    BY <1>1, ReturnFacts DEF IssueCancel
  <2>3. UNCHANGED <<goalStates, nav2, goalHandles, navQueue>>
    BY <1>1 DEF IssueCancel, tableVars
  <2>4. ASSUME NEW u \in Threads PROVE ThreadOK(u)'
    BY <2>1, <2>2, <2>3 DEF ThreadOK, ThreadTypeOK
  <2>5. ASSUME NEW q \in Runs PROVE RunOK(q)'
    BY <2>1, <2>2, <2>3 DEF RunOK
  <2>6. WaitingInv'
    BY <2>1, <2>2, <2>3, WaitingFrame
  <2>7. QED
    BY <2>4, <2>5, <2>6 DEF Inv, GoalInv
<1>2. CASE IssueCancelRaises(t)
  <2>1. /\ pc[t] = "issue" /\ at[t] \in Runs /\ goalStates[at[t]].state # "absent"
        /\ nav2[at[t]] \in {"active", "canceling", "ended"} /\ ~Waiting(at[t])
    BY <1>2, AtRun DEF IssueCancelRaises, ThreadOK, WaitingIsEarly
  <2>2. /\ goalStates'[at[t]].state = goalStates[at[t]].state /\ goalStates'[at[t]].cancelRequested = FALSE
        /\ \A q \in Runs : q # at[t] => goalStates'[q] = goalStates[q]
    BY <1>2, SetRunFacts, EntryTyped, StateSets, <2>1 DEF IssueCancelRaises
  <2>3. /\ pc'[t] = "idle" /\ at'[t] = NoRun
        /\ \A u \in Threads : u # t => pc'[u] = pc[u] /\ at'[u] = at[u]
    BY <1>2, ReturnFacts DEF IssueCancelRaises
  <2>4. UNCHANGED <<nav2, goalHandles, navQueue>>
    BY <1>2 DEF IssueCancelRaises, tableVars
  <2>5. goalStates'[at[t]].state # "PENDING"
    BY <1>2, PendingWaits, <2>1, <2>2, <2>3, <2>4 DEF IssueCancelRaises
  <2>6. ASSUME NEW u \in Threads PROVE ThreadOK(u)'
    BY <2>1, <2>2, <2>3, <2>4, <2>5 DEF ThreadOK, ThreadTypeOK
  <2>7. ASSUME NEW q \in Runs PROVE RunOK(q)'
    BY <2>1, <2>2, <2>3, <2>4, <2>5 DEF RunOK
  <2>8. WaitingInv'
    BY <2>1, <2>2, <2>3, <2>4, <2>5, WaitingFrame
  <2>9. QED
    BY <2>6, <2>7, <2>8 DEF Inv, GoalInv
<1>3. CASE Restored(t)
  <2>1. pc[t] = "restore"
    BY <1>3 DEF Restored
  <2>2. /\ pc'[t] = "idle" /\ at'[t] = NoRun
        /\ \A u \in Threads : u # t => pc'[u] = pc[u] /\ at'[u] = at[u]
    BY <1>3, ReturnFacts DEF Restored
  <2>3. UNCHANGED <<goalStates, nav2, goalHandles, navQueue>>
    BY <1>3 DEF Restored, tableVars
  <2>4. ASSUME NEW u \in Threads PROVE ThreadOK(u)'
    BY <2>1, <2>2, <2>3 DEF ThreadOK, ThreadTypeOK
  <2>5. ASSUME NEW q \in Runs PROVE RunOK(q)'
    BY <2>1, <2>2, <2>3 DEF RunOK
  <2>6. WaitingInv'
    BY <2>1, <2>2, <2>3, WaitingFrame
  <2>7. QED
    BY <2>4, <2>5, <2>6 DEF Inv, GoalInv
<1>4. QED
  BY <1>1, <1>2, <1>3 DEF IssueStep

(* A step of the rclpy thread: it claims a run that waits, and only once.  *)
LEMMA InvDispatch ==
  ASSUME TypeOK, Inv, DispatcherStep
  PROVE  Inv'
<1> StatesTypeOK /\ TableTypeOK /\ QueueTypeOK /\ ThreadTypeOK /\ Nav2TypeOK
  BY DEF TypeOK
<1> /\ WaitingInv /\ WaitingIsEarly /\ QueuedOnce /\ PendingIsQueued
    /\ \A u \in Threads : ThreadOK(u)
    /\ \A q \in Runs : RunOK(q)
  BY DEF Inv, WaitingInv, GoalInv
<1> USE ThreadSets
<1>1. CASE DispatchSkip
  <2>1. /\ Head(navQueue) \in Runs
        /\ goalStates[Head(navQueue)].state = "CANCELED"
    BY <1>1, QueueTaken DEF DispatchSkip, CanceledBeforeDispatch
  <2>2. UNCHANGED <<goalStates, pc, at, nav2, goalHandles>>
    BY <1>1 DEF DispatchSkip, tableVars
  <2>3. ASSUME NEW u \in Threads PROVE ThreadOK(u)'
    BY <2>1, <2>2 DEF ThreadOK, ThreadTypeOK
  <2>4. ASSUME NEW q \in Runs PROVE RunOK(q)'
    BY <2>1, <2>2 DEF RunOK
  <2>5. WaitingInv'
    <3>1. /\ \A q : Queued(q)' <=> Queued(q) /\ q # Head(navQueue)
          /\ Queued(Head(navQueue))
          /\ \A i, j \in 1..Len(navQueue') : navQueue'[i] = navQueue'[j] => i = j
      BY <1>1, QueueTaken DEF DispatchSkip
    <3>2. \A t \in Threads : \A q \in Runs : Enqueuing(t, q)' <=> Enqueuing(t, q)
      BY <2>1, <2>2, <1>1 DEF Enqueuing, Idle, DispatchSkip
    <3>3. \A q \in Runs : Waiting(q)' <=> Waiting(q) /\ q # Head(navQueue)
      BY <3>1, <3>2 DEF Waiting, QueuedOnce
    <3>4. WaitingIsEarly'
      BY <3>3, <2>1, <2>2 DEF WaitingIsEarly, CanceledBeforeDispatch
    <3>5. QueuedOnce'
      <4>1. \A q \in Runs, t \in Threads : Enqueuing(t, q)' =>
               ~Queued(q)' /\ \A u \in Threads : Enqueuing(u, q)' => u = t
        BY <3>1, <3>2 DEF QueuedOnce
      <4>2. QED
        BY <3>1, <4>1 DEF QueuedOnce
    <3>6. ASSUME NEW q \in Runs, goalStates'[q].state = "PENDING"
          PROVE  Queued(q)' \/ \E t \in Callers : Enqueuing(t, q)'
      <4>1. q # Head(navQueue) /\ goalStates[q].state = "PENDING"
        BY <3>6, <2>1, <2>2
      <4>2. Queued(q) \/ \E t \in Callers : Enqueuing(t, q)
        BY <4>1 DEF PendingIsQueued, Queued, Enqueuing
      <4>3. QED
        BY <4>1, <4>2, <3>1, <3>2
    <3>7. PendingIsQueued'
      BY <3>6 DEF PendingIsQueued, Queued, Enqueuing
    <3>8. QED
      BY <3>4, <3>5, <3>7 DEF WaitingInv
  <2>6. QED
    BY <2>3, <2>4, <2>5 DEF Inv, GoalInv
<1>2. CASE DispatchClaim
  <2>1. /\ Head(navQueue) \in Runs /\ Head(navQueue) # NoRun /\ pc[Dispatcher] = "idle"
        /\ Waiting(Head(navQueue)) /\ nav2[Head(navQueue)] = "none"
    BY <1>2, QueueTaken, GoalRunsAssumption DEF DispatchClaim, Idle, Waiting, WaitingIsEarly, GoalRunsAssumption
  <2>2. /\ goalStates'[Head(navQueue)].state = "RUNNING" /\ goalStates'[Head(navQueue)].cancelRequested = CarriedCancel(Head(navQueue))
        /\ \A q \in Runs : q # Head(navQueue) => goalStates'[q] = goalStates[q]
    BY <1>2, SetRunFacts, EntryTyped, StateSets, <2>1 DEF DispatchClaim
  <2>3. /\ pc'[Dispatcher] = "claimed" /\ at'[Dispatcher] = Head(navQueue)
        /\ \A u \in Threads : u # Dispatcher => pc'[u] = pc[u] /\ at'[u] = at[u]
    BY <1>2, GotoFacts, GoalRunsAssumption, <2>1, <2>2 DEF DispatchClaim, Labels, GoalRunsAssumption
  <2>4. UNCHANGED <<nav2, goalHandles>>
    BY <1>2 DEF DispatchClaim, tableVars
  <2>5. ASSUME NEW u \in Threads PROVE ThreadOK(u)'
    BY <2>1, <2>2, <2>3, <2>4 DEF ThreadOK, ThreadTypeOK
  <2>6. ASSUME NEW q \in Runs PROVE RunOK(q)'
    BY <2>1, <2>2, <2>3, <2>4 DEF RunOK
  <2>7. WaitingInv'
    <3>1. /\ \A q : Queued(q)' <=> Queued(q) /\ q # Head(navQueue)
          /\ Queued(Head(navQueue))
          /\ \A i, j \in 1..Len(navQueue') : navQueue'[i] = navQueue'[j] => i = j
      BY <1>2, QueueTaken DEF DispatchClaim
    <3>2. \A t \in Threads : \A q \in Runs : Enqueuing(t, q)' <=> Enqueuing(t, q)
      BY <2>1, <2>2, <2>3, <2>4, <1>2 DEF Enqueuing, Idle, DispatchClaim
    <3>3. \A q \in Runs : Waiting(q)' <=> Waiting(q) /\ q # Head(navQueue)
      BY <3>1, <3>2 DEF Waiting, QueuedOnce
    <3>4. WaitingIsEarly'
      BY <3>3, <2>1, <2>2, <2>3, <2>4 DEF WaitingIsEarly, CanceledBeforeDispatch
    <3>5. QueuedOnce'
      <4>1. \A q \in Runs, t \in Threads : Enqueuing(t, q)' =>
               ~Queued(q)' /\ \A u \in Threads : Enqueuing(u, q)' => u = t
        BY <3>1, <3>2 DEF QueuedOnce
      <4>2. QED
        BY <3>1, <4>1 DEF QueuedOnce
    <3>6. ASSUME NEW q \in Runs, goalStates'[q].state = "PENDING"
          PROVE  Queued(q)' \/ \E t \in Callers : Enqueuing(t, q)'
      <4>1. q # Head(navQueue) /\ goalStates[q].state = "PENDING"
        BY <3>6, <2>1, <2>2, <2>3, <2>4
      <4>2. Queued(q) \/ \E t \in Callers : Enqueuing(t, q)
        BY <4>1 DEF PendingIsQueued, Queued, Enqueuing
      <4>3. QED
        BY <4>1, <4>2, <3>1, <3>2
    <3>7. PendingIsQueued'
      BY <3>6 DEF PendingIsQueued, Queued, Enqueuing
    <3>8. QED
      BY <3>4, <3>5, <3>7 DEF WaitingInv
  <2>8. QED
    BY <2>5, <2>6, <2>7 DEF Inv, GoalInv
<1>3. CASE DispatchNotReady
  <2>1. /\ pc[Dispatcher] = "claimed" /\ at[Dispatcher] \in Runs /\ at[Dispatcher] # NoRun
        /\ goalStates[at[Dispatcher]].state = "RUNNING" /\ nav2[at[Dispatcher]] = "none"
        /\ ~Waiting(at[Dispatcher])
    BY <1>3, AtRun, GoalRunsAssumption DEF DispatchNotReady, ThreadOK, WaitingIsEarly, CanceledBeforeDispatch, GoalRunsAssumption
  <2>2. /\ goalStates'[at[Dispatcher]].state = "FAILED" /\ goalStates'[at[Dispatcher]].cancelRequested = FALSE
        /\ \A q \in Runs : q # at[Dispatcher] => goalStates'[q] = goalStates[q]
    BY <1>3, SetRunFacts, EntryTyped, StateSets, <2>1 DEF DispatchNotReady
  <2>3. /\ pc'[Dispatcher] = "restore" /\ at'[Dispatcher] = at[Dispatcher]
        /\ \A u \in Threads : u # Dispatcher => pc'[u] = pc[u] /\ at'[u] = at[u]
    BY <1>3, GotoFacts, GoalRunsAssumption, <2>1, <2>2 DEF DispatchNotReady, Labels, GoalRunsAssumption
  <2>4. UNCHANGED <<nav2, goalHandles, navQueue>>
    BY <1>3 DEF DispatchNotReady, tableVars
  <2>5. ASSUME NEW u \in Threads PROVE ThreadOK(u)'
    BY <2>1, <2>2, <2>3, <2>4 DEF ThreadOK, ThreadTypeOK
  <2>6. ASSUME NEW q \in Runs PROVE RunOK(q)'
    BY <2>1, <2>2, <2>3, <2>4 DEF RunOK
  <2>7. WaitingInv'
    BY <2>1, <2>2, <2>3, <2>4, WaitingFrame
  <2>8. QED
    BY <2>5, <2>6, <2>7 DEF Inv, GoalInv
<1>4. CASE DispatchSend
  <2>1. /\ pc[Dispatcher] = "claimed" /\ at[Dispatcher] \in Runs /\ at[Dispatcher] # NoRun
        /\ goalStates[at[Dispatcher]].state = "RUNNING" /\ nav2[at[Dispatcher]] = "none"
        /\ ~Waiting(at[Dispatcher])
    BY <1>4, AtRun, GoalRunsAssumption DEF DispatchSend, ThreadOK, WaitingIsEarly, CanceledBeforeDispatch, GoalRunsAssumption
  <2>2. /\ nav2'[at[Dispatcher]] = "sent"
        /\ \A q \in Runs : q # at[Dispatcher] => nav2'[q] = nav2[q]
    BY <1>4, <2>1 DEF DispatchSend, Nav2TypeOK
  <2>3. /\ pc'[Dispatcher] = "sent" /\ at'[Dispatcher] = at[Dispatcher]
        /\ \A u \in Threads : u # Dispatcher => pc'[u] = pc[u] /\ at'[u] = at[u]
    BY <1>4, GotoFacts, GoalRunsAssumption, <2>1, <2>2 DEF DispatchSend, Labels, GoalRunsAssumption
  <2>4. UNCHANGED <<goalStates, goalHandles, navQueue>>
    BY <1>4 DEF DispatchSend, tableVars
  <2>5. ASSUME NEW u \in Threads PROVE ThreadOK(u)'
    BY <2>1, <2>2, <2>3, <2>4 DEF ThreadOK, ThreadTypeOK
  <2>6. ASSUME NEW q \in Runs PROVE RunOK(q)'
    BY <2>1, <2>2, <2>3, <2>4 DEF RunOK
  <2>7. WaitingInv'
    BY <2>1, <2>2, <2>3, <2>4, WaitingFrame
  <2>8. QED
    BY <2>5, <2>6, <2>7 DEF Inv, GoalInv
<1>5. CASE DispatchSent
  <2>1. /\ pc[Dispatcher] = "sent" /\ at[Dispatcher] \in Runs
        /\ nav2[at[Dispatcher]] = "sent" /\ goalStates[at[Dispatcher]].state = "RUNNING"
        /\ ~Waiting(at[Dispatcher])
    BY <1>5, AtRun DEF DispatchSent, ThreadOK, RunOK, WaitingIsEarly
  <2>2. /\ goalStates'[at[Dispatcher]].state = "RUNNING" /\ goalStates'[at[Dispatcher]].cancelRequested = CarriedCancel(at[Dispatcher])
        /\ \A q \in Runs : q # at[Dispatcher] => goalStates'[q] = goalStates[q]
    BY <1>5, SetRunFacts, EntryTyped, StateSets, <2>1 DEF DispatchSent
  <2>3. /\ pc'[Dispatcher] = "idle" /\ at'[Dispatcher] = NoRun
        /\ \A u \in Threads : u # Dispatcher => pc'[u] = pc[u] /\ at'[u] = at[u]
    BY <1>5, ReturnFacts DEF DispatchSent
  <2>4. UNCHANGED <<nav2, goalHandles, navQueue>>
    BY <1>5 DEF DispatchSent, tableVars
  <2>5. ASSUME NEW u \in Threads PROVE ThreadOK(u)'
    BY <2>1, <2>2, <2>3, <2>4 DEF ThreadOK, ThreadTypeOK
  <2>6. ASSUME NEW q \in Runs PROVE RunOK(q)'
    BY <2>1, <2>2, <2>3, <2>4 DEF RunOK
  <2>7. WaitingInv'
    BY <2>1, <2>2, <2>3, <2>4, WaitingFrame
  <2>8. QED
    BY <2>5, <2>6, <2>7 DEF Inv, GoalInv
<1>6. QED
  BY <1>1, <1>2, <1>3, <1>4, <1>5 DEF DispatcherStep

(* A callback about a goal: it follows the dispatch of the goal's run.     *)
LEMMA InvExecutor ==
  ASSUME TypeOK, Inv, ExecutorStep
  PROVE  Inv'
<1> StatesTypeOK /\ TableTypeOK /\ QueueTypeOK /\ ThreadTypeOK /\ Nav2TypeOK
  BY DEF TypeOK
<1> /\ WaitingInv /\ WaitingIsEarly /\ QueuedOnce /\ PendingIsQueued
    /\ \A u \in Threads : ThreadOK(u)
    /\ \A q \in Runs : RunOK(q)
  BY DEF Inv, WaitingInv, GoalInv
<1> USE ThreadSets
<1>1. ASSUME NEW r \in Runs, GoalRefused(r) PROVE Inv'
  <2>1. /\ pc[Executor] = "idle" /\ nav2[r] = "sent" /\ r # NoRun
        /\ ~(pc[Dispatcher] = "sent" /\ at[Dispatcher] = r)
        /\ goalStates[r].state = "RUNNING" /\ ~Waiting(r)
    BY <1>1, GoalRunsAssumption DEF GoalRefused, GoalAnswered, Idle, RunOK, WaitingIsEarly, GoalRunsAssumption
  <2>2. /\ RefusedState(r) \in Terminal \ {"PENDING", "absent"}
        /\ goalStates'[r].state = RefusedState(r) /\ goalStates'[r].cancelRequested = FALSE
        /\ \A q \in Runs : q # r => goalStates'[q] = goalStates[q]
    BY <1>1, SetRunFacts, EntryTyped, StateSets DEF GoalRefused, RefusedState, Terminal
  <2>3. /\ pc'[Executor] = "restore" /\ at'[Executor] = r
        /\ \A u \in Threads : u # Executor => pc'[u] = pc[u] /\ at'[u] = at[u]
    BY <1>1, GotoFacts, GoalRunsAssumption, <2>1, <2>2 DEF GoalRefused, Labels, GoalRunsAssumption
  <2>4. /\ nav2'[r] = "ended"
        /\ \A q \in Runs : q # r => nav2'[q] = nav2[q]
        /\ UNCHANGED <<goalHandles, navQueue>>
    BY <1>1 DEF GoalRefused, Nav2TypeOK
  <2>5. ASSUME NEW u \in Threads PROVE ThreadOK(u)'
    BY <2>1, <2>2, <2>3, <2>4 DEF ThreadOK, ThreadTypeOK, Terminal
  <2>6. ASSUME NEW q \in Runs PROVE RunOK(q)'
    BY <2>1, <2>2, <2>3, <2>4 DEF RunOK
  <2>7. WaitingInv'
    BY <2>1, <2>2, <2>3, <2>4, WaitingFrame
  <2>8. QED
    BY <2>5, <2>6, <2>7 DEF Inv, GoalInv
<1>2. ASSUME NEW r \in Runs, GoalAccepted(r) PROVE Inv'
  <2>1. /\ pc[Executor] = "idle" /\ nav2[r] = "sent" /\ r # NoRun
        /\ ~(pc[Dispatcher] = "sent" /\ at[Dispatcher] = r)
        /\ goalStates[r].state = "RUNNING" /\ ~Waiting(r)
    BY <1>2, GoalRunsAssumption DEF GoalAccepted, GoalAnswered, Idle, RunOK, WaitingIsEarly, GoalRunsAssumption
  <2>2. /\ goalStates'[r].state = "RUNNING" /\ goalStates'[r].cancelRequested = CarriedCancel(r)
        /\ \A q \in Runs : q # r => goalStates'[q] = goalStates[q]
    BY <1>2, SetRunFacts, EntryTyped, StateSets DEF GoalAccepted
  <2>3. /\ \/ pc'[Executor] = "issue" /\ at'[Executor] = r
           \/ pc'[Executor] = pc[Executor] /\ at'[Executor] = at[Executor]
        /\ \A u \in Threads : u # Executor => pc'[u] = pc[u] /\ at'[u] = at[u]
    BY <1>2, GotoFacts, GoalRunsAssumption, <2>1, <2>2 DEF GoalAccepted, Labels, GoalRunsAssumption
  <2>4. /\ nav2'[r] = "active"
        /\ \A q \in Runs : q # r => nav2'[q] = nav2[q]
        /\ goalHandles' = goalHandles \cup {r} /\ UNCHANGED navQueue
    BY <1>2 DEF GoalAccepted, Nav2TypeOK
  <2>5. ASSUME NEW u \in Threads PROVE ThreadOK(u)'
    BY <2>1, <2>2, <2>3, <2>4 DEF ThreadOK, ThreadTypeOK
  <2>6. ASSUME NEW q \in Runs PROVE RunOK(q)'
    BY <2>1, <2>2, <2>3, <2>4 DEF RunOK
  <2>7. WaitingInv'
    BY <2>1, <2>2, <2>3, <2>4, WaitingFrame
  <2>8. QED
    BY <2>5, <2>6, <2>7 DEF Inv, GoalInv
<1>3. ASSUME NEW r \in Runs, NEW s \in ResultStatuses, Result(r, s) PROVE Inv'
  <2>1. pc[Executor] = "idle" /\ nav2[r] \in {"active", "canceling"} /\ r # NoRun /\ ~Waiting(r)
    BY <1>3, GoalRunsAssumption DEF Result, Idle, WaitingIsEarly, GoalRunsAssumption
  <2>2. /\ CanonicalState(s) \in {"RUNNING", "SUCCEEDED", "FAILED", "CANCELED"}
        /\ goalStates'[r].state = CanonicalState(s) /\ goalStates'[r].cancelRequested = FALSE
        /\ \A q \in Runs : q # r => goalStates'[q] = goalStates[q]
    BY <1>3, SetRunFacts, EntryTyped, StateSets DEF Result, Terminal
  <2>3. /\ pc'[Executor] = "restore" /\ at'[Executor] = r
        /\ \A u \in Threads : u # Executor => pc'[u] = pc[u] /\ at'[u] = at[u]
    BY <1>3, GotoFacts, GoalRunsAssumption, <2>1, <2>2 DEF Result, Labels, GoalRunsAssumption
  <2>4. /\ nav2'[r] = "ended"
        /\ \A q \in Runs : q # r => nav2'[q] = nav2[q]
        /\ goalHandles' = goalHandles \ {r} /\ UNCHANGED navQueue
    BY <1>3 DEF Result, Nav2TypeOK
  <2>5. ASSUME NEW u \in Threads PROVE ThreadOK(u)'
    BY <2>1, <2>2, <2>3, <2>4 DEF ThreadOK, ThreadTypeOK
  <2>6. ASSUME NEW q \in Runs PROVE RunOK(q)'
    BY <2>1, <2>2, <2>3, <2>4 DEF RunOK
  <2>7. WaitingInv'
    BY <2>1, <2>2, <2>3, <2>4, WaitingFrame
  <2>8. QED
    BY <2>5, <2>6, <2>7 DEF Inv, GoalInv
<1>4. QED
  BY <1>1, <1>2, <1>3 DEF ExecutorStep

(* Nav2 looks at a cancel request, or its answer is recorded.              *)
LEMMA InvEnvironment ==
  ASSUME TypeOK, Inv, Environment
  PROVE  Inv'
<1> StatesTypeOK /\ TableTypeOK /\ QueueTypeOK /\ ThreadTypeOK /\ Nav2TypeOK
  BY DEF TypeOK
<1> /\ WaitingInv /\ WaitingIsEarly /\ QueuedOnce /\ PendingIsQueued
    /\ \A u \in Threads : ThreadOK(u)
    /\ \A q \in Runs : RunOK(q)
  BY DEF Inv, WaitingInv, GoalInv
<1> USE ThreadSets
<1>1. ASSUME NEW r \in Runs, Nav2Cancel(r) PROVE Inv'
  <2>1. \/ UNCHANGED nav2
        \/ nav2[r] = "active" /\ nav2' = [nav2 EXCEPT ![r] = "canceling"]
    BY <1>1 DEF Nav2Cancel
  <2>2. \A q \in Runs :
          \/ nav2'[q] = nav2[q]
          \/ nav2[q] = "active" /\ nav2'[q] = "canceling" /\ ~Waiting(q)
                         /\ goalStates[q].state = "RUNNING"
    BY <1>1, <2>1 DEF Nav2TypeOK, WaitingIsEarly, RunOK
  <2>3. UNCHANGED <<goalStates, pc, at, goalHandles, navQueue>>
    BY <1>1 DEF Nav2Cancel, tableVars
  <2>4. \A q \in Runs : nav2'[q] # nav2[q] => goalStates'[q].state # "PENDING"
    BY <1>1, <2>1, <2>2, <2>3 DEF Nav2Cancel
  <2>5. ASSUME NEW u \in Threads PROVE ThreadOK(u)'
    BY <2>1, <2>2, <2>3, <2>4 DEF ThreadOK, ThreadTypeOK
  <2>6. ASSUME NEW q \in Runs PROVE RunOK(q)'
    BY <2>1, <2>2, <2>3, <2>4 DEF RunOK
  <2>7. WaitingInv'
    BY <2>1, <2>2, <2>3, <2>4, WaitingFrame
  <2>8. QED
    BY <2>5, <2>6, <2>7 DEF Inv, GoalInv
<1>2. ASSUME NEW r \in Runs, CancelGranted(r) PROVE Inv'
  <2>1. \/ UNCHANGED goalStates
        \/ goalStates[r].state = "RUNNING" /\ SetRun(r, "RUNNING", TRUE)
    BY <1>2 DEF CancelGranted, RecordCancelAnswer
  <2>2. \A q \in Runs :
          \/ goalStates'[q] = goalStates[q]
          \/ goalStates[q].state = "RUNNING" /\ goalStates'[q].state = "RUNNING" /\ ~Waiting(q)
    BY <1>2, <2>1, SetRunFacts, StateSets, RunningIsNotWaiting DEF StatesTypeOK
  <2>3. UNCHANGED <<nav2, pc, at, goalHandles, navQueue>>
    BY <1>2 DEF CancelGranted, tableVars
  <2>4. ASSUME NEW u \in Threads PROVE ThreadOK(u)'
    BY <2>1, <2>2, <2>3 DEF ThreadOK, ThreadTypeOK
  <2>5. ASSUME NEW q \in Runs PROVE RunOK(q)'
    BY <2>1, <2>2, <2>3 DEF RunOK
  <2>6. WaitingInv'
    BY <2>1, <2>2, <2>3, WaitingFrame
  <2>7. QED
    BY <2>4, <2>5, <2>6 DEF Inv, GoalInv
<1>3. ASSUME NEW r \in Runs, CancelRefused(r) PROVE Inv'
  <2>1. \/ UNCHANGED goalStates
        \/ goalStates[r].state = "RUNNING" /\ SetRun(r, "RUNNING", FALSE)
    BY <1>3 DEF CancelRefused, RecordCancelAnswer
  <2>2. \A q \in Runs :
          \/ goalStates'[q] = goalStates[q]
          \/ goalStates[q].state = "RUNNING" /\ goalStates'[q].state = "RUNNING" /\ ~Waiting(q)
    BY <1>3, <2>1, SetRunFacts, StateSets, RunningIsNotWaiting DEF StatesTypeOK
  <2>3. UNCHANGED <<nav2, pc, at, goalHandles, navQueue>>
    BY <1>3 DEF CancelRefused, tableVars
  <2>4. ASSUME NEW u \in Threads PROVE ThreadOK(u)'
    BY <2>1, <2>2, <2>3 DEF ThreadOK, ThreadTypeOK
  <2>5. ASSUME NEW q \in Runs PROVE RunOK(q)'
    BY <2>1, <2>2, <2>3 DEF RunOK
  <2>6. WaitingInv'
    BY <2>1, <2>2, <2>3, WaitingFrame
  <2>7. QED
    BY <2>4, <2>5, <2>6 DEF Inv, GoalInv
<1>4. QED
  BY <1>1, <1>2, <1>3 DEF Environment

-----------------------------------------------------------------------------
LEMMA InvInit ==
  ASSUME Init
  PROVE  Inv
<1>1. WaitingInv
  BY DEF Init, WaitingInv, WaitingIsEarly, QueuedOnce, PendingIsQueued, Waiting, Queued, Enqueuing
<1>2. GoalInv
  BY DEF Init, GoalInv, ThreadOK, RunOK
<1>3. QED
  BY <1>1, <1>2 DEF Inv

(* Steps that touch nothing the invariant speaks about.                    *)
LEMMA InvUntouched ==
  ASSUME Inv, UNCHANGED <<goalStates, goalHandles, navQueue, pc, at, nav2>>
  PROVE  Inv'
<1>1. \A r \in Runs : Waiting(r)' <=> Waiting(r)
  BY DEF Waiting, Queued, Enqueuing
<1>2. WaitingIsEarly'
  BY <1>1 DEF Inv, WaitingInv, WaitingIsEarly, CanceledBeforeDispatch
<1>3. QueuedOnce' /\ PendingIsQueued'
  BY DEF Inv, WaitingInv, QueuedOnce, PendingIsQueued, Queued, Enqueuing
<1>4. GoalInv'
  BY DEF Inv, GoalInv, ThreadOK, RunOK
<1>5. QED
  BY <1>2, <1>3, <1>4 DEF Inv, WaitingInv

LEMMA InvStep ==
  ASSUME TypeOK, Inv, [Next]_goalVars
  PROVE  Inv'
<1>1. CASE UNCHANGED goalVars \/ BringupStep
  BY <1>1, InvUntouched DEF goalVars, tableVars, BringupStep, NodeUp, WaitForAction
<1>2. ASSUME NEW c \in Callers, HandlerStep(c) PROVE Inv'
  <2>1. CASE Navigate(c) \/ NavigateEnqueue(c)
    BY <2>1, InvNavigate
  <2>2. CASE CancelCall(c)
    BY <2>2, CancelCallRun, InvCancel
  <2>3. QED
    BY <1>2, <2>1, <2>2 DEF HandlerStep
<1>3. QED
  BY <1>1, <1>2, InvIssue, InvDispatch, InvExecutor, InvEnvironment DEF Next

(* The inductive invariant holds.                                          *)
THEOREM InvCorrect == Spec => []Inv
<1>1. Init => TypeOK /\ Inv
  BY TypeInit, InvInit
<1>2. TypeOK /\ Inv /\ [Next]_goalVars => TypeOK' /\ Inv'
  BY TypeStep, InvStep
<1>3. QED
  BY <1>1, <1>2, PTL DEF Spec

(* No run is accepted and then forgotten (navigate, _dispatch_goal).       *)
THEOREM PendingQueued == Spec => []PendingIsQueued
<1>1. Inv => PendingIsQueued
  BY DEF Inv, WaitingInv
<1>2. QED
  BY <1>1, InvCorrect, PTL

(* A final status never belongs to a goal Nav2 has or will be given.       *)
THEOREM NoEarlyTerminalCorrect == Spec => []NoEarlyTerminal
<1>1. ASSUME TypeOK, Inv, NEW r \in Runs, IsTerminal(r) PROVE nav2[r] \in {"none", "ended"}
  BY <1>1 DEF TypeOK, Nav2TypeOK, Inv, GoalInv, RunOK, IsTerminal, Terminal
<1>2. ASSUME TypeOK, Inv, NEW r \in Runs, IsTerminal(r), NEW t \in Threads, at[t] = r
      PROVE  pc[t] \in {"enqueue", "restore", "issue"}
  <2>1. pc[t] \in Labels \ {"idle"}
    BY <1>2, GoalRunsAssumption DEF TypeOK, ThreadTypeOK, GoalRunsAssumption
  <2>2. pc[t] # "claimed" /\ pc[t] # "sent"
    BY <1>1, <1>2 DEF Inv, GoalInv, ThreadOK, IsTerminal, Terminal
  <2>3. QED
    BY <2>1, <2>2 DEF Labels
<1>3. TypeOK /\ Inv => NoEarlyTerminal
  BY <1>1, <1>2 DEF NoEarlyTerminal
<1>4. QED
  BY <1>3, TypeCorrect, InvCorrect, PTL

-----------------------------------------------------------------------------
(* A step writes the entry of one run, and an ended run's entry is only    *)
(* written by a thread that repeats the state it finds there.              *)
LEMMA FinalWrite ==
  ASSUME StatesTypeOK, NEW r \in Runs, NEW s \in RunStates, NEW b \in BOOLEAN, SetRun(r, s, b),
         ~IsTerminal(r) \/ s = goalStates[r].state
  PROVE  \A q \in Runs : IsTerminal(q) => goalStates'[q].state = goalStates[q].state
  BY SetRunFacts

LEMMA FinalStep ==
  ASSUME TypeOK, Inv, [Next]_goalVars, NEW q \in Runs, IsTerminal(q)
  PROVE  goalStates'[q].state = goalStates[q].state
<1> StatesTypeOK /\ ThreadTypeOK /\ QueueTypeOK
  BY DEF TypeOK
<1> /\ WaitingIsEarly /\ QueuedOnce
    /\ \A u \in Threads : ThreadOK(u)
    /\ \A r \in Runs : RunOK(r)
  BY DEF Inv, WaitingInv, GoalInv
<1> USE ThreadSets
<1>1. CASE UNCHANGED goalStates
  BY <1>1
<1>2. ASSUME NEW c \in Callers, NEW r \in Runs, NavigateRecord(c, r) \/ Cancel(c, r)
      PROVE  goalStates'[q].state = goalStates[q].state
  <2>1. ~IsTerminal(r)
    BY <1>2 DEF NavigateRecord, Cancel, CancelPending, CancelLatch, CancelSubmit, CanCancel,
                ActiveRuns, IsTerminal, Terminal
  <2>2. \E s \in RunStates, b \in BOOLEAN : SetRun(r, s, b)
    BY <1>2, EntryTyped, StateSets DEF NavigateRecord, Cancel, CancelPending, CancelLatch, CancelSubmit
  <2>3. QED
    BY <2>1, <2>2, FinalWrite
<1>3. ASSUME NEW t \in Threads, IssueCancelRaises(t)
      PROVE  goalStates'[q].state = goalStates[q].state
  BY <1>3, AtRun, EntryTyped, FinalWrite DEF IssueCancelRaises
<1>4. CASE DispatchClaim
  <2>1. Head(navQueue) \in Runs /\ Waiting(Head(navQueue)) /\ ~CanceledBeforeDispatch(Head(navQueue))
    BY <1>4, QueueTaken DEF DispatchClaim, Waiting
  <2>2. ~IsTerminal(Head(navQueue))
    BY <2>1 DEF WaitingIsEarly, IsTerminal, Terminal
  <2>3. \E b \in BOOLEAN : SetRun(Head(navQueue), "RUNNING", b)
    BY <1>4, <2>1, EntryTyped DEF DispatchClaim
  <2>4. QED
    BY <2>1, <2>2, <2>3, StateSets, FinalWrite
<1>5. CASE DispatchNotReady \/ DispatchSent
  <2>1. at[Dispatcher] \in Runs /\ goalStates[at[Dispatcher]].state = "RUNNING"
    BY <1>5, AtRun DEF DispatchNotReady, DispatchSent, ThreadOK, RunOK
  <2>2. \E s \in RunStates, b \in BOOLEAN : SetRun(at[Dispatcher], s, b)
    BY <1>5, <2>1, EntryTyped, StateSets DEF DispatchNotReady, DispatchSent
  <2>3. QED
    BY <2>1, <2>2, FinalWrite DEF IsTerminal, Terminal
<1>6. ASSUME NEW r \in Runs,
             GoalRefused(r) \/ GoalAccepted(r) \/ \E s \in ResultStatuses : Result(r, s)
      PROVE  goalStates'[q].state = goalStates[q].state
  <2>1. goalStates[r].state = "RUNNING"
    BY <1>6 DEF GoalRefused, GoalAccepted, GoalAnswered, Result, RunOK
  <2>2. \E s \in RunStates, b \in BOOLEAN : SetRun(r, s, b)
    BY <1>6, EntryTyped, StateSets DEF GoalRefused, GoalAccepted, Result
  <2>3. QED
    BY <2>1, <2>2, FinalWrite DEF IsTerminal, Terminal
<1>7. ASSUME NEW r \in Runs, CancelGranted(r) \/ CancelRefused(r)
      PROVE  goalStates'[q].state = goalStates[q].state
  <2>1. \/ UNCHANGED goalStates
        \/ \E b \in BOOLEAN : goalStates[r].state = "RUNNING" /\ SetRun(r, "RUNNING", b)
    BY <1>7 DEF CancelGranted, CancelRefused, RecordCancelAnswer
  <2>2. QED
    BY <2>1, StateSets, FinalWrite DEF IsTerminal, Terminal
<1>8. CASE UNCHANGED goalVars \/ BringupStep
  BY <1>8, <1>1 DEF goalVars, tableVars, BringupStep, NodeUp, WaitForAction
<1>9. ASSUME NEW c \in Callers, HandlerStep(c)
      PROVE  goalStates'[q].state = goalStates[q].state
  <2>1. CASE Navigate(c) \/ CancelCall(c)
    BY <2>1, <1>2, CancelCallRun DEF Navigate
  <2>2. CASE NavigateEnqueue(c)
    BY <2>2, <1>1 DEF NavigateEnqueue, tableVars
  <2>3. QED
    BY <1>9, <2>1, <2>2 DEF HandlerStep
<1>10. CASE DispatcherStep
  <2>1. CASE DispatchSkip \/ DispatchSend
    BY <2>1, <1>1 DEF DispatchSkip, DispatchSend, tableVars
  <2>2. QED
    BY <1>10, <2>1, <1>4, <1>5 DEF DispatcherStep
<1>11. ASSUME NEW t \in Threads, IssueStep(t) \/ Restored(t)
       PROVE  goalStates'[q].state = goalStates[q].state
  BY <1>11, <1>1, <1>3 DEF IssueStep, IssueCancel, Restored, tableVars
<1>12. CASE Environment
  <2>1. ASSUME NEW r \in Runs, Nav2Cancel(r) PROVE UNCHANGED goalStates
    BY <2>1 DEF Nav2Cancel, tableVars
  <2>2. QED
    BY <1>12, <1>1, <1>7, <2>1 DEF Environment
<1>13. QED
  BY <1>6, <1>8, <1>9, <1>10, <1>11, <1>12 DEF Next, ExecutorStep

(* What status answered for an ended run never changes.                    *)
THEOREM TerminalFinal == Spec => TerminalIsFinal
<1>1. TypeOK /\ Inv /\ [Next]_goalVars =>
        [\A r \in Runs : IsTerminal(r) => goalStates'[r].state = goalStates[r].state]_goalVars
  BY FinalStep
<1>2. QED
  BY <1>1, TypeCorrect, InvCorrect, PTL DEF Spec, TerminalIsFinal

-----------------------------------------------------------------------------
(* Where a cancel of a run stands: Nav2 is asked to cancel a goal only     *)
(* after it was given it, and grants a cancel by beginning to cancel.      *)
CancelOK(r) ==
  /\ r \in goalHandles /\ goalStates[r].cancelRequested => CancelUnderWay(r)
  /\ r \in granted => nav2[r] \in {"canceling", "ended"}
  /\ asked[r] > 0 \/ refused[r] > 0 => nav2[r] \in {"active", "canceling", "ended"}

CancelInv == \A r \in Runs : CancelOK(r)

(* A step that leaves a run, its requests and the threads about to ask     *)
(* for its cancellation alone.                                             *)
LEMMA CancelFrame ==
  ASSUME NEW q \in Runs, CancelOK(q), goalStates'[q] = goalStates[q], nav2'[q] = nav2[q],
         q \in goalHandles' <=> q \in goalHandles, q \in granted' <=> q \in granted,
         asked'[q] = asked[q], refused'[q] = refused[q],
         \A t \in Threads : pc[t] = "issue" /\ at[t] = q => pc'[t] = "issue" /\ at'[t] = q
  PROVE  CancelOK(q)'
  BY DEF CancelOK, CancelUnderWay

(* A write to the entry of a run Nav2 has not accepted is no concern.      *)
LEMMA CancelNoHandle ==
  ASSUME NEW q \in Runs, CancelOK(q), q \notin goalHandles', nav2'[q] = nav2[q],
         UNCHANGED <<asked, granted, refused>>
  PROVE  CancelOK(q)'
  BY DEF CancelOK

(* A thread that was not about to ask leaves those that are alone.         *)
LEMMA OthersAsk ==
  ASSUME ThreadTypeOK, NEW t \in Threads, NEW l, NEW r, Goto(t, l, r), pc[t] # "issue"
  PROVE  \A u \in Threads : pc[u] = "issue" => pc'[u] = "issue" /\ at'[u] = at[u]
  BY DEF Goto, ThreadTypeOK

LEMMA CancelInvHandler ==
  ASSUME TypeOK, Inv, CancelInv, NEW c \in Callers, HandlerStep(c)
  PROVE  CancelInv'
<1> StatesTypeOK /\ ThreadTypeOK /\ Nav2TypeOK
  BY DEF TypeOK
<1> USE ThreadSets
<1> SUFFICES ASSUME NEW q \in Runs PROVE CancelOK(q)'
  BY DEF CancelInv
<1> CancelOK(q) /\ RunOK(q)
  BY DEF CancelInv, Inv, GoalInv
<1>1. CASE NavigateEnqueue(c)
  BY <1>1, OthersAsk, CancelFrame DEF NavigateEnqueue, Return, tableVars, cancelVars
<1>2. ASSUME NEW r \in Runs, NavigateRecord(c, r) PROVE CancelOK(q)'
  <2>1. /\ \A u \in Threads : pc[u] = "issue" => pc'[u] = "issue" /\ at'[u] = at[u]
        /\ UNCHANGED <<goalHandles, nav2, asked, granted, refused>>
    BY <1>2, OthersAsk DEF NavigateRecord, Idle, cancelVars
  <2>2. CASE q # r
    BY <1>2, <2>1, <2>2, SetRunFacts, StateSets, CancelFrame DEF NavigateRecord
  <2>3. CASE q = r
    BY <1>2, <2>1, <2>3, CancelNoHandle DEF NavigateRecord, RunOK
  <2> QED BY <2>2, <2>3
<1>3. ASSUME NEW r \in Runs, CancelPending(c, r) \/ CancelLatch(c, r) PROVE CancelOK(q)'
  <2>1. /\ \A u \in Threads : pc[u] = "issue" => pc'[u] = "issue" /\ at'[u] = at[u]
        /\ UNCHANGED <<goalHandles, nav2, asked, granted, refused>>
    BY <1>3, OthersAsk DEF CancelPending, CancelLatch, CanCancel, Idle, cancelVars
  <2>2. CASE q # r
    BY <1>3, <2>1, <2>2, SetRunFacts, EntryTyped, CancelFrame DEF CancelPending, CancelLatch
  <2>3. CASE q = r
    BY <1>3, <2>1, <2>3, CancelNoHandle DEF CancelPending, CancelLatch
  <2> QED BY <2>2, <2>3
<1>4. ASSUME NEW r \in Runs, CancelSubmit(c, r) PROVE CancelOK(q)'
  <2>1. /\ \A u \in Threads : pc[u] = "issue" => pc'[u] = "issue" /\ at'[u] = at[u]
        /\ UNCHANGED <<goalHandles, nav2, asked, granted, refused>>
    BY <1>4, OthersAsk DEF CancelSubmit, CanCancel, Idle, cancelVars
  <2>2. CASE q # r
    BY <1>4, <2>1, <2>2, SetRunFacts, EntryTyped, CancelFrame DEF CancelSubmit
  <2>3. CASE q = r
    <3>1. pc'[c] = "issue" /\ at'[c] = r
      BY <1>4 DEF CancelSubmit, Goto, ThreadTypeOK
    <3> QED BY <2>1, <2>3, <3>1 DEF CancelOK, CancelUnderWay
  <2> QED BY <2>2, <2>3
<1> QED BY <1>1, <1>2, <1>3, <1>4, CancelCallRun DEF HandlerStep, Navigate, Cancel

LEMMA CancelInvDispatch ==
  ASSUME TypeOK, Inv, CancelInv, DispatcherStep
  PROVE  CancelInv'
<1> StatesTypeOK /\ ThreadTypeOK /\ Nav2TypeOK /\ QueueTypeOK
  BY DEF TypeOK
<1> USE ThreadSets
<1> SUFFICES ASSUME NEW q \in Runs PROVE CancelOK(q)'
  BY DEF CancelInv
<1> CancelOK(q) /\ \A r \in Runs : RunOK(r)
  BY DEF CancelInv, Inv, GoalInv
<1>1. CASE DispatchSkip
  BY <1>1, CancelFrame DEF DispatchSkip, tableVars, cancelVars
<1>2. CASE ~DispatchSkip
  <2>1. /\ \A u \in Threads : pc[u] = "issue" => pc'[u] = "issue" /\ at'[u] = at[u]
        /\ UNCHANGED <<goalHandles, asked, granted, refused>>
    BY <1>2, OthersAsk DEF DispatcherStep, DispatchClaim, DispatchNotReady, DispatchSend, DispatchSent,
                           Return, Idle, tableVars, cancelVars
  <2>2. CASE DispatchClaim
    <3>1. PICK r \in Runs : r = Head(navQueue) /\ Waiting(r) /\ SetRun(r, "RUNNING", CarriedCancel(r))
      BY <2>2, QueueTaken DEF DispatchClaim, Waiting, Inv, WaitingInv
    <3>2. r \notin goalHandles /\ UNCHANGED nav2
      BY <2>2, <3>1 DEF DispatchClaim, RunOK, Inv, WaitingInv, WaitingIsEarly
    <3>3. CASE q # r
      BY <2>1, <3>1, <3>2, <3>3, SetRunFacts, StateSets, EntryTyped, CancelFrame
    <3>4. CASE q = r
      BY <2>1, <3>2, <3>4, CancelNoHandle
    <3> QED BY <3>3, <3>4
  <2>3. CASE DispatchNotReady \/ DispatchSent
    <3>1. PICK r \in Runs : r = at[Dispatcher]
      BY <2>3, AtRun DEF DispatchNotReady, DispatchSent
    <3>2. r \notin goalHandles /\ UNCHANGED nav2
      BY <2>3, <3>1 DEF DispatchNotReady, DispatchSent, RunOK, Inv, GoalInv, ThreadOK
    <3>5. \E s \in RunStates, b \in BOOLEAN : SetRun(r, s, b)
      BY <2>3, <3>1, StateSets, EntryTyped DEF DispatchNotReady, DispatchSent
    <3>6. \A x \in Runs : x # r => goalStates'[x] = goalStates[x]
      BY <3>5, SetRunFacts
    <3>3. CASE q # r
      BY <2>1, <3>2, <3>3, <3>6, CancelFrame
    <3>4. CASE q = r
      BY <2>1, <3>2, <3>4, CancelNoHandle
    <3> QED BY <3>3, <3>4
  <2>4. CASE DispatchSend
    <3>1. PICK r \in Runs : r = at[Dispatcher] /\ nav2[r] = "none"
      BY <2>4, AtRun DEF DispatchSend, Inv, GoalInv, ThreadOK
    <3>2. UNCHANGED goalStates /\ nav2' = [nav2 EXCEPT ![r] = "sent"]
      BY <2>4, <3>1 DEF DispatchSend, tableVars
    <3>3. CASE q # r
      BY <2>1, <3>2, <3>3, CancelFrame DEF Nav2TypeOK
    <3>4. CASE q = r
      BY <2>1, <3>1, <3>2, <3>4 DEF CancelOK, RunOK
    <3> QED BY <3>3, <3>4
  <2> QED BY <1>2, <2>2, <2>3, <2>4 DEF DispatcherStep
<1> QED BY <1>1, <1>2

LEMMA CancelInvIssue ==
  ASSUME TypeOK, Inv, CancelInv, NEW t \in Threads, IssueStep(t) \/ Restored(t)
  PROVE  CancelInv'
<1> StatesTypeOK /\ ThreadTypeOK /\ Nav2TypeOK
  BY DEF TypeOK
<1> USE ThreadSets
<1> SUFFICES ASSUME NEW q \in Runs PROVE CancelOK(q)'
  BY DEF CancelInv
<1> CancelOK(q) /\ RunOK(q)
  BY DEF CancelInv, Inv, GoalInv
<1>1. CASE Restored(t)
  BY <1>1, OthersAsk, CancelFrame DEF Restored, Return, tableVars, cancelVars
<1>2. CASE IssueStep(t)
  <2>1. PICK r \in Runs : r = at[t]
    BY <1>2, AtRun DEF IssueStep, IssueCancel, IssueCancelRaises
  <2>2. \A u \in Threads : u # t => pc'[u] = pc[u] /\ at'[u] = at[u]
    BY <1>2 DEF IssueStep, IssueCancel, IssueCancelRaises, Return, Goto, ThreadTypeOK
  <2>3. nav2[r] \in {"active", "canceling", "ended"}
    BY <1>2, <2>1 DEF IssueStep, IssueCancel, IssueCancelRaises, Inv, GoalInv, ThreadOK
  <2>4. UNCHANGED <<goalHandles, nav2, granted, refused>>
    BY <1>2 DEF IssueStep, IssueCancel, IssueCancelRaises, tableVars, cancelVars
  <2>5. CASE IssueCancel(t)
    <3>1. asked' = [asked EXCEPT ![r] = @ + 1] /\ UNCHANGED goalStates
      BY <2>1, <2>5 DEF IssueCancel, tableVars
    <3>2. CASE q # r
      BY <2>1, <2>2, <2>4, <3>1, <3>2, CancelFrame DEF Nav2TypeOK
    <3>3. CASE q = r
      <4>1. asked'[q] > 0
        BY <3>1, <3>3 DEF Nav2TypeOK
      <4> QED BY <2>3, <2>4, <3>3, <4>1 DEF CancelOK, CancelUnderWay
    <3> QED BY <3>2, <3>3
  <2>6. CASE IssueCancelRaises(t)
    <3>1. UNCHANGED asked /\ SetRun(r, goalStates[r].state, FALSE)
      BY <2>1, <2>6 DEF IssueCancelRaises, cancelVars
    <3>2. ~goalStates'[r].cancelRequested /\ \A x \in Runs : x # r => goalStates'[x] = goalStates[x]
      BY <3>1, SetRunFacts, EntryTyped
    <3>3. CASE q # r
      BY <2>1, <2>2, <2>4, <3>1, <3>2, <3>3, CancelFrame
    <3>4. CASE q = r
      BY <2>4, <3>1, <3>2, <3>4 DEF CancelOK
    <3> QED BY <3>3, <3>4
  <2> QED BY <1>2, <2>5, <2>6 DEF IssueStep
<1> QED BY <1>1, <1>2

(* A goal with a latched cancel is accepted into the hands of the executor. *)
LEMMA CancelInvExecutor ==
  ASSUME TypeOK, Inv, CancelInv, ExecutorStep
  PROVE  CancelInv'
<1> StatesTypeOK /\ ThreadTypeOK /\ Nav2TypeOK
  BY DEF TypeOK
<1> USE ThreadSets
<1> SUFFICES ASSUME NEW q \in Runs PROVE CancelOK(q)'
  BY DEF CancelInv
<1> CancelOK(q) /\ \A r \in Runs : RunOK(r)
  BY DEF CancelInv, Inv, GoalInv
<1>1. PICK r \in Runs : GoalRefused(r) \/ GoalAccepted(r) \/ \E s \in ResultStatuses : Result(r, s)
  BY DEF ExecutorStep
<1>2. /\ \A u \in Threads : pc[u] = "issue" => pc'[u] = "issue" /\ at'[u] = at[u]
      /\ UNCHANGED <<asked, granted, refused>>
  BY <1>1, OthersAsk DEF GoalRefused, GoalAccepted, GoalAnswered, Result, Idle, cancelVars
<1>3. \E s \in RunStates, b \in BOOLEAN : SetRun(r, s, b)
  BY <1>1, StateSets, EntryTyped DEF GoalRefused, GoalAccepted, Result
<1>4. /\ \A x \in Runs : x # r => goalStates'[x] = goalStates[x] /\ nav2'[x] = nav2[x]
      /\ \A x \in Runs : x # r => (x \in goalHandles' <=> x \in goalHandles)
  <2>1. \A x \in Runs : x # r => goalStates'[x] = goalStates[x]
    BY <1>3, SetRunFacts
  <2>2. \A x \in Runs : x # r => nav2'[x] = nav2[x] /\ (x \in goalHandles' <=> x \in goalHandles)
    BY <1>1 DEF GoalRefused, GoalAccepted, Result, Nav2TypeOK
  <2> QED BY <2>1, <2>2
<1>5. CASE q # r
  BY <1>2, <1>4, <1>5, CancelFrame
<1>6. CASE q = r /\ GoalAccepted(r)
  <2>1. nav2[r] = "sent" /\ nav2'[r] = "active"
    BY <1>6 DEF GoalAccepted, GoalAnswered, Nav2TypeOK
  <2>2. goalStates'[r].cancelRequested = goalStates[r].cancelRequested
    BY <1>6, SetRunFacts, StateSets, EntryTyped DEF GoalAccepted, CarriedCancel
  <2>3. goalStates[r].cancelRequested => pc'[Executor] = "issue" /\ at'[Executor] = r
    BY <1>6 DEF GoalAccepted, ForwardLatched, Goto, ThreadTypeOK
  <2> QED BY <1>2, <1>6, <2>1, <2>2, <2>3 DEF CancelOK, CancelUnderWay
<1>7. CASE q = r /\ ~GoalAccepted(r)
  <2>1. r \notin goalHandles' /\ nav2'[r] = "ended"
    BY <1>1, <1>7 DEF GoalRefused, GoalAnswered, Result, RunOK, Nav2TypeOK
  <2> QED BY <1>2, <1>7, <2>1 DEF CancelOK
<1> QED BY <1>5, <1>6, <1>7

(* A granted cancel is under way for as long as the goal has a handle.     *)
LEMMA CancelInvEnvironment ==
  ASSUME TypeOK, Inv, CancelInv, Environment
  PROVE  CancelInv'
<1> StatesTypeOK /\ ThreadTypeOK /\ Nav2TypeOK
  BY DEF TypeOK
<1> USE ThreadSets
<1> SUFFICES ASSUME NEW q \in Runs PROVE CancelOK(q)'
  BY DEF CancelInv
<1> CancelOK(q) /\ RunOK(q)
  BY DEF CancelInv, Inv, GoalInv
<1>1. ASSUME NEW r \in Runs, Nav2Cancel(r) PROVE CancelOK(q)'
  <2>1. /\ UNCHANGED <<goalStates, goalHandles, pc, at>>
        /\ \A x \in Runs : x # r => /\ nav2'[x] = nav2[x] /\ asked'[x] = asked[x]
                                    /\ refused'[x] = refused[x]
                                    /\ x \in granted' <=> x \in granted
    BY <1>1 DEF Nav2Cancel, tableVars, Nav2TypeOK
  <2>2. CASE q # r
    BY <2>1, <2>2, CancelFrame
  <2>3. CASE q = r
    <3>1. asked[r] > 0
      BY <1>1 DEF Nav2Cancel
    <3>2. \/ nav2[r] = "active" /\ nav2'[r] = "canceling"
          \/ UNCHANGED <<nav2, granted>> /\ refused'[r] > 0
      BY <1>1 DEF Nav2Cancel, Nav2TypeOK
    <3> QED BY <2>1, <2>3, <3>1, <3>2 DEF CancelOK, CancelUnderWay
  <2> QED BY <2>2, <2>3
<1>2. ASSUME NEW r \in Runs, CancelGranted(r) PROVE CancelOK(q)'
  <2>1. UNCHANGED <<goalHandles, pc, at, nav2, asked, refused>> /\ granted' = granted \ {r}
    BY <1>2 DEF CancelGranted
  <2>2. \A x \in Runs : x # r => goalStates'[x] = goalStates[x]
    BY <1>2, SetRunFacts, StateSets DEF CancelGranted, RecordCancelAnswer
  <2>3. CASE q # r
    BY <2>1, <2>2, <2>3, CancelFrame
  <2>4. CASE q = r
    <3>1. q \in goalHandles => nav2[q] = "canceling"
      BY <1>2, <2>4 DEF CancelGranted, CancelOK, RunOK
    <3> QED BY <2>1, <2>4, <3>1 DEF CancelOK, CancelUnderWay
  <2> QED BY <2>3, <2>4
<1>3. ASSUME NEW r \in Runs, CancelRefused(r) PROVE CancelOK(q)'
  <2>1. UNCHANGED <<goalHandles, pc, at, nav2, asked, granted>> /\ refused' = [refused EXCEPT ![r] = @ - 1]
    BY <1>3 DEF CancelRefused
  <2>2. \A x \in Runs : x # r => goalStates'[x] = goalStates[x]
    BY <1>3, SetRunFacts, StateSets DEF CancelRefused, RecordCancelAnswer
  <2>3. CASE q # r
    BY <2>1, <2>2, <2>3, CancelFrame DEF Nav2TypeOK
  <2>4. CASE q = r
    <3>1. goalStates[r].state = "RUNNING" => ~goalStates'[r].cancelRequested
      BY <1>3, SetRunFacts, StateSets DEF CancelRefused, RecordCancelAnswer
    <3>2. q \in goalHandles => ~goalStates'[q].cancelRequested
      BY <2>4, <3>1 DEF RunOK
    <3>3. refused'[q] > 0 => refused[q] > 0
      BY <1>3, <2>4 DEF CancelRefused
    <3> QED BY <2>1, <2>4, <3>2, <3>3 DEF CancelOK
  <2> QED BY <2>3, <2>4
<1> QED BY <1>1, <1>2, <1>3 DEF Environment

LEMMA CancelInvStep ==
  ASSUME TypeOK, Inv, CancelInv, [Next]_goalVars
  PROVE  CancelInv'
<1>1. CASE UNCHANGED goalVars \/ BringupStep
  <2>1. UNCHANGED <<goalStates, goalHandles, pc, at, nav2, asked, granted, refused>>
    BY <1>1 DEF goalVars, tableVars, cancelVars, BringupStep, NodeUp, WaitForAction
  <2>2. ASSUME NEW q \in Runs PROVE CancelOK(q)'
    BY <2>1, CancelFrame DEF CancelInv
  <2> QED BY <2>2 DEF CancelInv
<1> QED
  BY <1>1, CancelInvHandler, CancelInvDispatch, CancelInvIssue, CancelInvExecutor,
     CancelInvEnvironment DEF Next

THEOREM CancelInvCorrect == Spec => []CancelInv
<1>1. Init => TypeOK /\ Inv /\ CancelInv
  <2>1. Init => CancelInv
    <3> SUFFICES ASSUME Init, NEW q \in Runs PROVE CancelOK(q)
      BY DEF CancelInv
    <3>1. q \notin goalHandles /\ q \notin granted /\ asked[q] = 0 /\ refused[q] = 0
      BY DEF Init
    <3> QED BY <3>1 DEF CancelOK
  <2> QED BY <2>1, TypeInit, InvInit
<1>2. TypeOK /\ Inv /\ CancelInv /\ [Next]_goalVars => TypeOK' /\ Inv' /\ CancelInv'
  BY TypeStep, InvStep, CancelInvStep
<1> QED BY <1>1, <1>2, PTL DEF Spec

(* A cancel shown as requested on an accepted goal is on its way           *)
(* (cancel, _goal_response_cb, _cancel_response_cb).                       *)
THEOREM CancelForwarded == Spec => []CancelIsForwarded
<1>1. TypeOK /\ CancelInv => CancelIsForwarded
  BY DEF TypeOK, TableTypeOK, CancelInv, CancelOK, CancelIsForwarded
<1> QED BY <1>1, TypeCorrect, CancelInvCorrect, PTL
=============================================================================
