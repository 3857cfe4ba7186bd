--------------------------- MODULE ContractProofs ---------------------------
(***************************************************************************)
(* GoalRuns implements the safety part of RunContract when Nav2 answers    *)
(* every result request with a result: each step of a thread, a callback   *)
(* or Nav2 is a step of the contract for one run, or none.                 *)
(***************************************************************************)
EXTENDS GoalRunsProofs

Stage == [r \in Runs |-> goalStates[r].state]

PursuitOf(status) ==
  CASE status \in {"none", "sent"} -> "never"
    [] status = "ended" -> "over"
    [] OTHER -> "now"

Pursuit == [r \in Runs |-> PursuitOf(nav2[r])]

(* The steps of the contract, in terms of what the threads see.            *)
LEMMA ContractSteps ==
  /\ Contract!ContractInit <=> /\ Stage = [r \in Runs |-> "absent"]
                               /\ Pursuit = [r \in Runs |-> "never"]
  /\ Contract!contractVars = <<Stage, Pursuit>>
  /\ \A r \in Runs :
       /\ Contract!Submit(r) <=> /\ Stage[r] = "absent"
                                 /\ Stage' = [Stage EXCEPT ![r] = "PENDING"]
                                 /\ Pursuit' = Pursuit
       /\ Contract!Leave(r) <=>
            /\ Stage[r] = "PENDING"
            /\ \E s \in {"RUNNING", "CANCELED"} : Stage' = [Stage EXCEPT ![r] = s]
            /\ Pursuit' = Pursuit
       /\ Contract!Pursue(r) <=> /\ Stage[r] = "RUNNING"
                                 /\ Pursuit[r] = "never"
                                 /\ Pursuit' = [Pursuit EXCEPT ![r] = "now"]
                                 /\ Stage' = Stage
       /\ Contract!End(r) <=>
            /\ Stage[r] = "RUNNING"
            /\ \E s \in Terminal : Stage' = [Stage EXCEPT ![r] = s]
            /\ \/ Pursuit[r] = "never" /\ Pursuit' = Pursuit
               \/ Pursuit' = [Pursuit EXCEPT ![r] = "over"]
  BY DEF Contract!ContractInit, Contract!contractVars, Contract!Submit, Contract!Leave,
         Contract!Pursue, Contract!End, Contract!Ended, Stage, Pursuit, PursuitOf, Terminal

(* A write to one entry of the table, or to Nav2's side of one goal.       *)
LEMMA StageWrite ==
  ASSUME StatesTypeOK, NEW r \in Runs, NEW s \in RunStates, NEW b \in BOOLEAN, SetRun(r, s, b)
  PROVE  /\ Stage' = [Stage EXCEPT ![r] = s]
         /\ s = goalStates[r].state => Stage' = Stage
  BY SetRunFacts DEF Stage

LEMMA PursuitWrite ==
  ASSUME Nav2TypeOK, NEW r \in Runs, NEW x, nav2' = [nav2 EXCEPT ![r] = x]
  PROVE  Pursuit' = [Pursuit EXCEPT ![r] = PursuitOf(x)]
  BY DEF Nav2TypeOK, Pursuit

LEMMA PursuitKept ==
  ASSUME Nav2TypeOK, NEW r \in Runs, NEW x, nav2' = [nav2 EXCEPT ![r] = x],
         PursuitOf(x) = PursuitOf(nav2[r])
  PROVE  Pursuit' = Pursuit
  BY DEF Nav2TypeOK, Pursuit

LEMMA PursuitValues ==
  /\ PursuitOf("none") = "never" /\ PursuitOf("sent") = "never"
  /\ PursuitOf("active") = "now" /\ PursuitOf("canceling") = "now"
  /\ PursuitOf("ended") = "over"
  BY DEF PursuitOf

ContractStep ==
  \/ Stage' = Stage /\ Pursuit' = Pursuit
  \/ \E r \in Runs : Contract!Submit(r) \/ Contract!Leave(r) \/ Contract!Pursue(r) \/ Contract!End(r)

LEMMA HandlerImplements ==
  ASSUME TypeOK, Inv, NEW c \in Callers, HandlerStep(c)
  PROVE  ContractStep
<1> StatesTypeOK
  BY DEF TypeOK
<1>1. ASSUME NEW r \in Runs, NavigateRecord(c, r) PROVE Contract!Submit(r)
  <2>1. Stage[r] = "absent" /\ Stage' = [Stage EXCEPT ![r] = "PENDING"]
    BY <1>1, StageWrite, StateSets DEF NavigateRecord, Stage
  <2>2. Pursuit' = Pursuit
    BY <1>1 DEF NavigateRecord, Pursuit
  <2>3. QED
    BY <2>1, <2>2, ContractSteps
<1>2. ASSUME NEW r \in Runs, CancelPending(c, r) PROVE Contract!Leave(r)
  <2>1. Stage[r] = "PENDING" /\ StateOnCancel(r) = "CANCELED"
    BY <1>2 DEF CancelPending, StateOnCancel, Stage
  <2>2. Stage' = [Stage EXCEPT ![r] = "CANCELED"]
    BY <1>2, <2>1, StageWrite, StateSets DEF CancelPending
  <2>3. Pursuit' = Pursuit
    BY <1>2 DEF CancelPending, Pursuit
  <2>4. QED
    BY <2>1, <2>2, <2>3, ContractSteps
<1>3. ASSUME NEW r \in Runs, CancelLatch(c, r) \/ CancelSubmit(c, r)
      PROVE  Stage' = Stage /\ Pursuit' = Pursuit
  <2>1. goalStates[r].state \in RunStates /\ SetRun(r, goalStates[r].state, TRUE)
    BY <1>3, EntryTyped DEF CancelLatch, CancelSubmit, StateOnCancel
  <2>2. Stage' = Stage
    BY <2>1, StageWrite
  <2>3. Pursuit' = Pursuit
    BY <1>3 DEF CancelLatch, CancelSubmit, Pursuit
  <2>4. QED
    BY <2>2, <2>3
<1>4. CASE NavigateEnqueue(c)
  BY <1>4 DEF NavigateEnqueue, tableVars, Stage, Pursuit, ContractStep
<1>5. QED
  BY <1>1, <1>2, <1>3, <1>4, CancelCallRun DEF HandlerStep, Navigate, Cancel, ContractStep

LEMMA DispatcherImplements ==
  ASSUME TypeOK, Inv, DispatcherStep
  PROVE  ContractStep
<1> StatesTypeOK /\ QueueTypeOK /\ ThreadTypeOK /\ Nav2TypeOK
  BY DEF TypeOK
<1> /\ WaitingIsEarly /\ QueuedOnce
    /\ \A t \in Threads : ThreadOK(t)
    /\ \A r \in Runs : RunOK(r)
  BY DEF Inv, WaitingInv, GoalInv
<1> USE ThreadSets
<1>1. CASE DispatchSkip
  BY <1>1 DEF DispatchSkip, tableVars, Stage, Pursuit, ContractStep
<1>2. CASE DispatchClaim
  <2>1. PICK r \in Runs : r = Head(navQueue) /\ Waiting(r) /\ ~CanceledBeforeDispatch(r)
    BY <1>2, QueueTaken DEF DispatchClaim, Waiting
  <2>2. Stage[r] = "PENDING"
    BY <2>1 DEF WaitingIsEarly, Stage
  <2>3. Stage' = [Stage EXCEPT ![r] = "RUNNING"]
    BY <1>2, <2>1, StageWrite, StateSets, EntryTyped DEF DispatchClaim
  <2>4. Pursuit' = Pursuit
    BY <1>2 DEF DispatchClaim, Pursuit
  <2>5. Contract!Leave(r)
    BY <2>1, <2>2, <2>3, <2>4, ContractSteps
  <2>6. QED
    BY <2>1, <2>5 DEF ContractStep
<1>3. CASE DispatchNotReady
  <2>1. PICK r \in Runs : /\ r = at[Dispatcher]
                          /\ goalStates[r].state = "RUNNING" /\ nav2[r] = "none"
    BY <1>3, AtRun DEF DispatchNotReady, ThreadOK
  <2>2. Stage' = [Stage EXCEPT ![r] = "FAILED"]
    BY <1>3, <2>1, StageWrite, StateSets DEF DispatchNotReady
  <2>3. Pursuit' = Pursuit /\ Pursuit[r] = "never"
    BY <1>3, <2>1 DEF DispatchNotReady, Pursuit, PursuitOf
  <2>4. Stage[r] = "RUNNING"
    BY <2>1 DEF Stage
  <2>5. Contract!End(r)
    BY <2>1, <2>2, <2>3, <2>4, ContractSteps DEF Terminal
  <2>6. QED
    BY <2>1, <2>5 DEF ContractStep
<1>4. CASE DispatchSend
  <2>1. PICK r \in Runs : r = at[Dispatcher] /\ nav2[r] = "none"
    BY <1>4, AtRun DEF DispatchSend, ThreadOK
  <2>2. Pursuit' = Pursuit
    <3>1. nav2' = [nav2 EXCEPT ![r] = "sent"]
      BY <1>4, <2>1 DEF DispatchSend
    <3>2. QED
      BY <3>1, <2>1, PursuitKept, PursuitValues
  <2>3. QED
    BY <1>4, <2>2 DEF DispatchSend, tableVars, Stage, ContractStep
<1>5. CASE DispatchSent
  <2>1. at[Dispatcher] \in Runs /\ goalStates[at[Dispatcher]].state = "RUNNING"
    BY <1>5, AtRun DEF DispatchSent, ThreadOK, RunOK
  <2>2. Stage' = Stage
    BY <1>5, <2>1, StageWrite, StateSets, EntryTyped DEF DispatchSent
  <2>3. Pursuit' = Pursuit
    BY <1>5 DEF DispatchSent, Pursuit
  <2>4. QED
    BY <2>2, <2>3 DEF ContractStep
<1>6. QED
  BY <1>1, <1>2, <1>3, <1>4, <1>5 DEF DispatcherStep

LEMMA ExecutorImplements ==
  ASSUME TypeOK, Inv, "UNKNOWN" \notin ResultStatuses, ExecutorStep
  PROVE  ContractStep
<1> StatesTypeOK /\ Nav2TypeOK
  BY DEF TypeOK
<1> \A r \in Runs : RunOK(r)
  BY DEF Inv, GoalInv
<1>1. ASSUME NEW r \in Runs, GoalRefused(r) PROVE Contract!End(r)
  <2>1. Stage[r] = "RUNNING" /\ RefusedState(r) \in Terminal
    BY <1>1 DEF GoalRefused, GoalAnswered, RunOK, Stage, RefusedState, Terminal
  <2>2. Stage' = [Stage EXCEPT ![r] = RefusedState(r)]
    BY <1>1, StageWrite, EntryTyped DEF GoalRefused
  <2>3. Pursuit' = [Pursuit EXCEPT ![r] = "over"]
    BY <1>1, PursuitWrite, PursuitValues DEF GoalRefused
  <2>4. QED
    BY <2>1, <2>2, <2>3, ContractSteps
<1>2. ASSUME NEW r \in Runs, GoalAccepted(r) PROVE Contract!Pursue(r)
  <2>1. goalStates[r].state = "RUNNING" /\ nav2[r] = "sent"
    BY <1>2 DEF GoalAccepted, GoalAnswered, RunOK
  <2>2. Stage' = Stage
    BY <1>2, <2>1, StageWrite, StateSets, EntryTyped DEF GoalAccepted
  <2>3. Pursuit' = [Pursuit EXCEPT ![r] = "now"]
    BY <1>2, PursuitWrite, PursuitValues DEF GoalAccepted
  <2>4. Stage[r] = "RUNNING" /\ Pursuit[r] = "never"
    BY <2>1 DEF Stage, Pursuit, PursuitOf
  <2>5. QED
    BY <2>2, <2>3, <2>4, ContractSteps
<1>3. ASSUME NEW r \in Runs, NEW s \in ResultStatuses, Result(r, s) PROVE Contract!End(r)
  <2>1. Stage[r] = "RUNNING"
    BY <1>3 DEF Result, RunOK, Stage
  <2>2. CanonicalState(s) \in Terminal
    BY GoalRunsAssumption DEF GoalRunsAssumption, StatusNames, CanonicalState, Terminal
  <2>3. Stage' = [Stage EXCEPT ![r] = CanonicalState(s)]
    BY <1>3, <2>2, StageWrite, StateSets DEF Result
  <2>4. Pursuit' = [Pursuit EXCEPT ![r] = "over"]
    <3>1. nav2' = [nav2 EXCEPT ![r] = "ended"]
      BY <1>3 DEF Result
    <3>2. QED
      BY <3>1, PursuitWrite, PursuitValues
  <2>5. QED
    BY <2>1, <2>2, <2>3, <2>4, ContractSteps
<1>4. QED
  BY <1>1, <1>2, <1>3 DEF ExecutorStep, ContractStep

LEMMA EnvironmentImplements ==
  ASSUME TypeOK, Environment
  PROVE  Stage' = Stage /\ Pursuit' = Pursuit
<1> StatesTypeOK /\ Nav2TypeOK
  BY DEF TypeOK
<1>1. ASSUME NEW r \in Runs, Nav2Cancel(r) PROVE Stage' = Stage /\ Pursuit' = Pursuit
  <2>1. UNCHANGED nav2 \/ (nav2[r] = "active" /\ nav2' = [nav2 EXCEPT ![r] = "canceling"])
    BY <1>1 DEF Nav2Cancel
  <2>2. Pursuit' = Pursuit
    <3>1. CASE UNCHANGED nav2
      BY <3>1 DEF Pursuit
    <3>2. CASE nav2[r] = "active" /\ nav2' = [nav2 EXCEPT ![r] = "canceling"]
      BY <3>2, PursuitKept, PursuitValues
    <3>3. QED
      BY <2>1, <3>1, <3>2
  <2>3. QED
    BY <1>1, <2>2 DEF Nav2Cancel, tableVars, Stage
<1>2. ASSUME NEW r \in Runs, CancelGranted(r) \/ CancelRefused(r)
      PROVE  Stage' = Stage /\ Pursuit' = Pursuit
  <2>1. \/ UNCHANGED goalStates
        \/ \E b \in BOOLEAN : goalStates[r].state = "RUNNING" /\ SetRun(r, "RUNNING", b)
    BY <1>2 DEF CancelGranted, CancelRefused, RecordCancelAnswer
  <2>2. Stage' = Stage
    BY <2>1, StageWrite, StateSets DEF Stage
  <2>3. QED
    BY <1>2, <2>2 DEF CancelGranted, CancelRefused, Pursuit
<1>3. QED
  BY <1>1, <1>2 DEF Environment

LEMMA StepImplements ==
  ASSUME TypeOK, Inv, "UNKNOWN" \notin ResultStatuses, [Next]_goalVars
  PROVE  ContractStep
<1>1. CASE UNCHANGED goalVars \/ BringupStep
  BY <1>1 DEF goalVars, tableVars, BringupStep, NodeUp, WaitForAction, Stage, Pursuit, ContractStep
<1>2. ASSUME NEW t \in Threads, IssueStep(t) \/ Restored(t) PROVE ContractStep
  <2>1. CASE IssueCancelRaises(t)
    BY <2>1, AtRun, EntryTyped, StageWrite DEF IssueCancelRaises, TypeOK, Pursuit, ContractStep
  <2>2. CASE IssueCancel(t) \/ Restored(t)
    BY <2>2 DEF IssueCancel, Restored, tableVars, Stage, Pursuit, ContractStep
  <2>3. QED
    BY <1>2, <2>1, <2>2 DEF IssueStep
<1>3. QED
  BY <1>1, <1>2, HandlerImplements, DispatcherImplements, ExecutorImplements, EnvironmentImplements
     DEF Next, ContractStep

(* The threads, the queue and the callbacks implement what a client relies *)
(* on: a run starts at most once, the robot pursues its goal only while    *)
(* status says RUNNING, and the outcome ends both in one step.             *)
THEOREM ContractImplemented ==
  ASSUME "UNKNOWN" \notin ResultStatuses
  PROVE  Spec => Contract!ContractInit /\ [][Contract!ContractNext]_Contract!contractVars
<1>1. Init => Contract!ContractInit
  BY ContractSteps DEF Init, Stage, Pursuit, PursuitOf
<1>2. TypeOK /\ Inv /\ [Next]_goalVars => [Contract!ContractNext]_Contract!contractVars
  <2>1. SUFFICES ASSUME TypeOK, Inv, [Next]_goalVars
                 PROVE  Contract!ContractNext \/ (Stage' = Stage /\ Pursuit' = Pursuit)
    BY DEF Contract!contractVars, Stage, Pursuit, PursuitOf
  <2>2. QED
    BY <2>1, StepImplements DEF ContractStep, Contract!ContractNext
<1>3. QED
  BY <1>1, <1>2, TypeCorrect, InvCorrect, PTL DEF Spec

-----------------------------------------------------------------------------
(* When every result ends its run, a goal Nav2 is done with is a run that  *)
(* has ended, so a cancel of a RUNNING run without a handle is early.      *)
EndedIsTerminal == \A r \in Runs : nav2[r] = "ended" => IsTerminal(r)

LEMMA EndedStep ==
  ASSUME TypeOK, Inv, EndedIsTerminal, "UNKNOWN" \notin ResultStatuses, [Next]_goalVars
  PROVE  EndedIsTerminal'
<1> StatesTypeOK /\ Nav2TypeOK
  BY DEF TypeOK
<1> SUFFICES ASSUME NEW q \in Runs, nav2'[q] = "ended" PROVE IsTerminal(q)'
  BY DEF EndedIsTerminal
<1>1. CASE nav2[q] = "ended"
  BY <1>1, FinalStep DEF EndedIsTerminal, IsTerminal
<1>2. CASE nav2[q] # "ended"
  <2>1. ExecutorStep
    <3>1. CASE UNCHANGED nav2
      BY <1>2, <3>1
    <3>2. CASE DispatchSend \/ \E r \in Runs : Nav2Cancel(r)
      BY <1>2, <3>2 DEF DispatchSend, Nav2Cancel, Nav2TypeOK
    <3>3. ASSUME NEW c \in Callers, HandlerStep(c) PROVE UNCHANGED nav2
      BY <3>3 DEF HandlerStep, Navigate, NavigateRecord, NavigateEnqueue, CancelCall, Cancel,
                  CancelPending, CancelLatch, CancelSubmit
    <3>4. DispatcherStep => UNCHANGED nav2 \/ DispatchSend
      BY DEF DispatcherStep, DispatchSkip, DispatchClaim, DispatchNotReady, DispatchSent
    <3>5. UNCHANGED goalVars \/ BringupStep => UNCHANGED nav2
      BY DEF goalVars, BringupStep, NodeUp, WaitForAction
    <3>6. \A t \in Threads : IssueStep(t) \/ Restored(t) => UNCHANGED nav2
      BY DEF IssueStep, IssueCancel, IssueCancelRaises, Restored
    <3>7. Environment => UNCHANGED nav2 \/ \E r \in Runs : Nav2Cancel(r)
      BY DEF Environment, CancelGranted, CancelRefused
    <3> QED BY <3>1, <3>2, <3>3, <3>4, <3>5, <3>6, <3>7 DEF Next
  <2>2. PICK r \in Runs :
          GoalRefused(r) \/ GoalAccepted(r) \/ \E s \in ResultStatuses : Result(r, s)
    BY <2>1 DEF ExecutorStep
  <2>3. q = r /\ ~GoalAccepted(r)
    BY <1>2, <2>2 DEF GoalRefused, GoalAccepted, Result, Nav2TypeOK
  <2>4. \E s \in Terminal, b \in BOOLEAN : SetRun(r, s, b)
    <3>1. RefusedState(r) \in Terminal
      BY DEF RefusedState, Terminal
    <3>2. \A s \in ResultStatuses : CanonicalState(s) \in Terminal
      BY GoalRunsAssumption DEF GoalRunsAssumption, StatusNames, CanonicalState, Terminal
    <3> QED BY <2>2, <2>3, <3>1, <3>2 DEF GoalRefused, Result
  <2> QED BY <2>3, <2>4, SetRunFacts, StateSets DEF IsTerminal
<1> QED BY <1>1, <1>2

(* What a step does to a run with a latched cancel.                        *)
LatchGoesOn(r) ==
  \/ Latched(r)'
  \/ IsTerminal(r)'
  \/ r \in goalHandles' /\ pc'[Executor] = "issue" /\ at'[Executor] = r

LEMMA LatchStep ==
  ASSUME TypeOK, Inv, CancelInv, EndedIsTerminal, [Next]_goalVars, NEW q \in Runs, Latched(q)
  PROVE  LatchGoesOn(q)
<1> StatesTypeOK /\ ThreadTypeOK /\ Nav2TypeOK /\ QueueTypeOK
  BY DEF TypeOK
<1> USE ThreadSets
<1>1. /\ goalStates[q].state = "RUNNING" /\ goalStates[q].cancelRequested
      /\ q \notin goalHandles /\ nav2[q] \in {"none", "sent"} /\ ~Waiting(q)
  BY RunningIsNotWaiting
     DEF Latched, Inv, WaitingInv, GoalInv, RunOK, Nav2TypeOK, EndedIsTerminal, IsTerminal, Terminal
<1>2. /\ q \notin granted /\ ~(refused[q] > 0)
      /\ \A t \in Threads : pc[t] = "issue" => at[t] # q
  BY <1>1 DEF CancelInv, CancelOK, Inv, GoalInv, ThreadOK
<1>3. CASE goalStates'[q] = goalStates[q] /\ q \notin goalHandles'
  BY <1>1, <1>3 DEF LatchGoesOn, Latched
<1>4. ASSUME NEW r \in Runs, NEW s \in RunStates, NEW b \in BOOLEAN, SetRun(r, s, b), r # q,
             q \notin goalHandles'
      PROVE  LatchGoesOn(q)
  BY <1>3, <1>4, SetRunFacts
<1>5. ASSUME SetRun(q, "RUNNING", TRUE), UNCHANGED goalHandles PROVE LatchGoesOn(q)
  BY <1>1, <1>5, SetRunFacts, StateSets DEF LatchGoesOn, Latched
<1>6. ASSUME NEW c \in Callers, NEW r \in Runs, NavigateRecord(c, r) \/ Cancel(c, r)
      PROVE  LatchGoesOn(q)
  <2>1. UNCHANGED goalHandles
    BY <1>6 DEF NavigateRecord, Cancel, CancelPending, CancelLatch, CancelSubmit
  <2>2. \E s \in RunStates, b \in BOOLEAN : SetRun(r, s, b)
    BY <1>6, EntryTyped, StateSets DEF NavigateRecord, Cancel, CancelPending, CancelLatch, CancelSubmit
  <2>3. CASE r = q
    BY <1>1, <1>5, <1>6, <2>1, <2>3
       DEF NavigateRecord, Cancel, CancelPending, CancelLatch, CancelSubmit, StateOnCancel
  <2> QED BY <1>1, <1>4, <2>1, <2>2, <2>3
<1>7. ASSUME NEW t \in Threads, IssueCancelRaises(t) PROVE LatchGoesOn(q)
  <2>1. at[t] \in Runs /\ at[t] # q /\ UNCHANGED goalHandles
    BY <1>2, <1>7, AtRun DEF IssueCancelRaises
  <2> QED BY <1>1, <1>4, <1>7, <2>1, EntryTyped DEF IssueCancelRaises
<1>8. CASE DispatchClaim
  <2>1. PICK r \in Runs : Waiting(r) /\ SetRun(r, "RUNNING", CarriedCancel(r))
    BY <1>8, QueueTaken DEF DispatchClaim, Waiting, Inv, WaitingInv
  <2> QED BY <1>1, <1>4, <1>8, <2>1, EntryTyped, StateSets DEF DispatchClaim
<1>9. CASE DispatchNotReady \/ DispatchSent
  <2>1. PICK r \in Runs : r = at[Dispatcher]
    BY <1>9, AtRun DEF DispatchNotReady, DispatchSent
  <2>2. UNCHANGED goalHandles
    BY <1>9 DEF DispatchNotReady, DispatchSent
  <2>3. SetRun(r, "FAILED", FALSE) \/ SetRun(r, "RUNNING", CarriedCancel(r))
    BY <1>9, <2>1 DEF DispatchNotReady, DispatchSent
  <2>4. CASE r # q
    BY <1>1, <1>4, <2>2, <2>3, <2>4, EntryTyped, StateSets
  <2>5. CASE r = q
    <3>1. SetRun(q, "FAILED", FALSE) => IsTerminal(q)'
      BY SetRunFacts, StateSets DEF IsTerminal, Terminal
    <3>2. CarriedCancel(q) = TRUE
      BY <1>1, EntryTyped DEF CarriedCancel
    <3> QED BY <1>5, <2>2, <2>3, <2>5, <3>1, <3>2 DEF LatchGoesOn
  <2> QED BY <2>4, <2>5
<1>10. ASSUME NEW r \in Runs,
              GoalRefused(r) \/ GoalAccepted(r) \/ \E s \in ResultStatuses : Result(r, s)
       PROVE  LatchGoesOn(q)
  <2>1. CASE r # q
    <3>1. \E s \in RunStates, b \in BOOLEAN : SetRun(r, s, b)
      BY <1>10, EntryTyped, StateSets DEF GoalRefused, GoalAccepted, Result
    <3>2. q \notin goalHandles'
      BY <1>1, <1>10, <2>1 DEF GoalRefused, GoalAccepted, Result
    <3> QED BY <1>4, <2>1, <3>1, <3>2
  <2>2. CASE r = q /\ GoalRefused(r)
    <3>1. RefusedState(q) \in Terminal
      BY DEF RefusedState, Terminal
    <3> QED BY <2>2, <3>1, SetRunFacts, StateSets DEF GoalRefused, IsTerminal, LatchGoesOn
  <2>3. CASE r = q /\ GoalAccepted(r)
    BY <1>1, <2>3 DEF GoalAccepted, ForwardLatched, Goto, ThreadTypeOK, LatchGoesOn
  <2>4. CASE r = q /\ \E s \in ResultStatuses : Result(r, s)
    BY <1>1, <2>4 DEF Result
  <2> QED BY <1>10, <2>1, <2>2, <2>3, <2>4
<1>11. CASE Environment
  <2>1. ASSUME NEW r \in Runs, Nav2Cancel(r) PROVE UNCHANGED <<goalStates, goalHandles>>
    BY <2>1 DEF Nav2Cancel, tableVars
  <2>2. ASSUME NEW r \in Runs, CancelGranted(r) \/ CancelRefused(r) PROVE LatchGoesOn(q)
    <3>1. r # q /\ UNCHANGED goalHandles
      BY <1>2, <2>2 DEF CancelGranted, CancelRefused
    <3>2. UNCHANGED goalStates \/ \E b \in BOOLEAN : SetRun(r, "RUNNING", b)
      BY <2>2 DEF CancelGranted, CancelRefused, RecordCancelAnswer
    <3> QED BY <1>1, <1>3, <1>4, <3>1, <3>2, StateSets
  <2> QED BY <1>1, <1>3, <1>11, <2>1, <2>2 DEF Environment
<1>12. CASE UNCHANGED <<goalStates, goalHandles>>
  BY <1>1, <1>3, <1>12
<1>13. CASE UNCHANGED goalVars \/ BringupStep
  BY <1>12, <1>13 DEF goalVars, tableVars, BringupStep, NodeUp, WaitForAction
<1>14. ASSUME NEW c \in Callers, HandlerStep(c) PROVE LatchGoesOn(q)
  BY <1>6, <1>12, <1>14, CancelCallRun DEF HandlerStep, Navigate, NavigateEnqueue, tableVars
<1>15. CASE DispatcherStep
  BY <1>8, <1>9, <1>12, <1>15 DEF DispatcherStep, DispatchSkip, DispatchSend, tableVars
<1>16. ASSUME NEW t \in Threads, IssueStep(t) \/ Restored(t) PROVE LatchGoesOn(q)
  BY <1>7, <1>12, <1>16 DEF IssueStep, IssueCancel, Restored, tableVars
<1> QED BY <1>10, <1>11, <1>13, <1>14, <1>15, <1>16 DEF Next, ExecutorStep

(* A cancel accepted before Nav2 returned the handle is not lost: it stays *)
(* latched until the run ends or the executor has it in hand to forward    *)
(* (cancel, _dispatch_goal, _goal_response_cb).                            *)
THEOREM LatchKept ==
  ASSUME "UNKNOWN" \notin ResultStatuses
  PROVE  Spec => LatchIsKept
<1>1. Init => EndedIsTerminal
  BY DEF Init, EndedIsTerminal
<1>2. TypeOK /\ Inv /\ EndedIsTerminal /\ [Next]_goalVars => EndedIsTerminal'
  BY EndedStep
<1>3. Spec => []EndedIsTerminal
  BY <1>1, <1>2, TypeCorrect, InvCorrect, PTL DEF Spec
<1>4. TypeOK /\ Inv /\ CancelInv /\ EndedIsTerminal /\ [Next]_goalVars =>
        [\A r \in Runs :
           Latched(r) =>
             \/ Latched(r)'
             \/ IsTerminal(r)'
             \/ r \in goalHandles' /\ pc'[Executor] = "issue" /\ at'[Executor] = r]_goalVars
  BY LatchStep DEF LatchGoesOn
<1> QED
  BY <1>3, <1>4, TypeCorrect, InvCorrect, CancelInvCorrect, PTL DEF Spec, LatchIsKept
=============================================================================
