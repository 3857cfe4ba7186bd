----------------------- MODULE TerminalControlProofs -----------------------
(***************************************************************************)
(* Theorems about the goal checker and the critic, for any number of       *)
(* goals, any poses, tolerances and times, while Nav2 executes one goal at *)
(* a time (OneAtATime) and, for all but the types, the plugins hear of a   *)
(* goal before it is followed or over (PromptStatus).                      *)
(***************************************************************************)
EXTENDS TerminalControl, SequenceTheorems, TLAPS

OneAtATime == ~Preemption

Windows ==
  [in : BOOLEAN, enteredAt : 0..now, progressAt : 0..now, bestError : Nat,
   allowed : Nat, rotation : Nat, lastYaw : 0..Turn-1]

PluginTypes ==
  /\ activeUuid \in [Plugins -> Nat]
  /\ epoch \in [Plugins -> Nat]
  /\ seenEpoch \in [Plugins -> Nat]
  /\ storedGoal \in [Plugins -> GoalPoses \cup {NoPose}]
  /\ xyLatched \in BOOLEAN /\ yawLatched \in BOOLEAN
  /\ window \in Windows
  /\ rotating \in BOOLEAN /\ yawReached \in BOOLEAN
  /\ answer \in {NoAnswer} \cup [reached : BOOLEAN, commands : SUBSET Trajectories]

NavTypes ==
  /\ executing \subseteq Goals /\ accepted \in Nat /\ current \in Nat /\ now \in Nat
  /\ pending \in [Plugins -> Seq(SUBSET Goals)]

OwnTypes ==
  /\ approached \subseteq Plugins /\ turnedTo \in BOOLEAN /\ committed \in BOOLEAN

Types == PluginTypes /\ NavTypes /\ OwnTypes

-----------------------------------------------------------------------------
(* The inductive invariant.                                                *)

\* Nav2 executes no goal but the newest, and the controller follows no other.
RunInv ==
  /\ executing \subseteq {accepted}
  /\ current # 0 => current = accepted /\ executing # {}

(* What a plugin has not heard yet lists goals from the one it knows on,   *)
(* in order and one at a time, and ends with the newest.                   *)
InOrder(unheard, known, newest) ==
  /\ \A i \in 1..Len(unheard) : \A g \in unheard[i] : known <= g /\ g <= newest
  /\ \A i, j \in 1..Len(unheard) : i <= j => \A g \in unheard[i], h \in unheard[j] : g <= h
  /\ known = newest \/ \E i \in 1..Len(unheard) : newest \in unheard[i]

HeardInv ==
  \A p \in Plugins :
    /\ activeUuid[p] <= accepted
    /\ seenEpoch[p] <= epoch[p] /\ epoch[p] <= activeUuid[p]
    /\ InOrder(pending[p], activeUuid[p], accepted)

(* Before a goal is followed, its predecessor's status has been taken in,  *)
(* its own has not.                                                        *)
WaitInv ==
  current = 0 =>
    \A p \in Plugins :
      /\ storedGoal[p] # NoPose => seenEpoch[p] # 0
      /\ executing # {} /\ seenEpoch[p] # 0 =>
           activeUuid[p] < accepted \/ seenEpoch[p] < epoch[p]

(* The controller has not called the plugin for the goal it follows, or it *)
(* has, and then only a pose known before the first status starts it anew. *)
Fresh(p) ==
  storedGoal[p] = NoPose \/ (epoch[p] # 0 /\ seenEpoch[p] # 0 /\ epoch[p] # seenEpoch[p])
Begun(p) == storedGoal[p] # NoPose /\ seenEpoch[p] \in {0, epoch[p]}

CheckerIsOwn ==
  /\ "checker" \in approached <=> xyLatched
  /\ yawLatched => turnedTo

CriticIsOwn ==
  /\ "critic" \in approached <=> window.in
  /\ windowSince = IF window.in THEN window.enteredAt ELSE NoTime
  /\ committed <=> rotating
  /\ rotating => window.in

FollowInv ==
  current # 0 =>
    /\ \/ Fresh("checker") /\ "checker" \notin approached /\ ~turnedTo
       \/ Begun("checker") /\ CheckerIsOwn
    /\ \/ Fresh("critic") /\ "critic" \notin approached /\ windowSince = NoTime /\ ~committed
       \/ Begun("critic") /\ CriticIsOwn
    /\ current > 1 => AllHeard

-----------------------------------------------------------------------------
(* What the operators return.                                              *)

LEMMA MaxOfOne ==
  ASSUME NEW S \in SUBSET Int, S # {}, \A x, y \in S : x = y
  PROVE  Max(S) \in S
<1>1. PICK x \in S : TRUE
  OBVIOUS
<1>2. \A y \in S : x >= y
  OBVIOUS
<1> QED BY <1>1, <1>2 DEF Max

LEMMA PairTyped ==
  ASSUME NEW a \in Nat, NEW b \in Nat
  PROVE  Max({a, b}) \in Nat /\ Min({a, b}) \in Nat
<1>1. \E x \in {a, b} : \A y \in {a, b} : x >= y
  <2>1. CASE a >= b
    BY <2>1
  <2>2. CASE b >= a
    BY <2>2
  <2> QED BY <2>1, <2>2
<1>2. \E x \in {a, b} : \A y \in {a, b} : x =< y
  <2>1. CASE a >= b
    BY <2>1
  <2>2. CASE b >= a
    BY <2>2
  <2> QED BY <2>1, <2>2
<1>3. Max({a, b}) \in {a, b}
  BY <1>1 DEF Max
<1>4. Min({a, b}) \in {a, b}
  BY <1>2 DEF Min
<1> QED BY <1>3, <1>4

LEMMA ApartRange ==
  ASSUME NEW a \in 0..Turn-1, NEW b \in 0..Turn-1
  PROVE  Apart(a, b) \in Nat
<1> DEFINE ahead == (b - a + Turn) % Turn
<1>1. \A n \in Nat : n % Turn \in 0..Turn-1
  BY TerminalAssumption DEF TerminalAssumption
<1>2. b - a + Turn \in Nat
  BY TerminalAssumption DEF TerminalAssumption
<1>3. ahead \in 0..Turn-1
  BY <1>1, <1>2
<1>4. Apart(a, b) = IF 2 * ahead <= Turn THEN ahead ELSE Turn - ahead
  BY DEF Apart
<1> HIDE DEF ahead
<1> QED BY <1>3, <1>4, TerminalAssumption DEF TerminalAssumption

LEMMA RobotFacts ==
  ASSUME NEW robot \in Robots, NEW goal \in GoalPoses
  PROVE  /\ robot.distance \in Nat /\ robot.yaw \in 0..Turn-1
         /\ robot.motion.speed \in Nat /\ robot.motion.turning \in BOOLEAN
         /\ Apart(robot.yaw, goal.yaw) \in Nat
<1>1. robot.yaw \in 0..Turn-1 /\ goal.yaw \in 0..Turn-1
  BY TerminalAssumption DEF Robots, TerminalAssumption
<1> QED BY <1>1, ApartRange, TerminalAssumption DEF Robots, TerminalAssumption

\* What a step appends to the unheard statuses lists the newest goal or none.
LEMMA OrderAppended ==
  ASSUME NEW u \in Seq(SUBSET Goals), NEW known \in Nat, NEW newest \in Nat, NEW next \in Nat,
         InOrder(u, known, newest), known <= newest, newest <= next,
         NEW x \in SUBSET Goals, x \subseteq {next}, next = newest \/ next \in x
  PROVE  Append(u, x) \in Seq(SUBSET Goals) /\ InOrder(Append(u, x), known, next)
<1> DEFINE v == Append(u, x)
<1>1. /\ v \in Seq(SUBSET Goals) /\ Len(v) = Len(u) + 1
      /\ \A i \in 1..Len(u) : v[i] = u[i]
      /\ v[Len(u)+1] = x
  BY AppendProperties
<1>2. Len(u) \in Nat /\ \A i \in 1..Len(u) : u[i] \subseteq Goals
  BY LenProperties
<1>3. \A i \in 1..Len(v) : i \in 1..Len(u) \/ i = Len(u) + 1
  BY <1>1, <1>2
<1>4. \A g \in Goals : g \in Nat
  BY TerminalAssumption DEF Goals, TerminalAssumption
<1> HIDE DEF v
<1>5. \A i \in 1..Len(v) : \A g \in v[i] : known <= g /\ g <= next
  <2>1. ASSUME NEW i \in 1..Len(u), NEW g \in u[i] PROVE known <= g /\ g <= next
    <3>1. known <= g /\ g <= newest
      BY <2>1 DEF InOrder
    <3>2. g \in Nat
      BY <1>2, <1>4, <2>1
    <3> QED BY <3>1, <3>2
  <2>2. \A g \in x : known <= g /\ g <= next
    OBVIOUS
  <2>3. ASSUME NEW i \in 1..Len(v), NEW g \in v[i] PROVE known <= g /\ g <= next
    <3>1. CASE i \in 1..Len(u)
      BY <1>1, <2>1, <2>3, <3>1
    <3>2. CASE i = Len(u) + 1
      BY <1>1, <2>2, <2>3, <3>2
    <3> QED BY <1>3, <3>1, <3>2
  <2> QED BY <2>3
<1>6. \A i, j \in 1..Len(v) : i <= j => \A g \in v[i], h \in v[j] : g <= h
  <2>1. ASSUME NEW i \in 1..Len(v), NEW j \in 1..Len(v), i <= j, NEW g \in v[i], NEW h \in v[j]
        PROVE  g <= h
    <3>1. CASE j = Len(u) + 1
      BY <1>1, <1>5, <3>1
    <3>2. CASE j \in 1..Len(u)
      <4>1. i \in 1..Len(u)
        BY <1>2, <2>1, <3>2
      <4> QED BY <1>1, <2>1, <3>2, <4>1 DEF InOrder
    <3> QED BY <1>3, <3>1, <3>2
  <2> QED BY <2>1
<1>7. known = next \/ \E i \in 1..Len(v) : next \in v[i]
  <2>1. CASE next \in x
    BY <1>1, <1>2, <2>1
  <2>2. CASE next = newest
    <3>1. \A i \in 1..Len(u) : i \in 1..Len(v)
      BY <1>1, <1>2
    <3> QED BY <1>1, <2>2, <3>1 DEF InOrder
  <2> QED BY <2>1, <2>2
<1> QED BY <1>1, <1>5, <1>6, <1>7 DEF InOrder, v

\* A plugin that hears a status knows its goal, if it lists one.
LEMMA OrderHeard ==
  ASSUME NEW u \in Seq(SUBSET Goals), u # <<>>, NEW known \in Nat, NEW newest \in Nat,
         InOrder(u, known, newest)
  PROVE  /\ Tail(u) \in Seq(SUBSET Goals) /\ Head(u) \subseteq Goals
         /\ Head(u) = {} => InOrder(Tail(u), known, newest)
         /\ Head(u) # {} => /\ Max(Head(u)) \in Head(u) /\ Max(Head(u)) \in Nat
                            /\ known <= Max(Head(u)) /\ Max(Head(u)) <= newest
                            /\ InOrder(Tail(u), Max(Head(u)), newest)
<1> DEFINE v == Tail(u)
           m == Max(Head(u))
<1>1. /\ Head(u) \subseteq Goals /\ Head(u) = u[1]
      /\ v \in Seq(SUBSET Goals) /\ Len(v) = Len(u) - 1
      /\ \A i \in 1..Len(v) : v[i] = u[i+1]
  BY HeadTailProperties
<1>2. Len(u) \in Nat \ {0}
  BY EmptySeq
<1>3. \A g \in Goals : g \in Nat
  BY TerminalAssumption DEF Goals, TerminalAssumption
<1> HIDE DEF v
<1>4. \A i \in 1..Len(v) : i + 1 \in 1..Len(u) /\ 1 <= i + 1
  BY <1>1, <1>2
<1>5. 1 \in 1..Len(u) /\ \A i \in 1..Len(u) : i = 1 \/ (i - 1 \in 1..Len(v) /\ (i - 1) + 1 = i)
  BY <1>1, <1>2
<1>6. /\ \A i \in 1..Len(v) : \A g \in v[i] : known <= g /\ g <= newest
      /\ \A i, j \in 1..Len(v) : i <= j => \A g \in v[i], h \in v[j] : g <= h
  <2>1. \A i, j \in 1..Len(v) : i <= j => i + 1 <= j + 1
    OBVIOUS
  <2> QED BY <1>1, <1>4, <2>1 DEF InOrder
<1>7. CASE Head(u) = {}
  <2>1. known = newest \/ \E i \in 1..Len(v) : newest \in v[i]
    BY <1>1, <1>5, <1>7 DEF InOrder
  <2> QED BY <1>1, <1>6, <1>7, <2>1 DEF InOrder, v
<1>8. CASE Head(u) # {}
  <2>1. \A g, h \in Head(u) : g = h
    BY <1>1, <1>3, <1>5 DEF InOrder
  <2>2. m \in Head(u) /\ m \in Nat
    BY <1>1, <1>3, <1>8, <2>1, MaxOfOne
  <2> HIDE DEF m
  <2>3. known <= m /\ m <= newest
    BY <1>1, <1>5, <2>2 DEF InOrder
  <2>4. \A i \in 1..Len(v) : \A g \in v[i] : m <= g
    BY <1>1, <1>4, <1>5, <2>2 DEF InOrder
  <2>5. m = newest \/ \E i \in 1..Len(v) : newest \in v[i]
    <3>1. CASE known = newest
      BY <2>2, <2>3, <3>1
    <3>2. ASSUME NEW i \in 1..Len(u), newest \in u[i]
          PROVE  m = newest \/ \E k \in 1..Len(v) : newest \in v[k]
      BY <1>1, <1>5, <2>1, <2>2, <3>2
    <3> QED BY <3>1, <3>2 DEF InOrder
  <2> QED BY <1>1, <1>6, <1>8, <2>2, <2>3, <2>4, <2>5 DEF InOrder, v, m
<1> QED BY <1>7, <1>8

-----------------------------------------------------------------------------
(* The critic's window.                                                    *)

LEMMA EnterFacts ==
  ASSUME now \in Nat, NEW w \in Windows, NEW robot \in Robots, NEW error \in Nat,
         robot.distance \in Nat, robot.yaw \in 0..Turn-1
  PROVE  LET e == EnterWindow(w, robot, error) IN
         /\ e \in Windows
         /\ e.in <=> (w.in \/ robot.distance <= XyEnter)
         /\ w.in => e.enteredAt = w.enteredAt
         /\ ~w.in /\ e.in => e.enteredAt = now
<1> DEFINE allowed == Max({LeastAllowed, error + RotationMargin})
<1>1. allowed \in Nat
  <2>1. LeastAllowed \in Nat
    BY TerminalAssumption DEF TerminalAssumption
  <2>2. RotationMargin \in Nat
    BY TerminalAssumption DEF TerminalAssumption
  <2>3. error + RotationMargin \in Nat
    BY <2>2
  <2> QED BY <2>1, <2>3, PairTyped
<1> HIDE DEF allowed
<1> DEFINE n == [in |-> TRUE, enteredAt |-> now, progressAt |-> now, bestError |-> error,
                 allowed |-> allowed, rotation |-> w.rotation, lastYaw |-> robot.yaw]
<1>2. NewWindow(w, robot, error) = n
  BY DEF NewWindow, allowed
<1>3. now \in 0..now
  OBVIOUS
<1>4. n \in Windows
  BY <1>1, <1>3 DEF Windows
<1> QED BY <1>2, <1>4 DEF EnterWindow, Windows

LEMMA TurnedFacts ==
  ASSUME NEW w \in Windows, NEW robot \in Robots, robot.yaw \in 0..Turn-1
  PROVE  LET t == Turned(w, robot) IN
         t \in Windows /\ t.in = w.in /\ t.enteredAt = w.enteredAt
<1> DEFINE rotation == Min({w.rotation + Apart(w.lastYaw, robot.yaw), MaxRotation})
<1>1. w.rotation \in Nat /\ w.lastYaw \in 0..Turn-1
  BY DEF Windows
<1>2. rotation \in Nat
  <2>1. Apart(w.lastYaw, robot.yaw) \in Nat
    BY <1>1, ApartRange
  <2>2. w.rotation + Apart(w.lastYaw, robot.yaw) \in Nat /\ MaxRotation \in Nat
    BY <1>1, <2>1, TerminalAssumption DEF TerminalAssumption
  <2> QED BY <2>2, PairTyped
<1>3. Turned(w, robot) = [w EXCEPT !.rotation = rotation, !.lastYaw = robot.yaw]
  BY DEF Turned
<1> HIDE DEF rotation
<1> QED BY <1>2, <1>3 DEF Windows

LEMMA ProgressedFacts ==
  ASSUME now \in Nat, NEW w \in Windows, NEW error \in Nat
  PROVE  LET q == Progressed(w, error) IN
         q \in Windows /\ q.in = w.in /\ q.enteredAt = w.enteredAt
<1>1. now \in 0..now
  OBVIOUS
<1> QED BY <1>1 DEF Progressed, Windows

\* What prepare leaves of the window that the goal had before, if it had one.
LEMMA PrepareFacts ==
  ASSUME Types, NEW robot \in Robots, NEW goal \in GoalPoses, NEW accepts \in BOOLEAN,
         Prepare(robot, goal, accepts)
  PROVE  LET keep == ~ShouldStartGoal("critic", goal)
             was == keep /\ window.in
         IN
         /\ window' \in Windows /\ rotating' \in BOOLEAN /\ yawReached' \in BOOLEAN
         /\ window'.in <=> (was \/ robot.distance <= XyEnter)
         /\ was => window'.enteredAt = window.enteredAt
         /\ ~was /\ window'.in => window'.enteredAt = now
         /\ keep /\ rotating => rotating'
         /\ rotating' => (window'.in \/ (keep /\ rotating))
         /\ accepts /\ window'.in => now - window'.enteredAt <= MaxTerminalDuration
<1> DEFINE keep == ~ShouldStartGoal("critic", goal)
           error == Apart(robot.yaw, goal.yaw)
           w == IF keep THEN window ELSE NoWindow
           entered == EnterWindow(w, robot, error)
           turned == Turned(entered, robot)
           yawWas == yawReached /\ keep
           rotatingWas == rotating /\ keep
<1>1. /\ now \in Nat /\ window \in Windows /\ rotating \in BOOLEAN /\ yawReached \in BOOLEAN
      /\ keep \in BOOLEAN /\ robot.distance \in Nat /\ robot.yaw \in 0..Turn-1 /\ error \in Nat
  BY RobotFacts DEF Types, PluginTypes, NavTypes
<1>2. NoWindow \in Windows /\ ~NoWindow.in
  BY <1>1, TerminalAssumption DEF NoWindow, Windows, TerminalAssumption
<1> HIDE DEF keep, error
<1>3. w \in Windows /\ (w.in <=> (keep /\ window.in)) /\ (keep /\ window.in => w.enteredAt = window.enteredAt)
  BY <1>1, <1>2
<1> HIDE DEF w
<1>4. /\ entered \in Windows
      /\ entered.in <=> (w.in \/ robot.distance <= XyEnter)
      /\ w.in => entered.enteredAt = w.enteredAt
      /\ ~w.in /\ entered.in => entered.enteredAt = now
  BY <1>1, <1>3, EnterFacts
<1> HIDE DEF entered
<1>5. turned \in Windows /\ turned.in = entered.in /\ turned.enteredAt = entered.enteredAt
  BY <1>1, <1>4, TurnedFacts
<1> HIDE DEF turned
<1>6. LET q == Progressed(turned, error) IN
      q \in Windows /\ q.in = turned.in /\ q.enteredAt = turned.enteredAt
  BY <1>1, <1>5, ProgressedFacts
<1>7. \/ /\ window' = entered /\ rotating' = rotatingWas /\ yawReached' = yawWas
         /\ accepts => ~entered.in
      \/ /\ window' = turned /\ rotating' = rotatingWas /\ yawReached' = yawWas
         /\ ~accepts
      \/ /\ window' = Progressed(turned, error) /\ entered.in /\ ~Overdue(entered, robot)
         /\ yawReached' = (yawWas \/ error <= YawEnter)
         /\ rotating' = IF accepts THEN RotatingOnceStopped(rotatingWas, robot.motion.speed)
                                   ELSE rotatingWas
  BY DEF Prepare, turned, entered, w, error, keep
<1>8. /\ window' \in Windows /\ window'.in = entered.in /\ window'.enteredAt = entered.enteredAt
  BY <1>4, <1>5, <1>6, <1>7
<1>9. rotating' \in BOOLEAN /\ yawReached' \in BOOLEAN
  BY <1>1, <1>7 DEF RotatingOnceStopped
<1>10. rotatingWas => rotating'
  BY <1>1, <1>7 DEF RotatingOnceStopped
<1>11. rotating' => (entered.in \/ rotatingWas)
  BY <1>1, <1>7 DEF RotatingOnceStopped
<1>12. accepts /\ entered.in => now - entered.enteredAt <= MaxTerminalDuration
  BY <1>1, <1>4, <1>7, TerminalAssumption DEF Overdue, Windows, TerminalAssumption
<1> HIDE DEF rotatingWas, yawWas
<1>13. (keep /\ rotating) <=> rotatingWas
  BY DEF rotatingWas
<1> QED BY <1>3, <1>4, <1>8, <1>9, <1>10, <1>11, <1>12, <1>13 DEF keep

-----------------------------------------------------------------------------
(* The plugins' epochs follow the goals.                                   *)

RunsInv == Types /\ RunInv /\ HeardInv

LEMMA RunsInit == TerminalInit => RunsInv
<1> SUFFICES ASSUME TerminalInit PROVE RunsInv
  OBVIOUS
<1> USE DEF TerminalInit
<1>1. NoWindow \in Windows
  BY TerminalAssumption DEF NoWindow, Windows, TerminalAssumption
<1>2. Types
  <2>1. PluginTypes
    BY <1>1 DEF PluginTypes
  <2>2. <<>> \in Seq(SUBSET Goals)
    OBVIOUS
  <2>3. NavTypes
    BY <2>2 DEF NavTypes
  <2> QED BY <2>1, <2>3 DEF Types, OwnTypes
<1>3. RunInv
  BY DEF RunInv
<1>4. Len(<<>>) = 0
  OBVIOUS
<1>5. HeardInv
  BY <1>4 DEF HeardInv, InOrder
<1> QED BY <1>2, <1>3, <1>5 DEF RunsInv

LEMMA ObserveFacts ==
  ASSUME Types, HeardInv, NEW p \in Plugins, Observe(p)
  PROVE  /\ PluginTypes' /\ NavTypes' /\ HeardInv'
         /\ answer' = NoAnswer
         /\ UNCHANGED <<seenEpoch, controlVars, ownVars, executing, accepted, current, now>>
         /\ \A q \in Plugins : pending'[q] = <<>> => pending[q] = <<>> \/ q = p
         /\ \A q \in Plugins :
              /\ activeUuid[q] <= activeUuid'[q]
              /\ activeUuid'[q] # activeUuid[q] => epoch'[q] = epoch[q] + 1
              /\ activeUuid'[q] = activeUuid[q] => epoch'[q] = epoch[q]
<1> DEFINE u == pending[p]
           m == Max(Head(u))
           moves == Head(u) # {} /\ m # activeUuid[p]
<1>1. /\ u # <<>> /\ pending' = [pending EXCEPT ![p] = Tail(u)]
      /\ moves => /\ activeUuid' = [activeUuid EXCEPT ![p] = m]
                   /\ epoch' = [epoch EXCEPT ![p] = epoch[p] + 1]
      /\ ~moves => UNCHANGED <<activeUuid, epoch>>
      /\ answer' = NoAnswer
      /\ UNCHANGED <<seenEpoch, controlVars, ownVars, executing, accepted, current, now>>
  BY DEF Observe, NewActive
<1>2. /\ u \in Seq(SUBSET Goals) /\ activeUuid[p] \in Nat /\ accepted \in Nat
      /\ InOrder(u, activeUuid[p], accepted)
  BY DEF HeardInv, Types, NavTypes, PluginTypes
<1>3. /\ Tail(u) \in Seq(SUBSET Goals)
      /\ Head(u) = {} => InOrder(Tail(u), activeUuid[p], accepted)
      /\ Head(u) # {} => /\ m \in Nat /\ activeUuid[p] <= m /\ m <= accepted
                         /\ InOrder(Tail(u), m, accepted)
  BY <1>1, <1>2, OrderHeard
<1> HIDE DEF m, u
<1>4. /\ activeUuid \in [Plugins -> Nat] /\ epoch \in [Plugins -> Nat]
      /\ pending \in [Plugins -> Seq(SUBSET Goals)]
  BY DEF Types, PluginTypes, NavTypes
<1>5. /\ activeUuid' \in [Plugins -> Nat] /\ epoch' \in [Plugins -> Nat]
      /\ pending' \in [Plugins -> Seq(SUBSET Goals)]
  <2>1. pending' \in [Plugins -> Seq(SUBSET Goals)]
    BY <1>1, <1>3, <1>4
  <2>2. epoch[p] + 1 \in Nat
    BY <1>4
  <2>3. epoch' \in [Plugins -> Nat]
    BY <1>1, <1>4, <2>2
  <2>4. activeUuid' \in [Plugins -> Nat]
    BY <1>1, <1>3, <1>4
  <2> QED BY <2>1, <2>3, <2>4
<1>6. \A q \in Plugins : q # p =>
        activeUuid'[q] = activeUuid[q] /\ epoch'[q] = epoch[q] /\ pending'[q] = pending[q]
  BY <1>1, <1>4
<1>7. /\ pending'[p] = Tail(u) /\ InOrder(Tail(u), activeUuid'[p], accepted)
      /\ activeUuid[p] <= activeUuid'[p]
      /\ \/ activeUuid'[p] = activeUuid[p] /\ epoch'[p] = epoch[p]
         \/ /\ activeUuid'[p] # activeUuid[p] /\ epoch'[p] = epoch[p] + 1
            /\ activeUuid'[p] <= accepted
  <2>1. CASE moves
    BY <1>1, <1>2, <1>3, <1>4, <2>1
  <2>2. CASE ~moves
    BY <1>1, <1>2, <1>3, <1>4, <2>2
  <2> QED BY <2>1, <2>2
<1> HIDE DEF moves
<1>8. PluginTypes'
  BY <1>1, <1>5 DEF Types, PluginTypes, Windows, controlVars, checkerVars, criticVars
<1>9. NavTypes'
  BY <1>1, <1>5 DEF Types, NavTypes
<1>10. HeardInv'
  <2>1. ASSUME NEW q \in Plugins, q # p
        PROVE  /\ activeUuid'[q] <= accepted
               /\ seenEpoch[q] <= epoch'[q] /\ epoch'[q] <= activeUuid'[q]
               /\ InOrder(pending'[q], activeUuid'[q], accepted)
    BY <1>6, <2>1 DEF HeardInv
  <2>2. /\ seenEpoch[p] \in Nat /\ epoch[p] \in Nat /\ activeUuid[p] \in Nat /\ activeUuid'[p] \in Nat
        /\ seenEpoch[p] <= epoch[p] /\ epoch[p] <= activeUuid[p] /\ activeUuid[p] <= accepted
    BY <1>4, <1>5 DEF HeardInv, Types, PluginTypes
  <2>3. /\ activeUuid'[p] <= accepted
        /\ seenEpoch[p] <= epoch'[p] /\ epoch'[p] <= activeUuid'[p]
    BY <1>2, <1>7, <2>2
  <2> QED BY <1>1, <1>7, <2>1, <2>3 DEF HeardInv
<1>11. \A q \in Plugins : activeUuid[q] <= activeUuid[q]
  BY <1>4
<1>12. ASSUME NEW q \in Plugins, pending'[q] = <<>> PROVE pending[q] = <<>> \/ q = p
  BY <1>6, <1>12
<1>13. ASSUME NEW q \in Plugins
       PROVE  /\ activeUuid[q] <= activeUuid'[q]
              /\ activeUuid'[q] # activeUuid[q] => epoch'[q] = epoch[q] + 1
              /\ activeUuid'[q] = activeUuid[q] => epoch'[q] = epoch[q]
  BY <1>6, <1>7, <1>11
<1> QED BY <1>1, <1>8, <1>9, <1>10, <1>12, <1>13

LEMMA PublishFacts ==
  ASSUME Types, HeardInv, accepted' \in Nat, accepted <= accepted',
         executing' \subseteq Goals, executing' \subseteq {accepted'},
         accepted' = accepted \/ accepted' \in executing',
         Publish(executing'), UNCHANGED epochVars
  PROVE  /\ pending' \in [Plugins -> Seq(SUBSET Goals)] /\ HeardInv'
         /\ \A p \in Plugins : pending'[p] # <<>>
<1>1. ASSUME NEW p \in Plugins
      PROVE  /\ pending'[p] \in Seq(SUBSET Goals) /\ pending'[p] # <<>>
             /\ activeUuid[p] <= accepted'
             /\ seenEpoch[p] <= epoch[p] /\ epoch[p] <= activeUuid[p]
             /\ InOrder(pending'[p], activeUuid[p], accepted')
  <2>1. pending'[p] = Append(pending[p], executing')
    BY DEF Publish
  <2>2. /\ pending[p] \in Seq(SUBSET Goals) /\ activeUuid[p] \in Nat /\ accepted \in Nat
        /\ activeUuid[p] <= accepted
        /\ seenEpoch[p] <= epoch[p] /\ epoch[p] <= activeUuid[p]
        /\ InOrder(pending[p], activeUuid[p], accepted)
    BY DEF Types, PluginTypes, NavTypes, HeardInv
  <2>3. pending'[p] \in Seq(SUBSET Goals) /\ InOrder(pending'[p], activeUuid[p], accepted')
    BY <2>1, <2>2, OrderAppended
  <2>4. pending'[p] # <<>>
    BY <2>1, <2>2, AppendProperties
  <2> QED BY <2>2, <2>3, <2>4
<1>2. pending' = [p \in Plugins |-> pending'[p]]
  BY DEF Publish
<1> QED BY <1>1, <1>2 DEF HeardInv, epochVars

LEMMA CycleTypes ==
  ASSUME Types, NEW robot \in Robots, NEW goal \in GoalPoses, Cycle(robot, goal)
  PROVE  Types'
<1>1. PICK accepts \in BOOLEAN :
        /\ AdoptGoal(goal) /\ IsGoalReached(robot, goal)
        /\ Prepare(robot, goal, accepts)
        /\ answer' = [reached |-> Reached(robot, goal),
                      commands |-> {t \in Trajectories : accepts /\ ~Illegal(t, robot, goal)}]
        /\ RecordOwn(robot, goal)
        /\ UNCHANGED <<executing, accepted, current, pending, now>>
  BY DEF Cycle
<1>2. /\ window' \in Windows /\ rotating' \in BOOLEAN /\ yawReached' \in BOOLEAN
  BY <1>1, PrepareFacts
<1>3. storedGoal' \in [Plugins -> GoalPoses \cup {NoPose}] /\ seenEpoch' \in [Plugins -> Nat]
      /\ UNCHANGED <<activeUuid, epoch>>
  BY <1>1 DEF AdoptGoal, Types, PluginTypes
<1>4. xyLatched' \in BOOLEAN /\ yawLatched' \in BOOLEAN
  BY <1>1 DEF IsGoalReached
<1>5. answer' \in [reached : BOOLEAN, commands : SUBSET Trajectories]
  <2>1. Reached(robot, goal) \in BOOLEAN
    BY DEF Reached
  <2>2. {t \in Trajectories : accepts /\ ~Illegal(t, robot, goal)} \in SUBSET Trajectories
    OBVIOUS
  <2> QED BY <1>1, <2>1, <2>2
<1>6. PluginTypes'
  BY <1>1, <1>2, <1>3, <1>4, <1>5 DEF Types, PluginTypes, Windows
<1>7. OwnTypes'
  <2>1. approached' \subseteq Plugins /\ turnedTo' \in BOOLEAN /\ committed' \in BOOLEAN
    BY <1>1 DEF RecordOwn
  <2> QED BY <2>1 DEF OwnTypes
<1>8. NavTypes'
  BY <1>1 DEF Types, NavTypes
<1> QED BY <1>6, <1>7, <1>8 DEF Types

LEMMA CycleHeard ==
  ASSUME Types, HeardInv, NEW robot \in Robots, NEW goal \in GoalPoses, Cycle(robot, goal)
  PROVE  HeardInv'
<1>1. /\ UNCHANGED <<activeUuid, epoch, pending, accepted>>
      /\ seenEpoch' = [p \in Plugins |-> IF epoch[p] # 0 THEN epoch[p] ELSE seenEpoch[p]]
  BY DEF Cycle, AdoptGoal
<1>2. \A p \in Plugins : epoch[p] \in Nat /\ seenEpoch[p] \in Nat
  BY DEF Types, PluginTypes
<1>3. \A p \in Plugins : seenEpoch'[p] <= epoch[p]
  BY <1>1, <1>2 DEF HeardInv
<1> QED BY <1>1, <1>3 DEF HeardInv

\* What the other steps leave alone.
LEMMA NavSteps ==
  ASSUME TerminalNext
  PROVE  \/ \E p \in Plugins : Observe(p)
         \/ \E robot \in Robots, goal \in GoalPoses : Cycle(robot, goal)
         \/ /\ AcceptGoal \/ Relist \/ SwitchGoal \/ (\E g \in executing : EndGoal(g)) \/ Tick
            /\ answer' = NoAnswer /\ UNCHANGED <<epochVars, controlVars>>
BY DEF TerminalNext, AcceptGoal, Relist, SwitchGoal, EndGoal, Tick

LEMMA NavStepTypes ==
  ASSUME OneAtATime, RunsInv, AcceptGoal \/ Relist \/ SwitchGoal \/ (\E g \in executing : EndGoal(g)) \/ Tick
  PROVE  NavTypes' /\ OwnTypes' /\ RunInv' /\ HeardInv' /\ now <= now'
<1>1. /\ executing \subseteq Goals /\ executing \subseteq {accepted} /\ accepted \in Nat /\ now \in Nat
      /\ current \in Nat /\ (current # 0 => current = accepted /\ executing # {})
      /\ pending \in [Plugins -> Seq(SUBSET Goals)] /\ Types /\ HeardInv /\ OwnTypes
  BY DEF RunsInv, RunInv, Types, NavTypes
<1>2. \A g \in Goals : g \in Nat \ {0}
  BY TerminalAssumption DEF Goals, TerminalAssumption
<1>3. executing # {} => executing = {accepted} /\ accepted \in Goals /\ Max(executing) = accepted
  <2>1. ASSUME executing # {} PROVE executing = {accepted} /\ accepted \in Goals
    BY <1>1, <2>1
  <2>2. ASSUME executing # {} PROVE Max(executing) \in executing
    BY <1>1, <1>2, <2>2, MaxOfOne
  <2> QED BY <2>1, <2>2
<1>4. CASE AcceptGoal
  <2>1. /\ executing = {} /\ accepted' = accepted + 1 /\ executing' = {accepted'} /\ accepted' \in Goals
        /\ Publish(executing') /\ UNCHANGED <<epochVars, ownVars, current, now>>
    <3>1. /\ accepted < MaxGoals /\ executing = {} /\ accepted' = accepted + 1
          /\ executing' = executing \cup {accepted'}
          /\ Publish(executing') /\ UNCHANGED <<epochVars, ownVars, current, now>>
      BY <1>4 DEF AcceptGoal, OneAtATime
    <3>2. accepted + 1 \in 1..MaxGoals
      BY <1>1, <3>1, TerminalAssumption DEF TerminalAssumption
    <3> QED BY <3>1, <3>2 DEF Goals
  <2>2. accepted' \in Nat /\ accepted <= accepted'
    BY <1>1, <2>1
  <2>3. pending' \in [Plugins -> Seq(SUBSET Goals)] /\ HeardInv'
    BY <1>1, <2>1, <2>2, PublishFacts
  <2>4. NavTypes' /\ OwnTypes'
    BY <1>1, <2>1, <2>2, <2>3 DEF NavTypes, OwnTypes, ownVars
  <2>5. RunInv' /\ now <= now'
    BY <1>1, <2>1 DEF RunInv
  <2> QED BY <2>3, <2>4, <2>5
<1>5. CASE Relist
  <2>1. Publish(executing') /\ UNCHANGED <<epochVars, ownVars, executing, accepted, current, now>>
    BY <1>5 DEF Relist
  <2>2. accepted <= accepted' /\ now <= now'
    BY <1>1, <2>1
  <2>3. pending' \in [Plugins -> Seq(SUBSET Goals)] /\ HeardInv'
    BY <1>1, <2>1, <2>2, PublishFacts
  <2>4. NavTypes' /\ OwnTypes' /\ RunInv'
    BY <1>1, <2>1, <2>3 DEF NavTypes, OwnTypes, RunInv, ownVars
  <2> QED BY <2>2, <2>3, <2>4
<1>6. CASE SwitchGoal
  <2>1. /\ executing # {} /\ current' = Max(executing) /\ UNCHANGED <<epochVars, executing, accepted, pending, now>>
        /\ approached' = {} /\ turnedTo' = FALSE /\ committed' = FALSE
    BY <1>6 DEF SwitchGoal
  <2>2. HeardInv'
    BY <1>1, <2>1 DEF HeardInv, epochVars
  <2>3. NavTypes' /\ OwnTypes' /\ RunInv' /\ now <= now'
    <3>1. current' = accepted /\ accepted \in Nat /\ now <= now'
      BY <1>1, <1>3, <2>1
    <3> QED BY <1>1, <2>1, <3>1 DEF NavTypes, OwnTypes, RunInv
  <2> QED BY <2>2, <2>3
<1>7. CASE \E g \in executing : EndGoal(g)
  <2>1. PICK g \in executing : EndGoal(g)
    BY <1>7
  <2>2. /\ executing' = executing \ {g} /\ current' = IF current = g THEN 0 ELSE current
        /\ Publish(executing') /\ UNCHANGED <<epochVars, ownVars, accepted, now>>
    BY <2>1 DEF EndGoal
  <2>3. accepted <= accepted' /\ now <= now' /\ executing' = {} /\ current' = 0
    BY <1>1, <1>3, <2>2
  <2>4. pending' \in [Plugins -> Seq(SUBSET Goals)] /\ HeardInv'
    BY <1>1, <2>2, <2>3, PublishFacts
  <2>5. NavTypes' /\ OwnTypes' /\ RunInv'
    BY <1>1, <2>2, <2>3, <2>4 DEF NavTypes, OwnTypes, RunInv, ownVars
  <2> QED BY <2>3, <2>4, <2>5
<1>8. CASE Tick
  <2>1. now' = now + 1 /\ UNCHANGED <<epochVars, ownVars, executing, accepted, current, pending>>
    BY <1>8 DEF Tick
  <2>2. now' \in Nat /\ now <= now'
    BY <1>1, <2>1
  <2>3. HeardInv'
    BY <1>1, <2>1 DEF HeardInv, epochVars
  <2> QED BY <1>1, <2>1, <2>2, <2>3 DEF NavTypes, OwnTypes, RunInv, ownVars
<1> QED BY <1>4, <1>5, <1>6, <1>7, <1>8

LEMMA RunsStep == ASSUME OneAtATime, RunsInv, [TerminalNext]_terminalVars PROVE RunsInv'
<1>1. Types /\ RunInv /\ HeardInv
  BY DEF RunsInv
<1>2. ASSUME NEW p \in Plugins, Observe(p) PROVE RunsInv'
  <2>1. PluginTypes' /\ NavTypes' /\ HeardInv' /\ UNCHANGED <<ownVars, executing, accepted, current>>
    BY <1>1, <1>2, ObserveFacts
  <2> QED BY <1>1, <2>1 DEF RunsInv, Types, OwnTypes, RunInv, ownVars
<1>3. ASSUME NEW robot \in Robots, NEW goal \in GoalPoses, Cycle(robot, goal) PROVE RunsInv'
  <2>1. UNCHANGED <<executing, accepted, current>>
    BY <1>3 DEF Cycle
  <2> QED BY <1>1, <1>3, <2>1, CycleTypes, CycleHeard DEF RunsInv, RunInv
<1>4. CASE /\ AcceptGoal \/ Relist \/ SwitchGoal \/ (\E g \in executing : EndGoal(g)) \/ Tick
           /\ answer' = NoAnswer /\ UNCHANGED <<epochVars, controlVars>>
  <2>1. NavTypes' /\ OwnTypes' /\ RunInv' /\ HeardInv' /\ now <= now'
    BY <1>4, NavStepTypes
  <2>2. window' \in Windows'
    <3>1. 0..now \subseteq 0..now'
      BY <1>1, <2>1 DEF Types, NavTypes
    <3> QED BY <1>1, <1>4, <3>1 DEF Types, PluginTypes, Windows, controlVars, criticVars
  <2>3. PluginTypes'
    BY <1>1, <1>4, <2>2 DEF Types, PluginTypes, epochVars, controlVars, checkerVars, criticVars
  <2> QED BY <2>1, <2>3 DEF RunsInv, Types
<1>5. CASE UNCHANGED terminalVars
  BY <1>1, <1>5 DEF terminalVars, epochVars, controlVars, checkerVars, criticVars, ownVars, RunsInv, Types,
     PluginTypes, NavTypes, OwnTypes, Windows, RunInv, HeardInv
<1> QED BY <1>2, <1>3, <1>4, <1>5, NavSteps

LEMMA RunsCorrect == ASSUME OneAtATime PROVE TerminalSpec => []RunsInv
<1>1. RunsInv /\ [TerminalNext]_terminalVars => RunsInv'
  BY RunsStep
<1> QED BY <1>1, RunsInit, PTL DEF TerminalSpec

\* The plugins' types; the epoch of a plugin counts each goal once, however
\* often and whenever statuses list it (NavigateGoalEpoch::observe).
THEOREM TerminalTypeCorrect ==
  ASSUME OneAtATime
  PROVE  TerminalSpec => []TerminalTypeOK
<1>1. RunsInv => TerminalTypeOK
  <2> SUFFICES ASSUME RunsInv PROVE TerminalTypeOK
    OBVIOUS
  <2>1. PluginTypes /\ NavTypes /\ HeardInv
    BY DEF RunsInv, Types
  <2>2. \A p \in Plugins : /\ activeUuid[p] \in 0..accepted
                            /\ epoch[p] <= accepted /\ seenEpoch[p] <= epoch[p]
    BY <2>1 DEF PluginTypes, NavTypes, HeardInv
  <2>3. activeUuid \in [Plugins -> 0..accepted]
    BY <2>1, <2>2 DEF PluginTypes
  <2> QED BY <2>1, <2>2, <2>3 DEF PluginTypes, Windows, TerminalTypeOK
<1> QED BY <1>1, RunsCorrect, PTL

-----------------------------------------------------------------------------
(* What the plugins hold is the followed goal's own.                       *)

LEMMA RunFacts ==
  ASSUME RunsInv
  PROVE  /\ executing # {} => executing = {accepted} /\ accepted \in Goals /\ Max(executing) = accepted
         /\ \A g \in Goals : g \in Nat \ {0}
         /\ current # 0 => current = accepted /\ executing # {}
<1>1. executing \subseteq Goals /\ executing \subseteq {accepted}
  BY DEF RunsInv, RunInv, Types, NavTypes
<1>2. \A g \in Goals : g \in Nat \ {0}
  BY TerminalAssumption DEF Goals, TerminalAssumption
<1>3. executing # {} => executing = {accepted} /\ accepted \in Goals
  BY <1>1
<1>4. executing # {} => Max(executing) = accepted
  BY <1>1, <1>2, MaxOfOne
<1> QED BY <1>2, <1>3, <1>4 DEF RunsInv, RunInv

LEMMA EpochFacts ==
  ASSUME RunsInv, NEW p \in Plugins
  PROVE  /\ activeUuid[p] \in Nat /\ epoch[p] \in Nat /\ seenEpoch[p] \in Nat /\ accepted \in Nat
         /\ seenEpoch[p] <= epoch[p] /\ epoch[p] <= activeUuid[p] /\ activeUuid[p] <= accepted
         /\ pending[p] = <<>> => activeUuid[p] = accepted
<1>1. Len(<<>>) = 0
  OBVIOUS
<1> QED BY <1>1 DEF RunsInv, Types, PluginTypes, NavTypes, HeardInv, InOrder

\* Once the goal's first cycle is over, a plugin starts the goal again only
\* where it takes it for another one.
LEMMA StartFacts ==
  ASSUME NEW p \in Plugins, NEW goal
  PROVE  /\ Fresh(p) => ShouldStartGoal(p, goal)
         /\ Begun(p) => (ShouldStartGoal(p, goal) <=> TakenForAnother(p, goal))
BY DEF Fresh, Begun, ShouldStartGoal, TakenForAnother

LEMMA CycleFollows ==
  ASSUME RunsInv, FollowInv, NEW robot \in Robots, NEW goal \in GoalPoses, Cycle(robot, goal)
  PROVE  Begun("checker")' /\ CheckerIsOwn' /\ Begun("critic")' /\ CriticIsOwn'
<1> DEFINE near == robot.distance <= XyEnter
<1>1. /\ current # 0 /\ AdoptGoal(goal) /\ IsGoalReached(robot, goal) /\ RecordOwn(robot, goal)
      /\ \E accepts \in BOOLEAN : Prepare(robot, goal, accepts)
  BY DEF Cycle
<1>2. Types /\ Types'
  BY CycleTypes DEF RunsInv
<1>3. ASSUME NEW p \in Plugins PROVE Begun(p)'
  <2>1. storedGoal'[p] = IF ShouldStartGoal(p, goal) THEN goal ELSE storedGoal[p]
    BY <1>1 DEF AdoptGoal
  <2>2. storedGoal'[p] # NoPose
    BY <2>1, TerminalAssumption DEF ShouldStartGoal, TerminalAssumption
  <2>3. /\ seenEpoch'[p] = IF epoch[p] # 0 THEN epoch[p] ELSE seenEpoch[p]
        /\ epoch'[p] = epoch[p]
    BY <1>1 DEF AdoptGoal
  <2>4. seenEpoch'[p] \in {0, epoch'[p]}
    BY <2>3, EpochFacts
  <2> QED BY <2>2, <2>4 DEF Begun
<1>4. CheckerIsOwn'
  <2> DEFINE keep == ~ShouldStartGoal("checker", goal)
             taken == TakenForAnother("checker", goal)
  <2>1. (xyLatched /\ keep) <=> ("checker" \in approached /\ ~taken)
    BY <1>1, StartFacts DEF FollowInv, CheckerIsOwn, Plugins
  <2>2. yawLatched /\ keep => turnedTo /\ ~taken
    BY <1>1, StartFacts DEF FollowInv, CheckerIsOwn, Plugins
  <2> HIDE DEF keep, taken
  <2>3. "checker" \in approached' <=> (near \/ ("checker" \in approached /\ ~taken))
    BY <1>1 DEF RecordOwn, Plugins, taken
  <2>4. /\ xyLatched' <=> ((xyLatched /\ keep) \/ near)
        /\ yawLatched' <=> \/ yawLatched /\ keep
                           \/ AtXy(robot) /\ Apart(robot.yaw, goal.yaw) <= YawEnter
    BY <1>1 DEF IsGoalReached, keep
  <2>5. turnedTo' <=> \/ turnedTo /\ ~taken
                      \/ (robot.distance <= XyExit /\ Apart(robot.yaw, goal.yaw) <= YawEnter)
    BY <1>1 DEF RecordOwn, taken
  <2>6. yawLatched' => turnedTo'
    BY <2>2, <2>4, <2>5 DEF AtXy
  <2> QED BY <2>1, <2>3, <2>4, <2>6 DEF CheckerIsOwn
<1>5. CriticIsOwn'
  <2> DEFINE keep == ~ShouldStartGoal("critic", goal)
             was == keep /\ window.in
             taken == TakenForAnother("critic", goal)
             kept == "critic" \in approached /\ ~taken
  <2>1. /\ window'.in <=> (was \/ near)
        /\ was => window'.enteredAt = window.enteredAt
        /\ ~was /\ window'.in => window'.enteredAt = now
        /\ keep /\ rotating => rotating'
        /\ rotating' => (window'.in \/ (keep /\ rotating))
    BY <1>1, <1>2, PrepareFacts
  <2>2. /\ was <=> kept
        /\ was => windowSince = window.enteredAt
        /\ (keep /\ rotating) <=> (committed /\ ~taken)
        /\ keep /\ rotating => was
    BY <1>1, StartFacts DEF FollowInv, CriticIsOwn, Plugins
  <2> HIDE DEF keep, taken
  <2>3. /\ "critic" \in approached' <=> (near \/ kept)
        /\ windowSince' = IF kept THEN windowSince ELSE IF near THEN now ELSE NoTime
        /\ committed' <=> ((committed /\ ~taken) \/ (window'.in /\ rotating'))
    BY <1>1 DEF RecordOwn, Plugins, taken
  <2>4. "critic" \in approached' <=> window'.in
    BY <2>1, <2>2, <2>3
  <2>5. windowSince' = IF window'.in THEN window'.enteredAt ELSE NoTime
    BY <2>1, <2>2, <2>3
  <2>6. (committed' <=> rotating') /\ (rotating' => window'.in)
    BY <2>1, <2>2, <2>3
  <2> QED BY <2>4, <2>5, <2>6 DEF CriticIsOwn
<1> QED BY <1>3, <1>4, <1>5 DEF Plugins

LEMMA FollowKept ==
  ASSUME FollowInv, UNCHANGED <<current, pending, epochVars, controlVars, ownVars>>
  PROVE  FollowInv'
BY DEF FollowInv, Fresh, Begun, CheckerIsOwn, CriticIsOwn, AllHeard, epochVars, controlVars, checkerVars, criticVars, ownVars

LEMMA FollowObserve ==
  ASSUME RunsInv, RunsInv', WaitInv, FollowInv, NEW p \in Plugins, Observe(p)
  PROVE  WaitInv' /\ FollowInv'
<1>1. /\ UNCHANGED <<seenEpoch, controlVars, ownVars, executing, accepted, current, now>>
      /\ \A q \in Plugins :
           /\ activeUuid[q] <= activeUuid'[q]
           /\ activeUuid'[q] # activeUuid[q] => epoch'[q] = epoch[q] + 1
           /\ activeUuid'[q] = activeUuid[q] => epoch'[q] = epoch[q]
  BY ObserveFacts DEF RunsInv
<1>2. ASSUME NEW q \in Plugins
      PROVE  /\ activeUuid'[q] \in Nat /\ epoch'[q] \in Nat /\ activeUuid'[q] <= accepted
  BY <1>1, EpochFacts DEF RunsInv, Types, PluginTypes, HeardInv
<1>3. WaitInv'
  <2>1. ASSUME NEW q \in Plugins, seenEpoch[q] # 0, activeUuid[q] < accepted \/ seenEpoch[q] < epoch[q]
        PROVE  activeUuid'[q] < accepted \/ seenEpoch[q] < epoch'[q]
    BY <1>1, <1>2, <2>1, EpochFacts
  <2> QED BY <1>1, <2>1 DEF WaitInv, controlVars
<1>4. FollowInv'
  <2> SUFFICES ASSUME current # 0 PROVE FollowInv'
    BY <1>1 DEF FollowInv
  <2>1. ~(current > 1)
    BY DEF FollowInv, AllHeard, Observe
  <2>2. current = 1 /\ accepted = 1
    BY <2>1, RunFacts DEF RunsInv, Types, NavTypes
  <2>3. ASSUME NEW q \in Plugins, Fresh(q) PROVE Fresh(q)'
    <3>1. ~(epoch[q] # 0 /\ seenEpoch[q] # 0 /\ epoch[q] # seenEpoch[q])
      BY <2>2, EpochFacts
    <3> QED BY <1>1, <2>3, <3>1 DEF Fresh, controlVars
  <2>4. ASSUME NEW q \in Plugins, Begun(q) PROVE Begun(q)'
    <3>1. seenEpoch[q] = 0 \/ epoch'[q] = epoch[q]
      BY <1>1, <1>2, <2>2, <2>4, EpochFacts DEF Begun
    <3> QED BY <1>1, <2>4, <3>1 DEF Begun, controlVars
  <2>5. (CheckerIsOwn => CheckerIsOwn') /\ (CriticIsOwn => CriticIsOwn')
    BY <1>1 DEF CheckerIsOwn, CriticIsOwn, controlVars, checkerVars, criticVars, ownVars
  <2> QED BY <1>1, <2>2, <2>3, <2>4, <2>5 DEF FollowInv, Plugins, ownVars
<1> QED BY <1>3, <1>4

LEMMA FollowStep ==
  ASSUME PromptStatus, OneAtATime, RunsInv, RunsInv', WaitInv, FollowInv, [TerminalNext]_terminalVars
  PROVE  WaitInv' /\ FollowInv'
<1>1. ASSUME NEW p \in Plugins, Observe(p) PROVE WaitInv' /\ FollowInv'
  BY <1>1, FollowObserve
<1>2. ASSUME NEW robot \in Robots, NEW goal \in GoalPoses, Cycle(robot, goal) PROVE WaitInv' /\ FollowInv'
  <2>1. current # 0 /\ UNCHANGED <<current, pending>>
    BY <1>2 DEF Cycle
  <2> QED BY <1>2, <2>1, CycleFollows DEF WaitInv, FollowInv, AllHeard
<1>3. CASE AcceptGoal
  <2>1. /\ executing = {} /\ accepted' = accepted + 1 /\ UNCHANGED <<epochVars, controlVars, current>>
    BY <1>3 DEF AcceptGoal, OneAtATime
  <2>2. current = 0
    BY <2>1, RunFacts
  <2>3. \A p \in Plugins : activeUuid[p] < accepted'
    BY <2>1, EpochFacts
  <2> QED BY <2>1, <2>2, <2>3 DEF WaitInv, FollowInv, epochVars, controlVars
<1>4. CASE Relist
  <2>1. /\ executing # {} /\ current # Max(executing)
        /\ UNCHANGED <<epochVars, controlVars, executing, accepted, current>>
    BY <1>4 DEF Relist
  <2>2. current = 0
    BY <2>1, RunFacts
  <2> QED BY <2>1, <2>2 DEF WaitInv, FollowInv, epochVars, controlVars
<1>5. CASE SwitchGoal
  <2>1. /\ executing # {} /\ current # Max(executing) /\ current' = Max(executing)
        /\ Max(executing) > 1 => AllHeard
        /\ approached' = {} /\ turnedTo' = FALSE /\ windowSince' = NoTime /\ committed' = FALSE
        /\ UNCHANGED <<epochVars, controlVars, executing, accepted, pending>>
    BY <1>5 DEF SwitchGoal
  <2>2. current = 0 /\ current' = accepted /\ accepted \in Nat \ {0} /\ (accepted > 1 => AllHeard)
    BY <2>1, RunFacts
  <2>3. ASSUME NEW p \in Plugins PROVE Fresh(p)
    <3>1. CASE storedGoal[p] = NoPose
      BY <3>1 DEF Fresh
    <3>2. CASE storedGoal[p] # NoPose
      <4>1. seenEpoch[p] # 0 /\ (activeUuid[p] < accepted \/ seenEpoch[p] < epoch[p])
        BY <2>1, <2>2, <3>2 DEF WaitInv
      <4>2. accepted # 1
        BY <4>1, EpochFacts
      <4>3. activeUuid[p] = accepted
        BY <2>2, <4>2, EpochFacts DEF AllHeard
      <4> QED BY <4>1, <4>3, EpochFacts DEF Fresh
    <3> QED BY <3>1, <3>2
  <2>4. \A p \in Plugins : Fresh(p)'
    BY <2>1, <2>3 DEF Fresh, epochVars, controlVars
  <2> QED BY <2>1, <2>2, <2>4 DEF WaitInv, FollowInv, AllHeard, Plugins
<1>6. ASSUME NEW g \in executing, EndGoal(g) PROVE WaitInv' /\ FollowInv'
  <2>1. /\ \A p \in Plugins : storedGoal[p] # NoPose => seenEpoch[p] # 0
        /\ executing' = executing \ {g} /\ current' = IF current = g THEN 0 ELSE current
        /\ UNCHANGED <<epochVars, controlVars>>
    BY <1>6 DEF EndGoal
  <2>2. executing' = {} /\ current' = 0
    BY <1>6, <2>1, RunFacts
  <2> QED BY <2>1, <2>2 DEF WaitInv, FollowInv, epochVars, controlVars
<1>7. CASE Tick \/ UNCHANGED terminalVars
  <2>1. UNCHANGED <<epochVars, controlVars, ownVars, executing, accepted, current, pending>>
    BY <1>7 DEF Tick, terminalVars
  <2>2. WaitInv'
    BY <2>1 DEF WaitInv, epochVars, controlVars
  <2> QED BY <2>1, <2>2, FollowKept
<1> QED BY <1>1, <1>2, <1>3, <1>4, <1>5, <1>6, <1>7 DEF TerminalNext

LEMMA FollowCorrect ==
  ASSUME PromptStatus, OneAtATime
  PROVE  TerminalSpec => [](RunsInv /\ WaitInv /\ FollowInv)
<1>1. TerminalInit => WaitInv /\ FollowInv
  BY DEF TerminalInit, WaitInv, FollowInv
<1>2. RunsInv /\ RunsInv' /\ WaitInv /\ FollowInv /\ [TerminalNext]_terminalVars => WaitInv' /\ FollowInv'
  BY FollowStep
<1> QED BY <1>1, <1>2, RunsCorrect, PTL DEF TerminalSpec

-----------------------------------------------------------------------------
(* The plugins' answers.  Only a cycle of the controller gives one.        *)

LEMMA OnlyCycleAnswers ==
  ASSUME RunsInv, [TerminalNext]_terminalVars
  PROVE  \/ \E robot \in Robots, goal \in GoalPoses : Cycle(robot, goal)
         \/ answer' = NoAnswer
         \/ UNCHANGED <<answer, now, controlVars, ownVars>>
<1>1. ASSUME NEW p \in Plugins, Observe(p) PROVE answer' = NoAnswer
  BY <1>1 DEF Observe
<1> QED BY <1>1, NavSteps DEF terminalVars

\* The goal is called reached, and the robot limited near it, only after the
\* robot was near that goal: no state of the goal before is left.
THEOREM TerminalStateOwned ==
  ASSUME PromptStatus, OneAtATime
  PROVE  TerminalSpec => []TerminalStateIsOwn
<1>1. TerminalInit => TerminalStateIsOwn
  BY DEF TerminalInit, TerminalStateIsOwn
<1>2. ASSUME RunsInv, FollowInv, TerminalStateIsOwn, [TerminalNext]_terminalVars
      PROVE  TerminalStateIsOwn'
  <2>1. ASSUME NEW robot \in Robots, NEW goal \in GoalPoses, Cycle(robot, goal)
        PROVE  TerminalStateIsOwn'
    <3>1. CheckerIsOwn' /\ CriticIsOwn'
      BY <1>2, <2>1, CycleFollows
    <3>2. answer'.reached = Reached(robot, goal)
      BY <2>1 DEF Cycle
    <3>3. Reached(robot, goal) => xyLatched' /\ yawLatched'
      BY DEF Reached, AtXy
    <3> QED BY <3>1, <3>2, <3>3 DEF TerminalStateIsOwn, CheckerIsOwn, CriticIsOwn
  <2> QED BY <1>2, <2>1, OnlyCycleAnswers DEF TerminalStateIsOwn, controlVars, criticVars, ownVars
<1> QED BY <1>1, <1>2, FollowCorrect, PTL DEF TerminalSpec

\* Neither replans nor corrections nor a late first status take back what the
\* plugins latched for the goal.
THEOREM LatchSurvives ==
  ASSUME PromptStatus, OneAtATime
  PROVE  TerminalSpec => []LatchSurvivesReplans
<1>1. TerminalInit => LatchSurvivesReplans
  BY DEF TerminalInit, LatchSurvivesReplans
<1>2. ASSUME RunsInv, FollowInv, LatchSurvivesReplans, [TerminalNext]_terminalVars
      PROVE  LatchSurvivesReplans'
  <2>1. ASSUME NEW robot \in Robots, NEW goal \in GoalPoses, Cycle(robot, goal)
        PROVE  LatchSurvivesReplans'
    BY <1>2, <2>1, CycleFollows DEF LatchSurvivesReplans, CheckerIsOwn, CriticIsOwn
  <2> QED BY <1>2, <2>1, OnlyCycleAnswers
          DEF LatchSurvivesReplans, controlVars, checkerVars, criticVars, ownVars
<1> QED BY <1>1, <1>2, FollowCorrect, PTL DEF TerminalSpec

\* One goal gets commands near its end for at most MaxTerminalDuration.
THEOREM TerminalEnding ==
  ASSUME PromptStatus, OneAtATime
  PROVE  TerminalSpec => []TerminalEnds
<1>1. TerminalInit => TerminalEnds
  BY DEF TerminalInit, TerminalEnds
<1>2. ASSUME RunsInv, FollowInv, TerminalEnds, [TerminalNext]_terminalVars
      PROVE  TerminalEnds'
  <2>1. ASSUME NEW robot \in Robots, NEW goal \in GoalPoses, Cycle(robot, goal),
               answer'.commands # {}, windowSince' # NoTime
        PROVE  now' - windowSince' <= MaxTerminalDuration
    <3>1. window'.in /\ windowSince' = window'.enteredAt
      BY <1>2, <2>1, CycleFollows DEF CriticIsOwn
    <3>2. PICK accepts \in BOOLEAN :
            /\ Prepare(robot, goal, accepts)
            /\ answer'.commands = {t \in Trajectories : accepts /\ ~Illegal(t, robot, goal)}
            /\ now' = now
      BY <2>1 DEF Cycle
    <3>3. accepts
      BY <2>1, <3>2
    <3>4. now - window'.enteredAt <= MaxTerminalDuration
      BY <1>2, <3>1, <3>2, <3>3, PrepareFacts DEF RunsInv
    <3> QED BY <3>1, <3>2, <3>4
  <2>2. ASSUME NEW robot \in Robots, NEW goal \in GoalPoses, Cycle(robot, goal)
        PROVE  TerminalEnds'
    BY <2>1, <2>2 DEF TerminalEnds
  <2> QED BY <1>2, <2>2, OnlyCycleAnswers DEF TerminalEnds, ownVars
<1> QED BY <1>1, <1>2, FollowCorrect, PTL DEF TerminalSpec

\* A robot that rotates for a goal does not drive on for it.
THEOREM RotationCommitted ==
  ASSUME PromptStatus, OneAtATime
  PROVE  TerminalSpec => []RotationCommits
<1>1. TerminalInit => RotationCommits
  BY DEF TerminalInit, RotationCommits
<1>2. ASSUME RunsInv, FollowInv, RotationCommits, [TerminalNext]_terminalVars
      PROVE  RotationCommits'
  <2>1. ASSUME NEW robot \in Robots, NEW goal \in GoalPoses, Cycle(robot, goal),
               committed', NEW t \in answer'.commands
        PROVE  t.linear = 0
    <3>1. window'.in /\ rotating'
      BY <1>2, <2>1, CycleFollows DEF CriticIsOwn
    <3>2. t \in Trajectories /\ ~Illegal(t, robot, goal)
      BY <2>1 DEF Cycle
    <3>3. ~(t.linear > 0)
      BY <3>1, <3>2 DEF Illegal
    <3> QED BY <3>2, <3>3, TerminalAssumption DEF TerminalAssumption
  <2>2. ASSUME NEW robot \in Robots, NEW goal \in GoalPoses, Cycle(robot, goal)
        PROVE  RotationCommits'
    BY <2>1, <2>2 DEF RotationCommits
  <2> QED BY <1>2, <2>2, OnlyCycleAnswers DEF RotationCommits, ownVars
<1> QED BY <1>1, <1>2, FollowCorrect, PTL DEF TerminalSpec
=============================================================================
