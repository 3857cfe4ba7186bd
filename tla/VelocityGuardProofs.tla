------------------------- MODULE VelocityGuardProofs -------------------------
(***************************************************************************)
(* The velocity guard for every value of its parameters, and any number of *)
(* goals: what it lets through while it watches a goal, and whose          *)
(* cancellation it asks for, whatever order plans, odometry, commands and  *)
(* Nav2's messages come in.                                                *)
(***************************************************************************)
EXTENDS VelocityGuard, SequenceTheorems, TLAPS

Message ==
  [topic : {"status"}, active : Seq(Goals)] \cup [topic : {"feedback"}, goal : Goals, pose : Poses]

-----------------------------------------------------------------------------
(* What the operators return.                                              *)

LEMMA ApartRange ==
  ASSUME NEW a \in 0..Turn-1, NEW b \in 0..Turn-1
  PROVE  Apart(a, b) \in 0..Turn /\ Apart(a, a) = 0
<1> DEFINE ahead == (b - a + Turn) % Turn
<1>1. \A n \in Nat : n % Turn \in 0..Turn-1 /\ Turn % Turn = 0
  BY RotationGuardAssumption DEF RotationGuardAssumption
<1>2. b - a + Turn \in Nat /\ a - a + Turn = Turn
  BY RotationGuardAssumption DEF RotationGuardAssumption
<1>3. ahead \in 0..Turn-1
  BY <1>1, <1>2
<1>4. Apart(a, b) = IF ahead <= Turn - ahead THEN ahead ELSE Turn - ahead
  BY DEF Apart
<1>5. Apart(a, b) \in 0..Turn
  <2> HIDE DEF ahead
  <2> QED BY <1>3, <1>4, RotationGuardAssumption DEF RotationGuardAssumption
<1>6. Apart(a, a) = 0
  BY <1>1, <1>2, RotationGuardAssumption DEF Apart, RotationGuardAssumption
<1> QED BY <1>5, <1>6

LEMMA LimitRange == ASSUME NEW m \in SpeedLimits PROVE EffectiveLimit(m) \in 0..MaxLinear
<1> USE VelocityGuardAssumption DEF VelocityGuardAssumption
<1>1. m.value \in Nat /\ MaxLinear \in Nat
  OBVIOUS
<1>2. Lesser(100, m.value) \in 0..100
  BY <1>1 DEF Lesser
<1>3. \A k \in 0..100 : (MaxLinear * k) \div 100 \in 0..MaxLinear
  <2> SUFFICES ASSUME NEW k \in 0..100 PROVE (MaxLinear * k) \div 100 \in 0..MaxLinear
    OBVIOUS
  <2>1. MaxLinear * k \in Nat /\ MaxLinear * k <= MaxLinear * 100
    BY <1>1
  <2> DEFINE n == MaxLinear * k
  <2>2. n \in Nat /\ n <= MaxLinear * 100
    BY <2>1
  <2> HIDE DEF n
  <2>3. n \div 100 \in 0..MaxLinear
    BY <1>1, <2>2
  <2> QED BY <2>3 DEF n
<1>4. (MaxLinear * Lesser(100, m.value)) \div 100 \in 0..MaxLinear
  BY <1>2, <1>3
<1> QED BY <1>1, <1>4 DEF EffectiveLimit, Lesser

\* A message appended to those under way, and the one that is delivered.
LEMMA Sent ==
  ASSUME inbox \in Seq(Message), NEW m \in Message, inbox' = inbox \o <<m>>
  PROVE  /\ inbox' \in Seq(Message) /\ Len(inbox') = Len(inbox) + 1
         /\ inbox'[Len(inbox) + 1] = m
         /\ \A k \in 1..Len(inbox) : inbox'[k] = inbox[k]
<1>1. <<m>> \in Seq(Message) /\ Len(<<m>>) = 1 /\ <<m>>[1] = m
  OBVIOUS
<1>2. Len(inbox) \in Nat
  BY LenProperties
<1> QED BY <1>1, <1>2, ConcatProperties

LEMMA Delivered ==
  ASSUME inbox \in Seq(Message), NEW i \in DOMAIN inbox, inbox' = RemoveAt(inbox, i)
  PROVE  /\ i \in 1..Len(inbox) /\ inbox[i] \in Message
         /\ inbox' \in Seq(Message) /\ Len(inbox') = Len(inbox) - 1
         /\ \A k \in 1..Len(inbox') : inbox'[k] = IF k < i THEN inbox[k] ELSE inbox[k + 1]
<1>1. Len(inbox) \in Nat /\ i \in 1..Len(inbox) /\ \A k \in 1..Len(inbox) : inbox[k] \in Message
  BY LenProperties, ElementOfSeq
<1> DEFINE before == SubSeq(inbox, 1, i-1)
           after == SubSeq(inbox, i+1, Len(inbox))
<1>2. /\ before \in Seq(Message) /\ Len(before) = i - 1
      /\ \A k \in 1..i-1 : before[k] = inbox[k]
  BY <1>1, SubSeqProperties
<1>3. /\ after \in Seq(Message) /\ Len(after) = Len(inbox) - i
      /\ \A k \in 1..Len(inbox) - i : after[k] = inbox[k + i]
  BY <1>1, SubSeqProperties
<1>4. inbox' = before \o after
  BY DEF RemoveAt
<1> HIDE DEF before, after
<1>5. /\ inbox' \in Seq(Message) /\ Len(inbox') = Len(before) + Len(after)
      /\ \A k \in 1..Len(before) + Len(after) :
           inbox'[k] = IF k <= Len(before) THEN before[k] ELSE after[k - Len(before)]
  <2>1. before \in Seq(Message) /\ after \in Seq(Message)
    BY <1>2, <1>3
  <2> QED BY ONLY <1>4, <2>1, ConcatProperties, Zenon
<1>6. ASSUME NEW k \in 1..Len(inbox) - 1
      PROVE  inbox'[k] = IF k < i THEN inbox[k] ELSE inbox[k + 1]
  <2>1. inbox'[k] = IF k <= i - 1 THEN before[k] ELSE after[k - (i - 1)]
    <3>1. Len(before) = i - 1 /\ Len(before) + Len(after) = Len(inbox) - 1
      BY <1>1, <1>2, <1>3
    <3> QED BY ONLY <3>1, <1>5
  <2>2. CASE k < i
    BY <1>1, <1>2, <2>1, <2>2
  <2>3. CASE ~(k < i)
    <3>1. k - (i - 1) \in 1..Len(inbox) - i
      BY <1>1, <2>3
    <3>2. after[k - (i - 1)] = inbox[(k - (i - 1)) + i]
      BY <1>3, <3>1
    <3>3. (k - (i - 1)) + i = k + 1
      BY <1>1
    <3> QED BY <1>1, <2>1, <2>3, <3>2, <3>3
  <2> QED BY <2>2, <2>3
<1>7. Len(inbox') = Len(inbox) - 1
  <2>1. Len(inbox') = (i - 1) + (Len(inbox) - i)
    BY <1>2, <1>3, <1>5
  <2> QED BY <1>1, <2>1
<1> QED BY <1>1, <1>5, <1>6, <1>7

-----------------------------------------------------------------------------
(* Type correctness: GuardTypeOK, with what Nav2's side ranges over.       *)

RotationTypes ==
  /\ goalUuid \in Goals \cup {NoGoal} /\ latched \in BOOLEAN /\ rotating \in BOOLEAN
  /\ lastOdomYaw \in OdomYaws \cup {None}
  /\ spin \in [startedAt : Times, rotation : Rotations, mark : Rotations, progressAt : Times]
  /\ terminal \in [startedAt : Times, rotation : Rotations,
                   allowed : 0..(Turn + TerminalMargin), bestError : 0..Turn, progressAt : Times]

WatchTypes ==
  /\ activeUuid \in Goals \cup {NoGoal} /\ cancelSent \in BOOLEAN
  /\ robotPose \in SomePose \cup {None} /\ goalPose \in SomePose \cup {None}

SpeedTypes == cap \in 0..MaxLinear /\ output.linear \in 0..MaxLinear

HistoryTypes ==
  /\ stillSince \in Times /\ alignSince \in Times
  /\ asked \subseteq Goals /\ unheard \subseteq Goals \cup {NoGoal} /\ tripped \subseteq Goals

NavTypes ==
  /\ accepted \subseteq Goals /\ now \in 0..MaxTime
  /\ executing \in Seq(Goals) /\ Len(executing) <= 2
  /\ inbox \in Seq(Message) /\ Len(inbox) <= MaxInbox

Types == RotationTypes /\ WatchTypes /\ SpeedTypes /\ HistoryTypes /\ NavTypes

LEMMA FreshTyped ==
  /\ NoSpin \in [startedAt : Times, rotation : Rotations, mark : Rotations, progressAt : Times]
  /\ NoTerminal \in [startedAt : Times, rotation : Rotations,
                     allowed : 0..(Turn + TerminalMargin), bestError : 0..Turn, progressAt : Times]
<1>1. 0 \in Rotations /\ 0 \in 0..(Turn + TerminalMargin) /\ Turn \in 0..Turn /\ None \in Times
  BY RotationGuardAssumption, VelocityGuardAssumption
     DEF Rotations, Times, RotationGuardAssumption, VelocityGuardAssumption
<1> QED BY <1>1 DEF NoSpin, NoTerminal

\* A command either leaves a latched guard alone, or adds to the spin of a
\* goal and, at the end of its plan, to the alignment.
LEMMA EvaluateFacts ==
  ASSUME NEW inPlace \in BOOLEAN, NEW robot, NEW goal, Evaluate(now, inPlace, robot, goal)
  PROVE  /\ latched => UNCHANGED rotationVars
         /\ UNCHANGED <<goalUuid, lastOdomYaw>>
         /\ latched' => latched \/ goalUuid # NoGoal
         /\ ~latched => /\ spin' = IF goalUuid = NoGoal THEN spin
                                   ELSE IF inPlace THEN SpinNow(now) ELSE NoSpin
                        /\ inPlace /\ goalUuid # NoGoal /\ SpinTrips(now, spin') => latched'
  BY DEF Evaluate, rotationVars

LEMMA SpinNowTyped ==
  ASSUME RotationTypes, NavTypes
  PROVE  SpinNow(now) \in [startedAt : Times, rotation : Rotations, mark : Rotations, progressAt : Times]
<1>1. now \in Times /\ 0 \in Rotations
  BY RotationGuardAssumption, VelocityGuardAssumption
     DEF NavTypes, Times, Rotations, RotationGuardAssumption, VelocityGuardAssumption
<1>2. NewSpin(now) \in [startedAt : Times, rotation : Rotations, mark : Rotations, progressAt : Times]
  BY <1>1 DEF NewSpin
<1> QED BY <1>1, <1>2 DEF SpinNow, RotationTypes

LEMMA EvaluateTyped ==
  ASSUME RotationTypes, NavTypes, NEW inPlace \in BOOLEAN, NEW robot \in SomePose \cup {None},
         NEW goal \in SomePose \cup {None}, Evaluate(now, inPlace, robot, goal)
  PROVE  RotationTypes'
<1>1. CASE latched
  BY <1>1, EvaluateFacts DEF RotationTypes, rotationVars
<1>2. CASE ~latched
  <2>1. /\ goalUuid' \in Goals \cup {NoGoal} /\ lastOdomYaw' \in OdomYaws \cup {None}
        /\ spin' \in [startedAt : Times, rotation : Rotations, mark : Rotations, progressAt : Times]
    BY <1>2, EvaluateFacts, SpinNowTyped, FreshTyped DEF RotationTypes
  <2>2. latched' \in BOOLEAN /\ rotating' \in BOOLEAN
    BY <1>2 DEF Evaluate, TerminalTrips
  <2>3. terminal' \in [startedAt : Times, rotation : Rotations,
                       allowed : 0..(Turn + TerminalMargin), bestError : 0..Turn, progressAt : Times]
    <3>1. CASE UNCHANGED terminal
      BY <3>1 DEF RotationTypes
    <3>2. CASE ~UNCHANGED terminal
      <4>1. AtPlanEnd(robot, goal)
        BY <1>2, <3>2 DEF Evaluate
      <4> DEFINE error == Apart(robot.yaw, goal.yaw)
                 t == TerminalNow(now, error)
      <4>2. error \in 0..Turn
        BY <4>1, ApartRange DEF AtPlanEnd, SomePose
      <4>3. terminal' = t \/ terminal' = [t EXCEPT !.bestError = error, !.progressAt = now]
        BY <1>2, <3>2 DEF Evaluate
      <4> HIDE DEF error
      <4>4. /\ now \in Times /\ 0 \in Rotations
            /\ error + TerminalMargin \in 0..(Turn + TerminalMargin)
        BY <4>2, RotationGuardAssumption, VelocityGuardAssumption
           DEF NavTypes, Times, Rotations, RotationGuardAssumption, VelocityGuardAssumption
      <4>5. t \in [startedAt : Times, rotation : Rotations,
                   allowed : 0..(Turn + TerminalMargin), bestError : 0..Turn, progressAt : Times]
        BY <4>2, <4>4 DEF TerminalNow, OpenTerminal, RotationTypes
      <4> HIDE DEF t
      <4> QED BY <4>2, <4>3, <4>4, <4>5
    <3> QED BY <3>1, <3>2
  <2> QED BY <2>1, <2>2, <2>3 DEF RotationTypes
<1> QED BY <1>1, <1>2

LEMMA ObserveTyped ==
  ASSUME RotationTypes, NEW yaw \in OdomYaws, ObserveOdom(yaw),
         spin.rotation < MaxRotation, terminal.rotation < MaxRotation
  PROVE  RotationTypes'
<1> DEFINE delta == IF lastOdomYaw # None /\ rotating THEN Apart(lastOdomYaw, yaw) ELSE 0
<1>1. delta \in 0..Turn
  <2>1. lastOdomYaw # None => Apart(lastOdomYaw, yaw) \in 0..Turn
    BY ApartRange, VelocityGuardAssumption DEF RotationTypes, VelocityGuardAssumption
  <2>2. 0 \in 0..Turn
    BY RotationGuardAssumption DEF RotationGuardAssumption
  <2>3. (delta = Apart(lastOdomYaw, yaw) /\ lastOdomYaw # None) \/ delta = 0
    OBVIOUS
  <2> HIDE DEF delta
  <2> QED BY <2>1, <2>2, <2>3
<1>2. /\ lastOdomYaw' = yaw /\ UNCHANGED <<goalUuid, latched, rotating>>
      /\ spin' = [spin EXCEPT !.rotation = @ + delta]
      /\ terminal' = [terminal EXCEPT !.rotation = IF terminal.startedAt # None THEN @ + delta ELSE @]
  BY DEF ObserveOdom
<1> HIDE DEF delta
<1>3. \A n \in Rotations : n < MaxRotation => n + delta \in Rotations
  BY <1>1, RotationGuardAssumption, VelocityGuardAssumption
     DEF Rotations, RotationGuardAssumption, VelocityGuardAssumption
<1>4. spin.rotation + delta \in Rotations /\ terminal.rotation + delta \in Rotations
  BY <1>3 DEF RotationTypes
<1> QED BY <1>2, <1>4 DEF RotationTypes

LEMMA WatchTyped ==
  ASSUME RotationTypes, WatchTypes, NEW g \in Goals, Watch(g)
  PROVE  /\ RotationTypes' /\ activeUuid' = g /\ cancelSent' \in BOOLEAN
         /\ goalPose' \in SomePose \cup {None}
<1>1. activeUuid' = g /\ cancelSent' \in BOOLEAN /\ goalPose' \in SomePose \cup {None}
  BY DEF Watch, WatchTypes
<1>2. \/ UNCHANGED rotationVars
      \/ /\ goalUuid' = g /\ latched' = FALSE /\ rotating' = FALSE /\ lastOdomYaw' = None
         /\ spin' = NoSpin /\ terminal' = NoTerminal
  BY DEF Watch, BeginGoal
<1>3. RotationTypes'
  BY <1>2, FreshTyped DEF RotationTypes, rotationVars
<1> QED BY <1>1, <1>3

\* What the delivery of a message does: the guard watches the goal it names,
\* or, when it names none, releases the goal it watched.
Names(m) == IF m.topic = "status" THEN {m.active[i] : i \in 1..Len(m.active)} ELSE {m.goal}

Watched(m) == IF m.topic = "status" THEN Last(m.active) ELSE m.goal

IsIdle(m) == m.topic = "status" /\ m.active = <<>>

LEMMA MessageFacts ==
  ASSUME NEW m \in Message
  PROVE  /\ m.topic = "status" => m.active \in Seq(Goals)
         /\ m.topic = "feedback" => m.goal \in Goals /\ m.pose \in SomePose
         /\ m.topic \in {"status", "feedback"}
         /\ Names(m) \subseteq Goals
         /\ ~IsIdle(m) => Watched(m) \in Names(m)
<1>1. /\ m.topic = "status" => m.active \in Seq(Goals)
      /\ m.topic = "feedback" => m.goal \in Goals /\ m.pose \in SomePose
      /\ m.topic \in {"status", "feedback"}
  BY VelocityGuardAssumption DEF Message, VelocityGuardAssumption
<1>2. CASE m.topic = "status"
  <2>1. m.active \in Seq(Goals) /\ Len(m.active) \in Nat
    BY <1>1, <1>2, LenProperties
  <2>2. \A i \in 1..Len(m.active) : m.active[i] \in Goals
    BY <2>1, ElementOfSeq
  <2>3. m.active # <<>> => Len(m.active) \in 1..Len(m.active)
    BY <2>1, EmptySeq
  <2> QED BY <1>1, <1>2, <2>2, <2>3 DEF Names, Watched, IsIdle, Last
<1>3. CASE m.topic = "feedback"
  BY <1>1, <1>3 DEF Names, Watched, IsIdle
<1> QED BY <1>1, <1>2, <1>3

LEMMA DeliverFacts ==
  ASSUME NavTypes, Deliver
  PROVE  \E i \in 1..Len(inbox) :
           /\ Ordered => i = 1
           /\ inbox[i] \in Message
           /\ inbox' \in Seq(Message) /\ Len(inbox') = Len(inbox) - 1
           /\ \A k \in 1..Len(inbox') : inbox'[k] = IF k < i THEN inbox[k] ELSE inbox[k + 1]
           /\ UNCHANGED <<cap, output, accepted, executing, now, tripVars, sinceVars>>
           /\ \/ /\ ~IsIdle(inbox[i]) /\ Watch(Watched(inbox[i]))
                 /\ Watched(inbox[i]) \in Names(inbox[i]) /\ Names(inbox[i]) \subseteq Goals
                 /\ robotPose' \in {robotPose, None} \cup SomePose
              \/ /\ IsIdle(inbox[i])
                 /\ IF activeUuid # NoGoal THEN ClearIfIdle ELSE UNCHANGED rotationVars
                 /\ UNCHANGED watchVars
<1>1. PICK i \in DOMAIN inbox :
        /\ \A j \in 1..i-1 : ~Ordered /\ inbox[j].topic # inbox[i].topic
        /\ inbox' = RemoveAt(inbox, i)
        /\ \/ inbox[i].topic = "status" /\ OnStatus(inbox[i].active)
           \/ inbox[i].topic = "feedback" /\ OnFeedback(inbox[i].goal, inbox[i].pose)
        /\ UNCHANGED <<cap, output, accepted, executing, now, tripVars, sinceVars>>
  BY DEF Deliver
<1>2. /\ i \in 1..Len(inbox) /\ inbox[i] \in Message
      /\ inbox' \in Seq(Message) /\ Len(inbox') = Len(inbox) - 1
      /\ \A k \in 1..Len(inbox') : inbox'[k] = IF k < i THEN inbox[k] ELSE inbox[k + 1]
  BY <1>1, Delivered DEF NavTypes
<1>3. Ordered => i = 1
  <2>1. i \in Nat \ {0}
    BY <1>2, LenProperties DEF NavTypes
  <2>2. Ordered => ~(1 \in 1..i-1)
    BY <1>1
  <2> QED BY <2>1, <2>2
<1>4. CASE inbox[i].topic = "status" /\ OnStatus(inbox[i].active)
  BY <1>1, <1>2, <1>3, <1>4, MessageFacts DEF OnStatus, Watched, IsIdle
<1>5. CASE inbox[i].topic = "feedback" /\ OnFeedback(inbox[i].goal, inbox[i].pose)
  BY <1>1, <1>2, <1>3, <1>5, MessageFacts DEF OnFeedback, Watched, IsIdle
<1> QED BY <1>1, <1>4, <1>5

LEMMA TypesDeliver ==
  ASSUME Types, Deliver
  PROVE  Types'
<1> RotationTypes /\ WatchTypes /\ SpeedTypes /\ HistoryTypes /\ NavTypes
  BY DEF Types
<1>1. PICK i \in 1..Len(inbox) :
           /\ inbox' \in Seq(Message) /\ Len(inbox') = Len(inbox) - 1
           /\ UNCHANGED <<cap, output, accepted, executing, now, tripVars, sinceVars>>
           /\ \/ /\ Watched(inbox[i]) \in Goals /\ Watch(Watched(inbox[i]))
                 /\ robotPose' \in {robotPose, None} \cup SomePose
              \/ /\ IF activeUuid # NoGoal THEN ClearIfIdle ELSE UNCHANGED rotationVars
                 /\ UNCHANGED watchVars
  BY DeliverFacts
<1>2. SpeedTypes' /\ HistoryTypes'
  BY <1>1 DEF SpeedTypes, HistoryTypes, tripVars, sinceVars
<1>3. NavTypes'
  <2>1. Len(inbox) \in Nat
    BY LenProperties DEF NavTypes
  <2> QED BY <1>1, <2>1, VelocityGuardAssumption DEF NavTypes, VelocityGuardAssumption
<1>4. CASE Watched(inbox[i]) \in Goals /\ Watch(Watched(inbox[i]))
           /\ robotPose' \in {robotPose, None} \cup SomePose
  BY <1>2, <1>3, <1>4, WatchTyped DEF Types, WatchTypes
<1>5. CASE (IF activeUuid # NoGoal THEN ClearIfIdle ELSE UNCHANGED rotationVars) /\ UNCHANGED watchVars
  <2>1. WatchTypes'
    BY <1>5 DEF WatchTypes, watchVars
  <2>2. RotationTypes'
    BY <1>5 DEF RotationTypes, rotationVars, ClearIfIdle
  <2> QED BY <1>2, <1>3, <2>1, <2>2 DEF Types
<1> QED BY <1>1, <1>4, <1>5

LEMMA CommandFacts ==
  ASSUME NEW c \in Commands, SpeedTypes
  PROVE  /\ BoundedVelocity(c).linear \in 0..MaxLinear /\ BoundedVelocity(c).linear <= cap
         /\ InPlace(BoundedVelocity(c)) \in BOOLEAN
<1> USE VelocityGuardAssumption DEF VelocityGuardAssumption
<1>1. c \in [linear : Nat, angular : Nat] /\ MaxLinear \in Nat
  OBVIOUS
<1>2. BoundedVelocity(c).linear = Lesser(c.linear, cap)
  BY <1>1 DEF BoundedVelocity
<1> QED BY <1>1, <1>2 DEF Lesser, InPlace, SpeedTypes

LEMMA TypesCmd ==
  ASSUME Types, NEW c \in Commands, OnCmd(c)
  PROVE  Types'
<1> RotationTypes /\ WatchTypes /\ SpeedTypes /\ HistoryTypes /\ NavTypes
  BY DEF Types
<1> DEFINE v == BoundedVelocity(c)
<1>1. /\ Evaluate(now, InPlace(v), robotPose, goalPose)
      /\ UNCHANGED <<activeUuid, robotPose, goalPose, cap, navVars>>
  BY DEF OnCmd
<1>2. RotationTypes'
  BY <1>1, EvaluateTyped, CommandFacts DEF WatchTypes
<1>3. NavTypes'
  BY <1>1 DEF NavTypes, navVars
<1>4. SpeedTypes'
  <2>1. output' = Zero \/ output' = v
    BY DEF OnCmd
  <2>2. Zero.linear \in 0..MaxLinear
    BY VelocityGuardAssumption DEF Zero, VelocityGuardAssumption
  <2>3. v.linear \in 0..MaxLinear
    BY CommandFacts
  <2> HIDE DEF v
  <2> QED BY <1>1, <2>1, <2>2, <2>3 DEF SpeedTypes
<1>5. /\ UNCHANGED <<cancelSent, asked, unheard>> \/ Trip
  BY DEF OnCmd
<1>6. WatchTypes' /\ asked' \subseteq Goals /\ unheard' \subseteq Goals \cup {NoGoal}
  BY <1>1, <1>5 DEF Trip, WatchTypes, HistoryTypes
<1>7. tripped' \subseteq Goals
  <2>1. tripped' = IF latched' /\ Heard /\ executing = <<goalUuid>> THEN tripped \cup {goalUuid} ELSE tripped
    BY DEF OnCmd
  <2>2. executing = <<goalUuid>> => goalUuid \in Goals
    BY DEF NavTypes
  <2>3. CASE executing = <<goalUuid>>
    BY <2>1, <2>2, <2>3 DEF HistoryTypes
  <2>4. CASE executing # <<goalUuid>>
    BY <2>1, <2>4 DEF HistoryTypes
  <2> QED BY <2>3, <2>4
<1>8. stillSince' \in Times /\ alignSince' \in Times
  <2>1. now \in Times /\ None \in Times
    BY DEF NavTypes, Times
  <2>2. stillSince' \in {None, now, stillSince} /\ alignSince' \in {now, alignSince}
    BY DEF OnCmd
  <2> QED BY <2>1, <2>2 DEF HistoryTypes
<1> QED BY <1>2, <1>3, <1>4, <1>6, <1>7, <1>8 DEF Types, HistoryTypes

\* A goal is accepted or ends, or feedback is sent: one message is appended.
LEMMA NavFacts ==
  ASSUME NavTypes,
         \/ \E g \in Goals : AcceptGoal(g)
         \/ EndGoal
         \/ \E pose \in Poses : SendFeedback(pose)
  PROVE  /\ Len(inbox) \in Nat /\ Len(inbox) < MaxInbox
         /\ inbox' \in Seq(Message) /\ Len(inbox') = Len(inbox) + 1
         /\ \A k \in 1..Len(inbox) : inbox'[k] = inbox[k]
         /\ inbox'[Len(inbox')] \in Message
         /\ executing' \in Seq(Goals) /\ Len(executing') <= 2
         /\ \/ /\ inbox'[Len(inbox')] = [topic |-> "status", active |-> executing']
               /\ stillSince' = None /\ alignSince' = None
            \/ /\ executing # <<>> /\ executing[1] \in Goals
               /\ \E pose \in Poses : inbox'[Len(inbox')] =
                    [topic |-> "feedback", goal |-> executing[1], pose |-> pose]
               /\ UNCHANGED <<executing, stillSince, alignSince>>
         /\ UNCHANGED <<rotationVars, watchVars, cap, output, now, tripVars>>
<1> Len(inbox) \in Nat
  BY LenProperties DEF NavTypes
<1>1. ASSUME NEW m \in Message, Send(<<m>>)
      PROVE  /\ Len(inbox) < MaxInbox /\ inbox' \in Seq(Message) /\ Len(inbox') = Len(inbox) + 1
             /\ \A k \in 1..Len(inbox) : inbox'[k] = inbox[k]
             /\ inbox'[Len(inbox')] = m
  BY <1>1, Sent DEF Send, NavTypes
<1>2. ASSUME NEW s \in Seq(Goals)
      PROVE  [topic |-> "status", active |-> s] \in Message
  BY DEF Message
<1>3. ASSUME NEW g \in Goals, AcceptGoal(g) PROVE executing' \in Seq(Goals) /\ Len(executing') <= 2
  BY <1>3, LenProperties DEF AcceptGoal, NavTypes
<1>4. ASSUME EndGoal PROVE executing' \in Seq(Goals) /\ Len(executing') <= 2
  <2>1. executing' = Tail(executing) /\ executing # <<>>
    BY <1>4 DEF EndGoal
  <2> QED BY <2>1, HeadTailProperties, LenProperties DEF NavTypes
<1>5. CASE EndGoal \/ \E g \in Goals : AcceptGoal(g)
  <2>1. Send(<<[topic |-> "status", active |-> executing']>>)
    BY <1>5 DEF AcceptGoal, EndGoal
  <2> QED BY <1>1, <1>2, <1>3, <1>4, <1>5, <2>1 DEF AcceptGoal, EndGoal
<1>6. ASSUME NEW pose \in Poses, SendFeedback(pose)
      PROVE  executing # <<>> /\ executing[1] \in Goals /\ Head(executing) = executing[1]
  BY <1>6 DEF SendFeedback, NavTypes
<1>7. ASSUME NEW pose \in Poses, SendFeedback(pose)
      PROVE  /\ [topic |-> "feedback", goal |-> executing[1], pose |-> pose] \in Message
             /\ Send(<<[topic |-> "feedback", goal |-> executing[1], pose |-> pose]>>)
  BY <1>6, <1>7 DEF SendFeedback, Message
<1>8. CASE \E pose \in Poses : SendFeedback(pose)
  BY <1>1, <1>6, <1>7, <1>8 DEF SendFeedback, NavTypes, sinceVars
<1> QED BY <1>5, <1>8

LEMMA TypesStep ==
  ASSUME Types, [GuardNext]_guardVars
  PROVE  Types'
<1> RotationTypes /\ WatchTypes /\ SpeedTypes /\ HistoryTypes /\ NavTypes
  BY DEF Types
<1> DEFINE Nav == \/ \E g \in Goals : AcceptGoal(g)
                  \/ EndGoal
                  \/ \E pose \in Poses : SendFeedback(pose)
<1>1. CASE Nav
  <2>1. accepted' \subseteq Goals
    BY <1>1 DEF AcceptGoal, EndGoal, SendFeedback, NavTypes
  <2>2. NavTypes'
    BY <1>1, <2>1, NavFacts, VelocityGuardAssumption DEF NavTypes, VelocityGuardAssumption
  <2>3. RotationTypes' /\ WatchTypes' /\ SpeedTypes'
    BY <1>1, NavFacts DEF RotationTypes, WatchTypes, SpeedTypes, rotationVars, watchVars
  <2>4. HistoryTypes'
    <3>1. UNCHANGED tripVars /\ stillSince' \in {None, stillSince} /\ alignSince' \in {None, alignSince}
      BY <1>1, NavFacts
    <3> QED BY <3>1 DEF HistoryTypes, tripVars, Times
  <2> QED BY <2>2, <2>3, <2>4 DEF Types
<1>2. ASSUME NEW end \in PlanEnds, OnPlan(end) PROVE Types'
  <2>1. goalPose' \in SomePose
    BY <1>2, VelocityGuardAssumption DEF OnPlan, VelocityGuardAssumption
  <2> QED
    BY <1>2, <2>1 DEF OnPlan, Types, RotationTypes, WatchTypes, SpeedTypes, HistoryTypes, NavTypes,
                      rotationVars, navVars, tripVars, sinceVars
<1>3. ASSUME NEW yaw \in OdomYaws, OnOdom(yaw) PROVE Types'
  <2>1. RotationTypes'
    BY <1>3, ObserveTyped DEF OnOdom
  <2>2. stillSince' \in {None, stillSince}
    BY <1>3 DEF OnOdom
  <2> QED
    BY <1>3, <2>1, <2>2 DEF OnOdom, Types, WatchTypes, SpeedTypes, HistoryTypes, NavTypes,
                            watchVars, navVars, tripVars, Times
<1>4. ASSUME NEW m \in SpeedLimits, OnSpeedLimit(m) PROVE Types'
  <2>1. cap' \in 0..MaxLinear
    BY <1>4, LimitRange DEF OnSpeedLimit
  <2> QED
    BY <1>4, <2>1 DEF OnSpeedLimit, Types, RotationTypes, WatchTypes, SpeedTypes, HistoryTypes,
                      NavTypes, rotationVars, watchVars, navVars, tripVars, sinceVars
<1>5. CASE PublishLatchedZero
  <2>1. output'.linear \in 0..MaxLinear
    BY <1>5, VelocityGuardAssumption DEF PublishLatchedZero, Zero, VelocityGuardAssumption
  <2> QED
    BY <1>5, <2>1 DEF PublishLatchedZero, Types, RotationTypes, WatchTypes, SpeedTypes, HistoryTypes,
                      NavTypes, rotationVars, watchVars, navVars, tripVars, sinceVars
<1>6. CASE Tick
  <2>1. now' \in 0..MaxTime
    BY <1>6, VelocityGuardAssumption DEF Tick, NavTypes, VelocityGuardAssumption
  <2> QED
    BY <1>6, <2>1 DEF Tick, Types, RotationTypes, WatchTypes, SpeedTypes, HistoryTypes, NavTypes,
                      rotationVars, watchVars, tripVars, sinceVars
<1>7. CASE UNCHANGED guardVars
  BY <1>7 DEF guardVars, Types, RotationTypes, WatchTypes, SpeedTypes, HistoryTypes, NavTypes,
              rotationVars, watchVars, navVars, tripVars, sinceVars
<1> QED
  BY <1>1, <1>2, <1>3, <1>4, <1>5, <1>6, <1>7, TypesDeliver, TypesCmd DEF GuardNext

LEMMA TypesInit ==
  ASSUME GuardInit
  PROVE  Types
<1>1. RotationTypes
  BY FreshTyped DEF GuardInit, RotationInit, RotationTypes
<1>2. WatchTypes /\ HistoryTypes
  BY DEF GuardInit, WatchTypes, HistoryTypes, Times
<1>3. SpeedTypes
  BY VelocityGuardAssumption DEF GuardInit, SpeedTypes, Zero, VelocityGuardAssumption
<1>4. NavTypes
  <2>1. 0 \in 0..MaxTime /\ 0 <= MaxInbox
    BY VelocityGuardAssumption DEF VelocityGuardAssumption
  <2> QED BY <2>1 DEF GuardInit, NavTypes
<1> QED BY <1>1, <1>2, <1>3, <1>4 DEF Types

LEMMA TypesCorrect == GuardSpec => []Types
BY TypesInit, TypesStep, PTL DEF GuardSpec

\* Type correctness: whatever limits and commands arrive, what is published
\* is no faster than the configured maximum (velocity_guard.py, _bounded_velocity).
THEOREM GuardTypeCorrect == GuardSpec => []GuardTypeOK
<1>1. Types => GuardTypeOK
  BY DEF Types, RotationTypes, WatchTypes, SpeedTypes, HistoryTypes, NavTypes, GuardTypeOK
<1> QED BY <1>1, TypesCorrect, PTL

-----------------------------------------------------------------------------
(* The goal the rotation guard judges, and the one the node watches.       *)

\* The steps that may touch what the invariants speak about.
NavStep ==
  \/ \E g \in Goals : AcceptGoal(g)
  \/ EndGoal
  \/ \E pose \in Poses : SendFeedback(pose)

Quiet == UNCHANGED <<rotationVars, activeUuid, cancelSent, navVars, tripVars, sinceVars>>

LEMMA StepKinds ==
  ASSUME [GuardNext]_guardVars
  PROVE  \/ Deliver \/ NavStep \/ Tick \/ Quiet
         \/ \E c \in Commands : OnCmd(c)
         \/ \E yaw \in OdomYaws : OnOdom(yaw)
BY DEF GuardNext, NavStep, Quiet, guardVars, watchVars, navVars, OnPlan, OnSpeedLimit, PublishLatchedZero

\* A latched guard has a goal, the one the node watches, and the node has
\* asked for its cancellation or found the service not ready.
LinkInv ==
  /\ goalUuid \in {NoGoal, activeUuid}
  /\ latched => goalUuid # NoGoal /\ cancelSent
  /\ cancelSent => activeUuid \in asked \cup unheard

LEMMA WatchFacts ==
  ASSUME LinkInv, NEW g \in Goals, Watch(g)
  PROVE  \/ g = activeUuid /\ UNCHANGED <<rotationVars, activeUuid, cancelSent>>
         \/ /\ g # activeUuid /\ activeUuid' = g /\ goalUuid' = g /\ ~latched' /\ ~cancelSent'
            /\ lastOdomYaw' = None /\ spin' = NoSpin /\ terminal' = NoTerminal
<1>1. g # NoGoal
  BY RotationGuardAssumption DEF RotationGuardAssumption
<1> QED BY <1>1 DEF Watch, BeginGoal, LinkInv

\* What a command and the odometry leave alone.
LEMMA CmdFacts ==
  ASSUME Types, NEW c \in Commands, OnCmd(c)
  PROVE  /\ UNCHANGED <<goalUuid, activeUuid, lastOdomYaw, navVars>>
         /\ latched => UNCHANGED rotationVars
         /\ latched' => (latched \/ goalUuid # NoGoal) /\ Trip /\ output' = Zero
         /\ ~latched' => UNCHANGED <<cancelSent, asked, unheard>> /\ output' = BoundedVelocity(c)
BY EvaluateFacts, CommandFacts DEF OnCmd, Types

LEMMA OdomFacts ==
  ASSUME NEW yaw \in OdomYaws, OnOdom(yaw)
  PROVE  UNCHANGED <<goalUuid, latched, activeUuid, cancelSent, navVars, tripVars, alignSince>>
BY DEF OnOdom, ObserveOdom, watchVars

LEMMA LinkStep ==
  ASSUME Types, LinkInv, [GuardNext]_guardVars
  PROVE  LinkInv'
<1>1. CASE Deliver
  <2>1. PICK i \in 1..Len(inbox) :
           /\ UNCHANGED tripVars
           /\ \/ Watched(inbox[i]) \in Goals /\ Watch(Watched(inbox[i]))
              \/ /\ IF activeUuid # NoGoal THEN ClearIfIdle ELSE UNCHANGED rotationVars
                 /\ UNCHANGED watchVars
    BY <1>1, DeliverFacts DEF Types
  <2>2. CASE Watched(inbox[i]) \in Goals /\ Watch(Watched(inbox[i]))
    BY <2>1, <2>2, WatchFacts DEF LinkInv, rotationVars, tripVars
  <2>3. CASE /\ IF activeUuid # NoGoal THEN ClearIfIdle ELSE UNCHANGED rotationVars
             /\ UNCHANGED watchVars
    BY <2>1, <2>3 DEF LinkInv, ClearIfIdle, rotationVars, watchVars, tripVars
  <2> QED BY <2>1, <2>2, <2>3
<1>2. ASSUME NEW c \in Commands, OnCmd(c) PROVE LinkInv'
  <2>1. UNCHANGED <<goalUuid, activeUuid>>
    BY <1>2, CmdFacts
  <2>2. CASE latched'
    <3>1. (latched \/ goalUuid # NoGoal) /\ Trip
      BY <1>2, <2>2, CmdFacts
    <3>3. cancelSent'
      BY <3>1 DEF Trip
    <3>2. activeUuid \in asked' \cup unheard'
      BY <3>1 DEF Trip, LinkInv
    <3> QED BY <2>1, <3>1, <3>2, <3>3 DEF LinkInv
  <2>3. CASE ~latched'
    BY <1>2, <2>1, <2>3, CmdFacts DEF LinkInv
  <2> QED BY <2>2, <2>3
<1>3. ASSUME NEW yaw \in OdomYaws, OnOdom(yaw) PROVE LinkInv'
  BY <1>3, OdomFacts DEF LinkInv, tripVars
<1>4. CASE NavStep
  BY <1>4, NavFacts DEF Types, NavStep, LinkInv, rotationVars, watchVars, tripVars
<1>5. CASE Tick \/ Quiet
  BY <1>5 DEF Tick, Quiet, LinkInv, rotationVars, watchVars, tripVars
<1> QED BY <1>1, <1>2, <1>3, <1>4, <1>5, StepKinds

LEMMA LinkCorrect == GuardSpec => []LinkInv
<1>1. GuardInit => LinkInv
  BY DEF GuardInit, RotationInit, LinkInv
<1> QED BY <1>1, LinkStep, TypesCorrect, PTL DEF GuardSpec

\* The goal the guard stopped is the goal whose cancellation it asked for
\* (_trip), unless the cancel service was not ready then.
THEOREM TripAsks == GuardSpec => []TripAsksCancel
<1>1. LinkInv => TripAsksCancel
  BY DEF LinkInv, TripAsksCancel
<1> QED BY <1>1, LinkCorrect, PTL

-----------------------------------------------------------------------------
(* No goal is left: a message that says so is the last under way, or the   *)
(* guard has let go of the goal it judged.                                 *)
IdleInv ==
  executing = <<>> =>
    IF inbox = <<>> THEN goalUuid = NoGoal ELSE IsIdle(inbox[Len(inbox)])

LEMMA InboxLength ==
  ASSUME NavTypes
  PROVE  Len(inbox) \in Nat /\ (inbox = <<>> <=> Len(inbox) = 0)
BY LenProperties, EmptySeq DEF NavTypes

LEMMA IdleStep ==
  ASSUME Types, LinkInv, IdleInv, Ordered, [GuardNext]_guardVars
  PROVE  IdleInv'
<1> NavTypes /\ NavTypes'
  BY TypesStep DEF Types
<1> Len(inbox) \in Nat /\ (inbox = <<>> <=> Len(inbox) = 0)
  BY InboxLength
<1> Len(inbox') \in Nat /\ (inbox' = <<>> <=> Len(inbox') = 0)
  BY LenProperties, EmptySeq DEF NavTypes
<1>1. CASE Deliver
  <2>1. /\ inbox # <<>> /\ Len(inbox') = Len(inbox) - 1 /\ UNCHANGED executing
        /\ \A k \in 1..Len(inbox') : inbox'[k] = inbox[k + 1]
    BY <1>1, DeliverFacts
  <2>2. CASE inbox' # <<>>
    <3>1. Len(inbox') \in 1..Len(inbox') /\ Len(inbox') + 1 = Len(inbox)
      BY <2>1, <2>2
    <3>2. inbox'[Len(inbox')] = inbox[Len(inbox)]
      BY <2>1, <3>1
    <3> QED BY <2>1, <2>2, <3>2 DEF IdleInv, IsIdle
  <2>3. CASE inbox' = <<>> /\ executing = <<>>
    <3>4. Len(inbox) = 1
      BY <2>1, <2>3
    <3>1. IsIdle(inbox[1])
      BY <2>1, <2>3, <3>4 DEF IdleInv
    <3>2. IF activeUuid # NoGoal THEN ClearIfIdle ELSE UNCHANGED rotationVars
      BY <1>1, <3>1, <3>4, DeliverFacts
    <3>3. goalUuid' = NoGoal
      BY <3>2 DEF ClearIfIdle, rotationVars, LinkInv
    <3> QED BY <2>3, <3>3 DEF IdleInv
  <2> QED BY <2>1, <2>2, <2>3 DEF IdleInv
<1>2. CASE NavStep
  <2>1. Len(inbox') # 0
    BY <1>2, NavFacts DEF NavStep
  <2>2. executing' = <<>> => inbox'[Len(inbox')] = [topic |-> "status", active |-> <<>>]
    BY <1>2, NavFacts DEF NavStep
  <2> QED BY <2>1, <2>2 DEF IdleInv, IsIdle
<1>3. CASE UNCHANGED <<goalUuid, executing, inbox>>
  BY <1>3 DEF IdleInv, IsIdle
<1>4. Tick \/ Quiet \/ (\E c \in Commands : OnCmd(c)) \/ (\E yaw \in OdomYaws : OnOdom(yaw))
        => UNCHANGED <<goalUuid, executing, inbox>>
  BY CmdFacts, OdomFacts DEF Tick, Quiet, rotationVars, navVars
<1> QED BY <1>1, <1>2, <1>3, <1>4, StepKinds

\* Once the guard has heard that no goal is left, it holds nothing back.
THEOREM IdleReleased ==
  ASSUME Ordered
  PROVE  GuardSpec => []IdleIsReleased
<1>1. GuardInit => IdleInv
  BY DEF GuardInit, RotationInit, IdleInv
<1>2. Types /\ LinkInv /\ IdleInv /\ [GuardNext]_guardVars => IdleInv'
  BY IdleStep
<1>3. LinkInv /\ IdleInv => IdleIsReleased
  BY DEF LinkInv, IdleInv, IdleIsReleased
<1> QED BY <1>1, <1>2, <1>3, TypesCorrect, LinkCorrect, PTL DEF GuardSpec

-----------------------------------------------------------------------------
(* The guard judges goal g, and no message under way says otherwise.       *)
Tells(m, g) == ~IsIdle(m) /\ Watched(m) = g

Follows(g) ==
  /\ goalUuid = g /\ activeUuid = g
  /\ \A k \in 1..Len(inbox) : Tells(inbox[k], g)

LEMMA FollowsDeliver ==
  ASSUME Types, LinkInv, NEW g, Follows(g), Deliver
  PROVE  Follows(g)' /\ UNCHANGED <<rotationVars, executing, now, tripVars, sinceVars>>
<1>1. PICK i \in 1..Len(inbox) :
         /\ inbox' \in Seq(Message) /\ Len(inbox') = Len(inbox) - 1
         /\ \A k \in 1..Len(inbox') : inbox'[k] = IF k < i THEN inbox[k] ELSE inbox[k + 1]
         /\ UNCHANGED <<executing, now, tripVars, sinceVars>>
         /\ ~IsIdle(inbox[i]) => Watched(inbox[i]) \in Goals /\ Watch(Watched(inbox[i]))
  BY DeliverFacts DEF Types
<1>2. g \in Goals /\ Watch(g)
  BY <1>1 DEF Follows, Tells
<1>3. UNCHANGED <<rotationVars, activeUuid>>
  BY <1>2, WatchFacts DEF Follows
<1>4. ASSUME NEW k \in 1..Len(inbox') PROVE Tells(inbox'[k], g)
  <2>1. Len(inbox) \in Nat /\ i \in Nat
    BY InboxLength, <1>1 DEF Types
  <2>2. k \in 1..Len(inbox) /\ k + 1 \in 1..Len(inbox)
    BY <1>1, <2>1
  <2> QED BY <1>1, <2>2 DEF Follows
<1> QED BY <1>1, <1>3, <1>4 DEF Follows, rotationVars, Tells, IsIdle, Watched

LEMMA FollowsFeedback ==
  ASSUME Types, NEW g, Follows(g), NEW pose \in Poses, SendFeedback(pose), executing[1] = g
  PROVE  Follows(g)' /\ UNCHANGED <<rotationVars, executing, now, tripVars, sinceVars>>
<1>1. /\ Len(inbox) \in Nat /\ Len(inbox') = Len(inbox) + 1
      /\ \A k \in 1..Len(inbox) : inbox'[k] = inbox[k]
      /\ UNCHANGED <<rotationVars, activeUuid, now, tripVars>>
  BY NavFacts DEF Types, watchVars
<1>2. UNCHANGED <<executing, sinceVars>>
  BY DEF SendFeedback
<1>3. inbox'[Len(inbox')] = [topic |-> "feedback", goal |-> g, pose |-> pose]
  BY Sent, NavFacts, VelocityGuardAssumption DEF SendFeedback, Send, Types, NavTypes, Message
<1>4. Tells(inbox'[Len(inbox')], g)
  BY <1>3 DEF Tells, IsIdle, Watched
<1>5. ASSUME NEW k \in 1..Len(inbox') PROVE Tells(inbox'[k], g)
  <2>1. k \in 1..Len(inbox) \/ k = Len(inbox')
    BY <1>1
  <2> QED BY <1>1, <1>4, <2>1 DEF Follows
<1> QED BY <1>1, <1>2, <1>5 DEF Follows, rotationVars, Tells, IsIdle, Watched

LEMMA FollowsKept ==
  ASSUME NEW g, Follows(g), UNCHANGED <<goalUuid, activeUuid, inbox>>
  PROVE  Follows(g)'
BY DEF Follows, Tells, IsIdle, Watched

\* The goals Nav2 executes, when one is accepted or ends.
LEMMA ExecutingFacts ==
  ASSUME Types
  PROVE  /\ Len(executing) \in 0..2
         /\ Len(executing) = 0 <=> executing = <<>>
         /\ \A g : executing = <<g>> <=> Len(executing) = 1 /\ executing[1] = g
         /\ \A i \in 1..Len(executing) : executing[i] \in Goals
<1> executing \in Seq(Goals) /\ Len(executing) \in Nat /\ Len(executing) <= 2
  BY LenProperties DEF Types, NavTypes
<1>1. Len(executing) = 0 <=> executing = <<>>
  BY EmptySeq
<1>2. \A i \in 1..Len(executing) : executing[i] \in Goals
  BY ElementOfSeq
<1>3. ASSUME NEW g, Len(executing) = 1, executing[1] = g PROVE executing = <<g>>
  <2>1. <<g>> \in Seq(Goals) /\ Len(<<g>>) = 1 /\ <<g>>[1] = g
    BY <1>2, <1>3
  <2> QED BY <1>3, <2>1, SeqEqual
<1>4. \A g : executing = <<g>> => Len(executing) = 1 /\ executing[1] = g
  OBVIOUS
<1>5. Len(executing) \in 0..2
  <2>1. \A n \in Nat : n <= 2 => n \in 0..2
    OBVIOUS
  <2> QED BY <2>1
<1> QED BY <1>1, <1>2, <1>3, <1>4, <1>5

LEMMA AcceptFacts ==
  ASSUME Types, NEW g \in Goals, AcceptGoal(g)
  PROVE  /\ g \notin accepted /\ accepted' = accepted \cup {g}
         /\ Len(executing') = Len(executing) + 1
         /\ \A i \in 1..Len(executing) : executing'[i] = executing[i]
         /\ executing'[Len(executing')] = g
BY LenProperties DEF AcceptGoal, Types, NavTypes

LEMMA EndFacts ==
  ASSUME Types, EndGoal
  PROVE  /\ Len(executing) \in 1..2 /\ UNCHANGED accepted
         /\ Len(executing') = Len(executing) - 1
         /\ \A i \in 1..Len(executing') : executing'[i] = executing[i + 1]
<1>1. executing # <<>> /\ executing' = Tail(executing) /\ UNCHANGED accepted
  BY DEF EndGoal
<1> QED BY <1>1, HeadTailProperties, ExecutingFacts DEF Types, NavTypes

-----------------------------------------------------------------------------
(* A goal that tripped alone is never behind another one, and as long as   *)
(* it is alone the guard stays latched on it.                              *)
TrippedOK(g) ==
  /\ g \in accepted
  /\ \A i \in 1..Len(executing) : executing[i] = g => i = 1
  /\ executing = <<g>> => latched /\ Follows(g)

ZeroInv ==
  /\ \A i \in 1..Len(executing) : executing[i] \in accepted
  /\ \A g \in tripped : TrippedOK(g)

LEMMA ZeroStep ==
  ASSUME Types, LinkInv, ZeroInv, [GuardNext]_guardVars
  PROVE  ZeroInv'
<1> Len(executing) \in 0..2
  BY ExecutingFacts
<1>1. ASSUME NEW h \in Goals, AcceptGoal(h) PROVE ZeroInv'
  <2>1. h \notin accepted /\ accepted' = accepted \cup {h} /\ UNCHANGED tripped
    BY <1>1, AcceptFacts DEF AcceptGoal, tripVars
  <2>2. ASSUME NEW i \in 1..Len(executing')
        PROVE  \/ i = Len(executing') /\ executing'[i] = h
               \/ i \in 1..Len(executing) /\ executing'[i] = executing[i]
    BY <1>1, AcceptFacts
  <2>3. \A i \in 1..Len(executing') : executing'[i] \in accepted'
    BY <2>1, <2>2 DEF ZeroInv
  <2>4. ASSUME NEW g \in tripped' PROVE TrippedOK(g)'
    <3>1. g \in tripped /\ TrippedOK(g) /\ g # h
      BY <2>1, <2>4 DEF ZeroInv, TrippedOK
    <3>2. \A i \in 1..Len(executing') : executing'[i] = g => i = 1
      BY <2>2, <3>1 DEF TrippedOK
    <3>3. executing' # <<g>>
      <4>1. executing'[Len(executing')] = h
        BY <1>1, AcceptFacts
      <4>2. executing' = <<g>> => executing'[Len(executing')] = g
        OBVIOUS
      <4> QED BY <3>1, <4>1, <4>2
    <3> QED BY <2>1, <3>1, <3>2, <3>3 DEF TrippedOK
  <2> QED BY <2>3, <2>4 DEF ZeroInv
<1>2. CASE EndGoal
  <2>1. UNCHANGED <<accepted, tripped>>
    BY <1>2 DEF EndGoal, tripVars
  <2>2. ASSUME NEW i \in 1..Len(executing')
        PROVE  i + 1 \in 1..Len(executing) /\ i + 1 # 1 /\ executing'[i] = executing[i + 1]
    BY <1>2, EndFacts
  <2>3. \A i \in 1..Len(executing') : executing'[i] \in accepted'
    BY <2>1, <2>2 DEF ZeroInv
  <2>4. ASSUME NEW g \in tripped' PROVE TrippedOK(g)'
    <3>1. g \in tripped /\ TrippedOK(g)
      BY <2>1, <2>4 DEF ZeroInv
    <3>2. \A i \in 1..Len(executing') : executing'[i] # g
      BY <2>2, <3>1 DEF TrippedOK
    <3>3. executing' = <<g>> => 1 \in 1..Len(executing') /\ executing'[1] = g
      OBVIOUS
    <3> QED BY <2>1, <3>1, <3>2, <3>3 DEF TrippedOK
  <2> QED BY <2>3, <2>4 DEF ZeroInv
<1>3. ASSUME UNCHANGED <<accepted, executing, tripped>>,
             \A g \in tripped : executing = <<g>> => (latched /\ Follows(g))'
      PROVE  ZeroInv'
  BY <1>3 DEF ZeroInv, TrippedOK
<1>4. ASSUME NEW pose \in Poses, SendFeedback(pose) PROVE ZeroInv'
  <2>1. UNCHANGED <<accepted, executing, tripped, latched>>
    BY <1>4 DEF SendFeedback, tripVars, rotationVars
  <2>2. ASSUME NEW g \in tripped, executing = <<g>> PROVE latched' /\ Follows(g)'
    BY <1>4, <2>1, <2>2, FollowsFeedback DEF ZeroInv, TrippedOK
  <2> QED BY <1>3, <2>1, <2>2
<1>5. CASE Deliver
  <2>1. UNCHANGED <<accepted, executing, tripped>>
    BY <1>5, DeliverFacts DEF Types, tripVars
  <2>2. ASSUME NEW g \in tripped, executing = <<g>> PROVE latched' /\ Follows(g)'
    BY <1>5, <2>2, FollowsDeliver DEF ZeroInv, TrippedOK, rotationVars
  <2> QED BY <1>3, <2>1, <2>2
<1>6. ASSUME NEW c \in Commands, OnCmd(c) PROVE ZeroInv'
  <2>1. UNCHANGED <<goalUuid, activeUuid, accepted, executing, inbox>> /\ (latched => latched')
    BY <1>6, CmdFacts DEF navVars, rotationVars
  <2>2. tripped' = IF latched' /\ Heard /\ executing = <<goalUuid>> THEN tripped \cup {goalUuid} ELSE tripped
    BY <1>6 DEF OnCmd
  <2>3. ASSUME NEW g \in tripped PROVE TrippedOK(g)'
    <3>1. TrippedOK(g)
      BY DEF ZeroInv
    <3> QED BY <2>1, <3>1, FollowsKept DEF TrippedOK
  <2>4. ASSUME latched', Heard, executing = <<goalUuid>> PROVE TrippedOK(goalUuid)'
    <3>1. goalUuid \in Goals /\ Len(executing) = 1 /\ executing[1] = goalUuid
      BY <2>4, ExecutingFacts
    <3>2. goalUuid \in accepted
      BY <3>1 DEF ZeroInv
    <3>3. Follows(goalUuid)'
      <4>1. goalUuid = activeUuid
        BY <3>1, RotationGuardAssumption DEF LinkInv, RotationGuardAssumption
      <4>2. Len(inbox) = 0
        BY <2>4, InboxLength DEF Heard, Types
      <4> QED BY <2>1, <4>1, <4>2 DEF Follows
    <3> QED BY <2>1, <2>4, <3>1, <3>2, <3>3 DEF TrippedOK
  <2>5. ASSUME NEW g \in tripped' PROVE TrippedOK(g)'
    <3>1. g \in tripped \/ (g = goalUuid /\ latched' /\ Heard /\ executing = <<goalUuid>>)
      BY <2>2, <2>5
    <3> QED BY <2>1, <2>3, <2>4, <3>1
  <2> QED BY <2>1, <2>5 DEF ZeroInv
<1>7. ASSUME UNCHANGED <<goalUuid, latched, activeUuid, accepted, executing, inbox, tripped>> PROVE ZeroInv'
  <2>1. ASSUME NEW g \in tripped, executing = <<g>> PROVE latched' /\ Follows(g)'
    BY <1>7, <2>1, FollowsKept DEF ZeroInv, TrippedOK
  <2> QED BY <1>3, <1>7, <2>1
<1>8. Tick \/ Quiet \/ (\E yaw \in OdomYaws : OnOdom(yaw))
        => UNCHANGED <<goalUuid, latched, activeUuid, accepted, executing, inbox, tripped>>
  BY OdomFacts DEF Tick, Quiet, rotationVars, watchVars, navVars, tripVars
<1> QED BY <1>1, <1>2, <1>4, <1>5, <1>6, <1>7, <1>8, StepKinds DEF NavStep

\* A goal whose rotation tripped the guard gets no more velocity until it
\* has ended or another one is preempting it, in whatever order messages come.
THEOREM ZeroUntilEnd == GuardSpec => ZeroUntilGoalEnds
<1>1. GuardInit => ZeroInv
  BY DEF GuardInit, ZeroInv
<1>2. Types /\ LinkInv /\ ZeroInv /\ [GuardNext]_guardVars => ZeroInv'
  BY ZeroStep
<1>3. ASSUME Types, ZeroInv, NEW c \in Commands, NEW g \in tripped, OnCmd(c), executing = <<g>>
      PROVE  output' = Zero
  <2>1. latched
    BY <1>3 DEF ZeroInv, TrippedOK
  <2>2. latched'
    BY <1>3, <2>1, CmdFacts DEF rotationVars
  <2> QED BY <1>3, <2>2, CmdFacts
<1>4. Types /\ ZeroInv /\ [GuardNext]_guardVars =>
        [\A c \in Commands, g \in tripped : OnCmd(c) /\ executing = <<g>> => output' = Zero]_guardVars
  BY <1>3
<1> QED BY <1>1, <1>2, <1>4, TypesCorrect, LinkCorrect, PTL DEF GuardSpec, ZeroUntilGoalEnds

-----------------------------------------------------------------------------
(* With messages in order, the last one under way tells of the goal that   *)
(* executes alone, and a goal that a message says is gone stays gone.      *)
Gone(g, k, box, goals) ==
  /\ \A i \in 1..Len(goals) : goals[i] # g
  /\ \A l \in k+1..Len(box) : g \notin Names(box[l])

Said(g, k, box, active) == g = active \/ \E j \in 1..k-1 : g \in Names(box[j])

OrderInv ==
  /\ activeUuid \in accepted \cup {NoGoal}
  /\ \A k \in 1..Len(inbox) : Names(inbox[k]) \subseteq accepted
  /\ goalUuid # activeUuid => Gone(activeUuid, 0, inbox, executing)
  /\ \A k \in 1..Len(inbox) : \A g : IsIdle(inbox[k]) /\ Said(g, k, inbox, activeUuid) => Gone(g, k, inbox, executing)

HeardInv ==
  Len(executing) = 1 =>
    IF inbox = <<>> THEN goalUuid = executing[1] ELSE Tells(inbox[Len(inbox)], executing[1])

\* A goal that is gone is not among those a new message names.
LEMMA NewMessage ==
  ASSUME Types, ZeroInv, NavStep
  PROVE  /\ \A i \in 1..Len(executing') :
              \/ \E j \in 1..Len(executing) : executing'[i] = executing[j]
              \/ executing'[i] \notin accepted /\ executing'[i] \in Goals
         /\ \A g \in Names(inbox'[Len(inbox')]) :
              \E i \in 1..Len(executing') \cup 1..Len(executing) : g \in {executing'[i], executing[i]}
         /\ \A g \in Names(inbox'[Len(inbox')]) :
              \/ \E i \in 1..Len(executing') : g = executing'[i]
              \/ \E i \in 1..Len(executing) : g = executing[i]
         /\ \A i \in 1..Len(executing') : executing'[i] \in accepted'
         /\ accepted \subseteq accepted'
<1> NavTypes /\ Len(executing) \in 0..2 /\ Len(executing) \in Nat
  BY ExecutingFacts DEF Types
<1>1. ASSUME NEW h \in Goals, AcceptGoal(h), NEW i \in 1..Len(executing')
      PROVE  \/ i \in 1..Len(executing) /\ executing'[i] = executing[i]
             \/ executing'[i] = h /\ h \notin accepted /\ h \in accepted'
  BY <1>1, AcceptFacts
<1>2. ASSUME EndGoal, NEW i \in 1..Len(executing')
      PROVE  i + 1 \in 1..Len(executing) /\ executing'[i] = executing[i + 1]
  BY <1>2, EndFacts
<1>3. ASSUME NEW pose \in Poses, SendFeedback(pose) PROVE UNCHANGED executing
  BY <1>3 DEF SendFeedback
<1>4. accepted \subseteq accepted'
  BY DEF NavStep, AcceptGoal, EndGoal, SendFeedback
<1>5. \A i \in 1..Len(executing') :
         \/ \E j \in 1..Len(executing) : executing'[i] = executing[j]
         \/ executing'[i] \notin accepted /\ executing'[i] \in Goals /\ executing'[i] \in accepted'
  BY <1>1, <1>2, <1>3 DEF NavStep
<1>6. \A i \in 1..Len(executing') : executing'[i] \in accepted'
  BY <1>4, <1>5 DEF ZeroInv
<1>7. \A g \in Names(inbox'[Len(inbox')]) :
              \/ \E i \in 1..Len(executing') : g = executing'[i]
              \/ \E i \in 1..Len(executing) : g = executing[i]
  <2>1. CASE inbox'[Len(inbox')] = [topic |-> "status", active |-> executing']
    BY <2>1 DEF Names
  <2>2. CASE executing # <<>> /\ \E pose \in Poses : inbox'[Len(inbox')] =
                    [topic |-> "feedback", goal |-> executing[1], pose |-> pose]
    <3>1. 1 \in 1..Len(executing)
      BY <2>2, ExecutingFacts
    <3> QED BY <2>2, <3>1 DEF Names
  <2> QED BY <2>1, <2>2, NavFacts DEF NavStep
<1> QED BY <1>4, <1>5, <1>6, <1>7

LEMMA OrderNav ==
  ASSUME Types, LinkInv, ZeroInv, OrderInv, NavStep
  PROVE  OrderInv'
<1> /\ NavTypes /\ Len(inbox) \in Nat /\ Len(inbox') = Len(inbox) + 1
    /\ \A k \in 1..Len(inbox) : inbox'[k] = inbox[k]
    /\ UNCHANGED <<goalUuid, activeUuid>>
  BY NavFacts DEF Types, NavStep, rotationVars, watchVars
<1>1. \A k \in 1..Len(inbox') : k \in 1..Len(inbox) \/ k = Len(inbox')
  OBVIOUS
<1>2. ASSUME NEW g \in accepted \cup {NoGoal}, NEW k \in 0..Len(inbox), Gone(g, k, inbox, executing)
      PROVE  Gone(g, k, inbox', executing')
  <2>1. g \notin Goals \/ g \in accepted
    BY RotationGuardAssumption DEF RotationGuardAssumption
  <2>2. \A i \in 1..Len(executing') : executing'[i] # g
    BY <1>2, <2>1, NewMessage DEF Gone
  <2>3. g \notin Names(inbox'[Len(inbox')])
    BY <1>2, <2>2, NewMessage DEF Gone
  <2>4. ASSUME NEW l \in k+1..Len(inbox') PROVE g \notin Names(inbox'[l])
    <3>1. l = Len(inbox') \/ (l \in k+1..Len(inbox) /\ inbox'[l] = inbox[l])
      BY <1>1
    <3> QED BY <1>2, <2>3, <3>1 DEF Gone
  <2> QED BY <2>2, <2>4 DEF Gone, Names
<1>3. ASSUME NEW k \in 1..Len(inbox') PROVE Names(inbox'[k]) \subseteq accepted'
  <2>1. Names(inbox'[Len(inbox')]) \subseteq accepted'
    BY NewMessage DEF ZeroInv
  <2> QED BY <1>1, <2>1, NewMessage DEF OrderInv
<1>4. ASSUME NEW k \in 1..Len(inbox'), NEW g, IsIdle(inbox'[k]), Said(g, k, inbox', activeUuid')
      PROVE  Gone(g, k, inbox', executing')
  <2>1. CASE k = Len(inbox')
    <3>1. inbox'[Len(inbox')] = [topic |-> "status", active |-> executing']
      <4>1. inbox'[Len(inbox')].topic = "status"
        BY <1>4, <2>1 DEF IsIdle
      <4>2. \/ inbox'[Len(inbox')] = [topic |-> "status", active |-> executing']
            \/ \E pose \in Poses : inbox'[Len(inbox')] =
                    [topic |-> "feedback", goal |-> executing[1], pose |-> pose]
        BY NavFacts DEF NavStep
      <4>3. ASSUME NEW pose \in Poses, inbox'[Len(inbox')] =
                    [topic |-> "feedback", goal |-> executing[1], pose |-> pose]
            PROVE  FALSE
        <5>1. inbox'[Len(inbox')].topic = "feedback"
          BY <4>3
        <5> QED BY <4>1, <5>1
      <4> QED BY <4>2, <4>3
    <3>2. executing' = <<>>
      BY <1>4, <2>1, <3>1 DEF IsIdle
    <3>3. \A i \in 1..Len(executing') : executing'[i] # g
      BY <3>2
    <3>4. k+1..Len(inbox') = {}
      BY <2>1
    <3> QED BY <3>3, <3>4 DEF Gone
  <2>2. CASE k \in 1..Len(inbox)
    <3>1. \A j \in 1..k-1 : j \in 1..Len(inbox) /\ inbox'[j] = inbox[j]
      BY <2>2
    <3>2. Said(g, k, inbox, activeUuid)
      BY <1>4, <3>1 DEF Said, Names
    <3>3. g \in accepted \cup {NoGoal}
      BY <3>1, <3>2 DEF Said, OrderInv
    <3>4. Gone(g, k, inbox, executing)
      BY <1>4, <2>2, <3>2 DEF OrderInv
    <3> QED BY <1>2, <2>2, <3>3, <3>4
  <2> QED BY <1>1, <2>1, <2>2
<1>5. goalUuid' # activeUuid' => Gone(activeUuid', 0, inbox', executing')
  BY <1>2 DEF OrderInv
<1>6. activeUuid' \in accepted' \cup {NoGoal}
  BY NewMessage DEF OrderInv
<1> QED BY <1>3, <1>4, <1>5, <1>6 DEF OrderInv

LEMMA OrderDeliver ==
  ASSUME Types, LinkInv, OrderInv, Ordered, Deliver
  PROVE  OrderInv'
<1> NavTypes /\ Len(inbox) \in Nat
  BY InboxLength DEF Types
<1>1. /\ 1 \in 1..Len(inbox) /\ Len(inbox') = Len(inbox) - 1
      /\ \A k \in 1..Len(inbox') : inbox'[k] = inbox[k + 1]
      /\ UNCHANGED <<accepted, executing>>
  BY DeliverFacts
<1>2. \/ ~IsIdle(inbox[1]) /\ Watch(Watched(inbox[1])) /\ Watched(inbox[1]) \in Names(inbox[1])
         /\ Names(inbox[1]) \subseteq Goals
      \/ /\ IsIdle(inbox[1]) /\ UNCHANGED activeUuid
         /\ IF activeUuid # NoGoal THEN ClearIfIdle ELSE UNCHANGED rotationVars
  BY DeliverFacts DEF watchVars
<1>3. \A k \in 1..Len(inbox') : k + 1 \in 1..Len(inbox)
  BY <1>1
<1>4. activeUuid' = activeUuid \/ activeUuid' \in Names(inbox[1])
  BY <1>2, WatchFacts
<1>5. ASSUME NEW g, NEW k \in 1..Len(inbox), Gone(g, k, inbox, executing) PROVE Gone(g, k - 1, inbox', executing')
  <2>1. \A l \in (k-1)+1..Len(inbox') : l + 1 \in k+1..Len(inbox) /\ inbox'[l] = inbox[l + 1]
    BY <1>1
  <2> QED BY <1>1, <1>5, <2>1 DEF Gone, Names
<1>6. \A k \in 1..Len(inbox') : Names(inbox'[k]) \subseteq accepted'
  BY <1>1, <1>3 DEF OrderInv
<1>7. ASSUME NEW k \in 1..Len(inbox'), NEW g, IsIdle(inbox'[k]), Said(g, k, inbox', activeUuid')
      PROVE  Gone(g, k, inbox', executing')
  <2>1. k \in Nat /\ \A j \in 1..k-1 : j \in 1..Len(inbox') /\ j + 1 \in 1..(k + 1)-1
    BY <1>1
  <2>2. 1 \in 1..(k + 1)-1
    BY <2>1
  <2>3. Said(g, k + 1, inbox, activeUuid)
    <3>1. CASE g = activeUuid'
      BY <1>4, <2>2, <3>1 DEF Said
    <3>2. CASE \E j \in 1..k-1 : g \in Names(inbox'[j])
      BY <1>1, <2>1, <3>2 DEF Said
    <3> QED BY <1>7, <3>1, <3>2 DEF Said, Names
  <2>4. Gone(g, k + 1, inbox, executing)
    BY <1>1, <1>3, <1>7, <2>3 DEF OrderInv
  <2>5. (k + 1) - 1 = k
    BY <2>1
  <2> QED BY <1>3, <1>5, <2>4, <2>5
<1>8. goalUuid' # activeUuid' => Gone(activeUuid', 0, inbox', executing')
  <2>1. CASE ~IsIdle(inbox[1])
    <3>1. CASE Watched(inbox[1]) = activeUuid
      <4>1. UNCHANGED <<goalUuid, activeUuid>> /\ activeUuid \in Names(inbox[1])
        BY <1>2, <2>1, <3>1, WatchFacts DEF rotationVars
      <4>2. ~Gone(activeUuid, 0, inbox, executing)
        BY <1>1, <4>1 DEF Gone
      <4> QED BY <4>1, <4>2 DEF OrderInv
    <3>2. CASE Watched(inbox[1]) # activeUuid
      BY <1>2, <2>1, <3>2, WatchFacts
    <3> QED BY <3>1, <3>2
  <2>2. CASE IsIdle(inbox[1]) /\ activeUuid # NoGoal
    <3>1. UNCHANGED activeUuid /\ Gone(activeUuid, 1, inbox, executing)
      BY <1>1, <1>2, <2>2 DEF OrderInv, Said
    <3>2. 1 - 1 = 0
      OBVIOUS
    <3>3. Gone(activeUuid, 0, inbox', executing')
      BY <1>1, <1>5, <3>1, <3>2
    <3> QED BY <3>1, <3>3
  <2>3. CASE IsIdle(inbox[1]) /\ activeUuid = NoGoal
    BY <1>2, <2>3 DEF LinkInv, rotationVars
  <2> QED BY <2>1, <2>2, <2>3
<1>9. activeUuid' \in accepted' \cup {NoGoal}
  BY <1>1, <1>4 DEF OrderInv
<1> QED BY <1>6, <1>7, <1>8, <1>9 DEF OrderInv

LEMMA OrderStep ==
  ASSUME Types, LinkInv, ZeroInv, OrderInv, Ordered, [GuardNext]_guardVars
  PROVE  OrderInv'
<1>1. CASE UNCHANGED <<goalUuid, activeUuid, accepted, executing, inbox>>
  BY <1>1 DEF OrderInv
<1>2. Tick \/ Quiet \/ (\E c \in Commands : OnCmd(c)) \/ (\E yaw \in OdomYaws : OnOdom(yaw))
        => UNCHANGED <<goalUuid, activeUuid, accepted, executing, inbox>>
  BY CmdFacts, OdomFacts DEF Tick, Quiet, rotationVars, watchVars, navVars
<1> QED BY <1>1, <1>2, OrderNav, OrderDeliver, StepKinds

LEMMA HeardStep ==
  ASSUME Types, LinkInv, OrderInv, HeardInv, Ordered, [GuardNext]_guardVars
  PROVE  HeardInv'
<1> /\ NavTypes /\ Len(inbox) \in Nat /\ (inbox = <<>> <=> Len(inbox) = 0)
    /\ Len(executing) \in 0..2
  BY InboxLength, ExecutingFacts DEF Types
<1>1. ASSUME Deliver, Len(executing) = 1 PROVE HeardInv'
  <2>1. /\ 1 \in 1..Len(inbox) /\ Len(inbox') = Len(inbox) - 1 /\ inbox' \in Seq(Message)
        /\ \A k \in 1..Len(inbox') : inbox'[k] = inbox[k + 1]
        /\ UNCHANGED executing
        /\ ~IsIdle(inbox[1]) => Watched(inbox[1]) \in Goals /\ Watch(Watched(inbox[1]))
    BY <1>1, DeliverFacts
  <2>2. inbox # <<>> /\ Tells(inbox[Len(inbox)], executing[1])
    BY <1>1, <2>1 DEF HeardInv
  <2>3. CASE inbox' # <<>>
    <3>1. Len(inbox') \in 1..Len(inbox') /\ Len(inbox') + 1 = Len(inbox)
      BY <2>1, <2>3, EmptySeq
    <3>2. Tells(inbox'[Len(inbox')], executing'[1])
      BY <2>1, <2>2, <3>1
    <3> QED BY <2>3, <3>2 DEF HeardInv, Tells, IsIdle, Watched
  <2>4. CASE inbox' = <<>>
    <3>1. Len(inbox) = 1
      BY <2>1, <2>4
    <3>2. executing[1] \in Goals /\ Watch(executing[1])
      BY <2>1, <2>2, <3>1 DEF Tells
    <3>3. CASE executing[1] = activeUuid
      <4>1. ~Gone(activeUuid, 0, inbox, executing)
        BY <1>1, <3>3 DEF Gone
      <4>2. goalUuid = executing[1] /\ UNCHANGED goalUuid
        BY <3>2, <3>3, <4>1, WatchFacts DEF OrderInv, rotationVars
      <4> QED BY <2>1, <2>4, <4>2 DEF HeardInv
    <3>4. CASE executing[1] # activeUuid
      <4>1. goalUuid' = executing[1]
        BY <3>2, <3>4, WatchFacts
      <4> QED BY <2>1, <2>4, <4>1 DEF HeardInv
    <3> QED BY <3>3, <3>4
  <2> QED BY <2>3, <2>4
<1>2. CASE Deliver /\ Len(executing) # 1
  BY <1>2, DeliverFacts DEF HeardInv
<1>3. CASE NavStep
  <2>1. Len(inbox') = Len(inbox) + 1 /\ inbox' \in Seq(Message)
    BY <1>3, NavFacts DEF NavStep
  <2>2. inbox' # <<>>
    BY <2>1, EmptySeq
  <2>3. \/ inbox'[Len(inbox')] = [topic |-> "status", active |-> executing']
        \/ /\ UNCHANGED executing
           /\ \E pose \in Poses : inbox'[Len(inbox')] =
                [topic |-> "feedback", goal |-> executing[1], pose |-> pose]
    BY <1>3, NavFacts DEF NavStep
  <2>4. Len(executing') = 1 => executing' # <<>> /\ Last(executing') = executing'[1]
    BY DEF Last
  <2>5. ASSUME Len(executing') = 1 PROVE Tells(inbox'[Len(inbox')], executing'[1])
    <3>1. ASSUME NEW m, m = [topic |-> "status", active |-> executing'] PROVE Tells(m, executing'[1])
      BY <2>4, <2>5, <3>1 DEF Tells, IsIdle, Watched
    <3>2. ASSUME NEW m, NEW pose, m = [topic |-> "feedback", goal |-> executing[1], pose |-> pose]
          PROVE  Tells(m, executing[1])
      BY <3>2 DEF Tells, IsIdle, Watched
    <3> QED BY <2>3, <3>1, <3>2
  <2> QED BY <2>2, <2>5 DEF HeardInv, Tells, IsIdle, Watched
<1>4. CASE UNCHANGED <<goalUuid, executing, inbox>>
  BY <1>4 DEF HeardInv, Tells, IsIdle, Watched
<1>5. Tick \/ Quiet \/ (\E c \in Commands : OnCmd(c)) \/ (\E yaw \in OdomYaws : OnOdom(yaw))
        => UNCHANGED <<goalUuid, executing, inbox>>
  BY CmdFacts, OdomFacts DEF Tick, Quiet, rotationVars, navVars
<1> QED BY <1>1, <1>2, <1>3, <1>4, <1>5, StepKinds

\* The guard's own clock readings lie in the past.
ClockInv ==
  /\ spin.startedAt # None => spin.progressAt \in 0..now
  /\ terminal.startedAt # None => terminal.startedAt \in 0..now

\* What a command in place makes of the spin, when it does not trip the guard.
LEMMA SpinFacts ==
  ASSUME Types, ClockInv, NEW robot, NEW goal, Evaluate(now, TRUE, robot, goal),
         ~latched, goalUuid # NoGoal
  PROVE  /\ spin'.startedAt # None /\ spin'.progressAt \in 0..now
         /\ spin'.rotation - spin'.mark < GlobalProgress
         /\ ~latched' => now - spin'.progressAt <= GlobalTimeout
         /\ spin.startedAt # None /\ spin.rotation - spin.mark < GlobalProgress => UNCHANGED spin
<1> /\ RotationTypes /\ now \in Nat /\ None \notin Nat /\ GlobalProgress \in Nat \ {0}
    /\ GlobalTimeout \in Nat
  BY RotationGuardAssumption, VelocityGuardAssumption
     DEF Types, NavTypes, RotationGuardAssumption, VelocityGuardAssumption
<1>1. spin' = SpinNow(now) /\ (SpinTrips(now, spin') => latched')
  BY EvaluateFacts
<1>2. \A n \in Rotations : n \in Nat /\ n - n = 0
  BY DEF Rotations
<1>3. CASE spin.startedAt = None
  <2>1. 0 - 0 < GlobalProgress /\ now \in 0..now
    OBVIOUS
  <2>2. spin' = NewSpin(now)
    BY <1>1, <1>3, <2>1 DEF SpinNow, NewSpin
  <2> QED BY <1>1, <1>3, <2>1, <2>2 DEF NewSpin, SpinTrips
<1>4. CASE spin.startedAt # None /\ spin.rotation - spin.mark < GlobalProgress
  <2>1. spin.rotation \in Nat /\ spin.mark \in Nat
    BY <1>2 DEF RotationTypes
  <2>2. spin' = spin
    BY <1>1, <1>4, <2>1 DEF SpinNow
  <2> QED BY <1>1, <1>4, <2>2 DEF ClockInv, SpinTrips
<1>5. CASE spin.startedAt # None /\ ~(spin.rotation - spin.mark < GlobalProgress)
  <2>1. spin.rotation \in Nat /\ spin.mark \in Nat /\ spin.rotation - spin.rotation < GlobalProgress
    BY <1>2 DEF RotationTypes
  <2>2. spin' = [spin EXCEPT !.mark = spin.rotation, !.progressAt = now]
    BY <1>1, <1>5, <2>1 DEF SpinNow
  <2> QED BY <1>1, <1>5, <2>1, <2>2 DEF SpinTrips, RotationTypes
<1> QED BY <1>3, <1>4, <1>5

\* The alignment window of a goal opens once, and closes by the clock.
LEMMA TerminalFacts ==
  ASSUME Types, ClockInv, NEW inPlace \in BOOLEAN, NEW robot, NEW goal,
         Evaluate(now, inPlace, robot, goal)
  PROVE  /\ terminal.startedAt # None => terminal'.startedAt = terminal.startedAt
         /\ terminal'.startedAt # None => terminal'.startedAt \in 0..now
         /\ inPlace /\ goalUuid # NoGoal /\ AtPlanEnd(robot, goal) /\ ~latched' =>
              terminal'.startedAt # None /\ now - terminal'.startedAt <= TerminalTimeout
<1> /\ RotationTypes /\ now \in Nat /\ now \in 0..now /\ None \notin Nat /\ TerminalTimeout \in Nat
  BY RotationGuardAssumption, VelocityGuardAssumption
     DEF Types, NavTypes, RotationGuardAssumption, VelocityGuardAssumption
<1> DEFINE error == Apart(robot.yaw, goal.yaw)
           t == TerminalNow(now, error)
<1>1. /\ t.startedAt \in 0..now /\ "startedAt" \in DOMAIN t
      /\ terminal.startedAt # None => t = terminal
  BY DEF TerminalNow, OpenTerminal, ClockInv, RotationTypes
<1>2. \/ UNCHANGED terminal
      \/ terminal' = t
      \/ terminal' = [t EXCEPT !.bestError = error, !.progressAt = now]
  BY DEF Evaluate, rotationVars
<1>3. inPlace /\ goalUuid # NoGoal /\ AtPlanEnd(robot, goal) /\ ~latched' =>
         /\ \/ terminal' = t
            \/ terminal' = [t EXCEPT !.bestError = error, !.progressAt = now]
         /\ ~TerminalTrips(now, t, error)
  BY DEF Evaluate, rotationVars
<1> HIDE DEF error, t
<1>4. ~TerminalTrips(now, t, error) => now - t.startedAt <= TerminalTimeout
  BY <1>1 DEF TerminalTrips
<1>5. [t EXCEPT !.bestError = error, !.progressAt = now].startedAt = t.startedAt
  BY <1>1
<1>6. terminal' = t \/ terminal' = [t EXCEPT !.bestError = error, !.progressAt = now]
        => terminal'.startedAt = t.startedAt
  BY <1>5
<1>7. terminal.startedAt # None => terminal'.startedAt = terminal.startedAt
  BY <1>1, <1>2, <1>6
<1>8. terminal'.startedAt # None => terminal'.startedAt \in 0..now
  BY <1>1, <1>2, <1>6 DEF ClockInv
<1>9. t.startedAt # None
  BY <1>1
<1> QED BY <1>3, <1>4, <1>6, <1>7, <1>8, <1>9

LEMMA ClockStep ==
  ASSUME Types, LinkInv, ClockInv, [GuardNext]_guardVars
  PROVE  ClockInv'
<1> RotationTypes /\ now \in Nat
  BY VelocityGuardAssumption DEF Types, NavTypes, VelocityGuardAssumption
<1>1. CASE UNCHANGED <<spin, terminal, now>>
  BY <1>1 DEF ClockInv
<1>2. CASE Deliver
  <2>1. /\ UNCHANGED now
        /\ \/ UNCHANGED <<spin, terminal>>
           \/ spin' = NoSpin /\ terminal' = NoTerminal
    BY <1>2, DeliverFacts, WatchFacts DEF Types, ClearIfIdle, rotationVars
  <2>2. CASE spin' = NoSpin /\ terminal' = NoTerminal
    BY <2>2 DEF ClockInv, NoSpin, NoTerminal
  <2> QED BY <1>1, <2>1, <2>2
<1>3. ASSUME NEW c \in Commands, OnCmd(c) PROVE ClockInv'
  <2>1. PICK inPlace \in BOOLEAN : Evaluate(now, inPlace, robotPose, goalPose) /\ UNCHANGED now
    BY <1>3, CommandFacts DEF OnCmd, Types, navVars
  <2>2. terminal'.startedAt # None => terminal'.startedAt \in 0..now
    BY <2>1, TerminalFacts
  <2>3. spin'.startedAt # None => spin'.progressAt \in 0..now
    <3>1. CASE latched \/ goalUuid = NoGoal
      <4>1. UNCHANGED spin
        BY <2>1, <3>1, EvaluateFacts DEF rotationVars
      <4> QED BY <4>1 DEF ClockInv
    <3>2. CASE ~latched /\ goalUuid # NoGoal /\ inPlace = TRUE
      BY <2>1, <3>2, SpinFacts
    <3>3. CASE ~latched /\ goalUuid # NoGoal /\ inPlace = FALSE
      <4>1. spin' = NoSpin
        BY <2>1, <3>3, EvaluateFacts
      <4> QED BY <4>1 DEF NoSpin
    <3> QED BY <3>1, <3>2, <3>3
  <2> QED BY <2>1, <2>2, <2>3 DEF ClockInv
<1>4. ASSUME NEW yaw \in OdomYaws, OnOdom(yaw) PROVE ClockInv'
  <2>1. /\ spin'.startedAt = spin.startedAt /\ spin'.progressAt = spin.progressAt
        /\ terminal'.startedAt = terminal.startedAt
    BY <1>4 DEF OnOdom, ObserveOdom, RotationTypes
  <2> QED BY <1>4, <2>1 DEF OnOdom, navVars, ClockInv
<1>5. CASE Tick
  <2>1. now' = now + 1 /\ UNCHANGED <<spin, terminal>>
    BY <1>5 DEF Tick, rotationVars
  <2>2. 0..now \subseteq 0..now'
    BY <2>1
  <2> QED BY <2>1, <2>2 DEF ClockInv
<1>6. NavStep \/ Quiet => UNCHANGED <<spin, terminal, now>>
  BY NavFacts DEF Types, NavStep, Quiet, rotationVars, navVars
<1> QED BY <1>1, <1>2, <1>3, <1>4, <1>5, <1>6, StepKinds

-----------------------------------------------------------------------------
(* Since when commands turn in place, and what the guard has counted since. *)
\* While two goals execute no time passes, and whose spin the guard counts
\* does not matter; the goal that executes alone is the one it judges.
Measured(since, counted) ==
  since # None =>
    /\ since \in 0..now /\ executing # <<>>
    /\ Len(executing) = 2 => since = now
    /\ Len(executing) = 1 => Follows(executing[1]) /\ (latched \/ counted)

SpinCounted ==
  /\ spin.startedAt # None /\ spin.progressAt \in 0..stillSince
  /\ spin.rotation - spin.mark < GlobalProgress

AlignCounted == terminal.startedAt # None /\ terminal.startedAt \in 0..alignSince

StillInv == Measured(stillSince, SpinCounted)
AlignInv == Measured(alignSince, AlignCounted)

\* A goal that executes alone is followed once all messages have been heard and
\* the guard judges it.
LEMMA JudgedFollows ==
  ASSUME Types, LinkInv, Heard, Len(executing) = 1, goalUuid = executing[1]
  PROVE  Follows(executing[1])
<1>1. executing[1] \in Goals
  BY ExecutingFacts
<1>2. activeUuid = goalUuid
  BY <1>1, RotationGuardAssumption DEF LinkInv, RotationGuardAssumption
<1>3. Len(inbox) = 0
  BY InboxLength DEF Types, Heard
<1> QED BY <1>2, <1>3 DEF Follows

\* A command leaves alone which goal the guard follows.
LEMMA FollowsCmd ==
  ASSUME Types, NEW c \in Commands, OnCmd(c), Len(executing) = 1, Follows(executing[1])
  PROVE  /\ Follows(executing[1])' /\ executing'[1] = executing[1]
         /\ goalUuid = executing[1] /\ goalUuid # NoGoal
<1>1. UNCHANGED <<goalUuid, activeUuid, executing, inbox>>
  BY CmdFacts DEF navVars
<1>2. executing[1] \in Goals
  BY ExecutingFacts
<1> QED BY <1>1, <1>2, RotationGuardAssumption DEF Follows, Tells, IsIdle, Watched, RotationGuardAssumption

LEMMA StillCmd ==
  ASSUME Types, LinkInv, HeardInv, ClockInv, StillInv, NEW c \in Commands, OnCmd(c)
  PROVE  StillInv'
<1> DEFINE v == BoundedVelocity(c)
<1> now \in Nat /\ None \notin Nat
  BY RotationGuardAssumption, VelocityGuardAssumption
     DEF Types, NavTypes, RotationGuardAssumption, VelocityGuardAssumption
<1> now \in 0..now
  OBVIOUS
<1> InPlace(v) \in BOOLEAN
  BY CommandFacts DEF Types
<1>1. /\ Evaluate(now, InPlace(v), robotPose, goalPose)
      /\ UNCHANGED <<now, executing>> /\ (latched => latched')
  BY CmdFacts DEF OnCmd, navVars, rotationVars
<1>2. stillSince' = IF ~InPlace(v) THEN None
                    ELSE IF stillSince = None /\ Heard THEN now ELSE stillSince
  BY DEF OnCmd
<1> HIDE DEF v
<1>3. CASE stillSince' = None
  BY <1>3 DEF StillInv, Measured
<1>4. CASE stillSince' # None
  <2>1. /\ InPlace(v) = TRUE
        /\ \/ stillSince = None /\ Heard /\ stillSince' = now
           \/ stillSince # None /\ stillSince' = stillSince
    BY <1>2, <1>4
  <2>2. stillSince' \in 0..now /\ executing # <<>> /\ (Len(executing) = 2 => stillSince' = now)
    BY <2>1 DEF Heard, StillInv, Measured
  <2>3. ASSUME Len(executing) = 1
        PROVE  Follows(executing[1])' /\ (latched' \/ SpinCounted')
    <3>1. Follows(executing[1]) /\ (latched \/ stillSince = None \/ SpinCounted)
      BY <2>1, <2>3, JudgedFollows DEF Heard, HeardInv, StillInv, Measured
    <3>2. Follows(executing[1])' /\ goalUuid # NoGoal
      BY <2>3, <3>1, FollowsCmd
    <3>3. ASSUME ~latched' PROVE SpinCounted'
      <4>1. ~latched
        BY <1>1, <3>3
      <4>2. /\ spin'.startedAt # None /\ spin'.progressAt \in 0..now
            /\ spin'.rotation - spin'.mark < GlobalProgress
            /\ spin.startedAt # None /\ spin.rotation - spin.mark < GlobalProgress => UNCHANGED spin
        BY <1>1, <2>1, <3>2, <4>1, SpinFacts
      <4>3. CASE stillSince' = now
        BY <4>2, <4>3 DEF SpinCounted
      <4>4. CASE stillSince # None /\ stillSince' = stillSince
        BY <3>1, <4>1, <4>2, <4>4 DEF SpinCounted
      <4> QED BY <2>1, <4>3, <4>4
    <3> QED BY <3>2, <3>3
  <2> QED BY <1>1, <2>2, <2>3 DEF StillInv, Measured
<1> QED BY <1>3, <1>4

\* The alignment's clock starts with a command for the goal the guard judges.
LEMMA AlignCmd ==
  ASSUME Types, LinkInv, ClockInv, AlignInv, NEW c \in Commands, OnCmd(c)
  PROVE  AlignInv'
<1> DEFINE v == BoundedVelocity(c)
<1> now \in Nat /\ None \notin Nat
  BY RotationGuardAssumption, VelocityGuardAssumption
     DEF Types, NavTypes, RotationGuardAssumption, VelocityGuardAssumption
<1> now \in 0..now
  OBVIOUS
<1> InPlace(v) \in BOOLEAN
  BY CommandFacts DEF Types
<1>1. /\ Evaluate(now, InPlace(v), robotPose, goalPose)
      /\ UNCHANGED <<now, executing>> /\ (latched => latched')
  BY CmdFacts DEF OnCmd, navVars, rotationVars
<1>2. alignSince' = IF /\ alignSince = None /\ Heard /\ Last(executing) = goalUuid
                       /\ InPlace(v) /\ AtPlanEnd(robotPose, goalPose)
                      THEN now ELSE alignSince
  BY DEF OnCmd
<1> HIDE DEF v
<1>3. CASE alignSince' = None
  BY <1>3 DEF AlignInv, Measured
<1>4. CASE alignSince' # None
  <2>1. \/ /\ alignSince = None /\ Heard /\ Last(executing) = goalUuid /\ alignSince' = now
           /\ InPlace(v) = TRUE /\ AtPlanEnd(robotPose, goalPose)
        \/ alignSince # None /\ alignSince' = alignSince
    BY <1>2, <1>4
  <2>2. alignSince' \in 0..now /\ executing # <<>> /\ (Len(executing) = 2 => alignSince' = now)
    BY <2>1 DEF Heard, AlignInv, Measured
  <2>3. ASSUME Len(executing) = 1
        PROVE  Follows(executing[1])' /\ (latched' \/ AlignCounted')
    <3>1. Follows(executing[1]) /\ (latched \/ alignSince = None \/ AlignCounted)
      <4>1. CASE Heard /\ Last(executing) = goalUuid /\ alignSince = None
        BY <2>3, <4>1, JudgedFollows DEF Last
      <4>2. CASE alignSince # None
        BY <2>3, <4>2 DEF AlignInv, Measured
      <4> QED BY <2>1, <4>1, <4>2
    <3>2. Follows(executing[1])' /\ goalUuid # NoGoal
      BY <2>3, <3>1, FollowsCmd
    <3>3. ASSUME ~latched' PROVE AlignCounted'
      <4>1. ~latched
        BY <1>1, <3>3
      <4>2. CASE alignSince' = now /\ InPlace(v) = TRUE /\ AtPlanEnd(robotPose, goalPose)
        BY <1>1, <3>2, <3>3, <4>2, TerminalFacts DEF AlignCounted
      <4>3. CASE alignSince # None /\ alignSince' = alignSince
        BY <1>1, <3>1, <4>1, <4>3, TerminalFacts DEF AlignCounted
      <4> QED BY <2>1, <4>2, <4>3
    <3> QED BY <3>2, <3>3
  <2> QED BY <1>1, <2>2, <2>3 DEF AlignInv, Measured
<1> QED BY <1>3, <1>4

\* No other step of a goal's own lets go of it or forgets what was counted.
LEMMA FollowsOn ==
  ASSUME Types, LinkInv, Len(executing) = 1, Follows(executing[1]),
         \/ Deliver \/ Tick \/ Quiet
         \/ \E pose \in Poses : SendFeedback(pose)
         \/ \E yaw \in OdomYaws : OnOdom(yaw)
  PROVE  /\ Follows(executing[1])' /\ UNCHANGED latched
         /\ terminal'.startedAt = terminal.startedAt
         /\ ~(\E yaw \in OdomYaws : OnOdom(yaw)) => UNCHANGED spin
<1>1. CASE Deliver \/ \E pose \in Poses : SendFeedback(pose)
  <2>1. Follows(executing[1])' /\ UNCHANGED <<rotationVars, executing>>
    BY <1>1, FollowsDeliver, FollowsFeedback
  <2> QED BY <2>1 DEF rotationVars
<1>2. CASE Tick \/ Quiet
  <2>1. UNCHANGED <<rotationVars, activeUuid, executing, inbox>>
    BY <1>2 DEF Tick, Quiet, watchVars, navVars
  <2> QED BY <2>1, FollowsKept DEF rotationVars
<1>3. ASSUME NEW yaw \in OdomYaws, OnOdom(yaw)
      PROVE  /\ Follows(executing[1])' /\ UNCHANGED latched /\ terminal'.startedAt = terminal.startedAt
  <2>1. UNCHANGED <<goalUuid, activeUuid, latched, executing, inbox>>
    BY <1>3, OdomFacts DEF navVars
  <2>2. terminal'.startedAt = terminal.startedAt
    BY <1>3 DEF OnOdom, ObserveOdom, Types, RotationTypes
  <2> QED BY <2>1, <2>2, FollowsKept
<1> QED BY <1>1, <1>2, <1>3

\* The history is measured from a goal's own commands, and time only passes
\* while it executes alone.
LEMMA SinceFacts ==
  ASSUME Types, LinkInv, [GuardNext]_guardVars
  PROVE  \/ \E c \in Commands : OnCmd(c)
         \/ stillSince' = None /\ alignSince' = None
         \/ /\ \/ Deliver \/ Tick \/ Quiet
               \/ \E pose \in Poses : SendFeedback(pose)
               \/ \E yaw \in OdomYaws : OnOdom(yaw)
            /\ UNCHANGED <<executing, alignSince>> /\ stillSince' \in {None, stillSince}
            /\ 0..now \subseteq 0..now' /\ (Len(executing) = 2 => now' = now)
<1> now \in Nat
  BY VelocityGuardAssumption DEF Types, NavTypes, VelocityGuardAssumption
<1>1. CASE Deliver
  BY <1>1, DeliverFacts DEF Types, sinceVars
<1>2. EndGoal \/ (\E g \in Goals : AcceptGoal(g)) => stillSince' = None /\ alignSince' = None
  BY DEF EndGoal, AcceptGoal
<1>3. ASSUME NEW pose \in Poses, SendFeedback(pose)
      PROVE  UNCHANGED <<executing, sinceVars, now>>
  BY <1>3 DEF SendFeedback
<1>4. ASSUME NEW yaw \in OdomYaws, OnOdom(yaw)
      PROVE  UNCHANGED <<executing, alignSince, now>> /\ stillSince' \in {None, stillSince}
  BY <1>4 DEF OnOdom, navVars
<1>5. CASE Tick
  <2>1. now' = now + 1 /\ Len(executing) <= 1 /\ UNCHANGED <<executing, sinceVars>>
    BY <1>5 DEF Tick
  <2>2. 0..now \subseteq 0..now' /\ Len(executing) # 2
    BY <2>1
  <2> QED BY <1>5, <2>1, <2>2 DEF sinceVars
<1>6. CASE Quiet
  BY <1>6 DEF Quiet, navVars, sinceVars
<1> QED BY <1>1, <1>2, <1>3, <1>4, <1>5, <1>6, StepKinds DEF NavStep, sinceVars

LEMMA StillStep ==
  ASSUME Types, LinkInv, HeardInv, ClockInv, StillInv, [GuardNext]_guardVars
  PROVE  StillInv'
<1> SUFFICES ASSUME stillSince' # None, ~(\E c \in Commands : OnCmd(c)) PROVE StillInv'
  BY StillCmd DEF StillInv, Measured
<1>1. /\ \/ Deliver \/ Tick \/ Quiet
         \/ \E pose \in Poses : SendFeedback(pose)
         \/ \E yaw \in OdomYaws : OnOdom(yaw)
      /\ UNCHANGED <<executing, stillSince>>
      /\ 0..now \subseteq 0..now' /\ (Len(executing) = 2 => now' = now)
  BY SinceFacts
<1>2. ASSUME Len(executing) = 1 PROVE Follows(executing[1])' /\ (latched' \/ SpinCounted')
  <2>1. Follows(executing[1]) /\ (latched \/ SpinCounted)
    BY <1>1, <1>2 DEF StillInv, Measured
  <2>2. Follows(executing[1])' /\ UNCHANGED latched
    BY <1>1, <1>2, <2>1, FollowsOn
  <2>3. UNCHANGED spin
    <3>1. ASSUME NEW yaw \in OdomYaws, OnOdom(yaw) PROVE UNCHANGED spin
      <4>1. lastOdomYaw \in {None, yaw}
        BY <1>1, <3>1 DEF OnOdom
      <4>2. (IF lastOdomYaw # None /\ rotating THEN Apart(lastOdomYaw, yaw) ELSE 0) = 0
        BY <4>1, ApartRange, VelocityGuardAssumption DEF VelocityGuardAssumption
      <4>3. spin' = [spin EXCEPT !.rotation = spin.rotation + 0]
        BY <3>1, <4>2 DEF OnOdom, ObserveOdom
      <4>4. spin.rotation \in Nat
        BY VelocityGuardAssumption DEF Types, RotationTypes, Rotations, VelocityGuardAssumption
      <4>5. spin.rotation + 0 = spin.rotation
        BY <4>4
      <4> QED BY <4>3, <4>5 DEF Types, RotationTypes
    <3> QED BY <1>1, <1>2, <2>1, <3>1, FollowsOn
  <2> QED BY <1>1, <2>1, <2>2, <2>3 DEF SpinCounted
<1> QED BY <1>1, <1>2 DEF StillInv, Measured

LEMMA AlignStep ==
  ASSUME Types, LinkInv, ClockInv, AlignInv, [GuardNext]_guardVars
  PROVE  AlignInv'
<1> SUFFICES ASSUME alignSince' # None, ~(\E c \in Commands : OnCmd(c)) PROVE AlignInv'
  BY AlignCmd DEF AlignInv, Measured
<1>1. /\ \/ Deliver \/ Tick \/ Quiet
         \/ \E pose \in Poses : SendFeedback(pose)
         \/ \E yaw \in OdomYaws : OnOdom(yaw)
      /\ UNCHANGED <<executing, alignSince>>
      /\ 0..now \subseteq 0..now' /\ (Len(executing) = 2 => now' = now)
  BY SinceFacts
<1>2. ASSUME Len(executing) = 1 PROVE Follows(executing[1])' /\ (latched' \/ AlignCounted')
  <2>1. Follows(executing[1]) /\ (latched \/ AlignCounted)
    BY <1>1, <1>2 DEF AlignInv, Measured
  <2> QED BY <1>1, <1>2, <2>1, FollowsOn DEF AlignCounted
<1> QED BY <1>1, <1>2 DEF AlignInv, Measured

\* Whatever order messages arrive in, the clocks and the alignment are right.
LEMMA AlignInvCorrect == GuardSpec => [](ClockInv /\ AlignInv)
<1>1. GuardInit => ClockInv /\ AlignInv
  BY DEF GuardInit, RotationInit, NoSpin, NoTerminal, ClockInv, AlignInv, Measured
<1>2. Types /\ LinkInv /\ ClockInv /\ AlignInv /\ [GuardNext]_guardVars => (ClockInv /\ AlignInv)'
  BY ClockStep, AlignStep
<1> QED BY <1>1, <1>2, TypesCorrect, LinkCorrect, PTL DEF GuardSpec

\* The inductive invariant, for messages that arrive in order.
GuardInv == ZeroInv /\ OrderInv /\ HeardInv /\ ClockInv /\ StillInv

LEMMA GuardInvCorrect ==
  ASSUME Ordered
  PROVE  GuardSpec => []GuardInv
<1>1. ASSUME GuardInit PROVE GuardInv
  <2>1. ZeroInv /\ ClockInv /\ StillInv /\ OrderInv
    BY <1>1 DEF GuardInit, RotationInit, NoSpin, NoTerminal, ZeroInv, ClockInv, StillInv, Measured, OrderInv
  <2>2. Len(executing) = 0
    BY <1>1 DEF GuardInit
  <2> QED BY <2>1, <2>2 DEF GuardInv, HeardInv
<1>2. Types /\ LinkInv /\ GuardInv /\ [GuardNext]_guardVars => GuardInv'
  BY ZeroStep, OrderStep, HeardStep, ClockStep, StillStep DEF GuardInv
<1> QED BY <1>1, <1>2, TypesCorrect, LinkCorrect, PTL DEF GuardSpec

\* A clock that was started later has run for less.
LEMMA LaterIsShorter ==
  \A end, limit \in Nat : \A later \in 0..end : \A start \in 0..later :
    end - start <= limit => end - later <= limit
OBVIOUS

\* A command that is let through has not turned in place for too long.
LEMMA SpinBounded ==
  ASSUME Types, LinkInv, GuardInv, NEW c \in Commands, OnCmd(c), output' # Zero, stillSince' # None
  PROVE  now - stillSince' <= GlobalTimeout
<1> DEFINE v == BoundedVelocity(c)
<1>1. ~latched' /\ Evaluate(now, InPlace(v), robotPose, goalPose) /\ UNCHANGED <<goalUuid, now, executing>>
  BY CmdFacts DEF OnCmd, navVars
<1>2. InPlace(v) = TRUE
  BY CommandFacts DEF OnCmd, Types
<1> HIDE DEF v
<1>3. /\ now \in Nat /\ stillSince' \in 0..now /\ Len(executing) \in {1, 2} /\ GlobalTimeout \in Nat
      /\ Len(executing) = 2 => stillSince' = now
      /\ Len(executing) = 1 => goalUuid = executing[1] /\ SpinCounted'
  <2>1. StillInv'
    BY StillCmd DEF GuardInv
  <2>2. Len(executing) \in 0..2 /\ (Len(executing) = 0 <=> executing = <<>>)
    BY ExecutingFacts
  <2>3. now \in Nat /\ GlobalTimeout \in Nat
    BY RotationGuardAssumption, VelocityGuardAssumption
       DEF Types, NavTypes, RotationGuardAssumption, VelocityGuardAssumption
  <2> QED BY <1>1, <2>1, <2>2, <2>3 DEF StillInv, Measured, Follows
<1>4. CASE Len(executing) = 2
  BY <1>3, <1>4
<1>5. CASE Len(executing) = 1
  <2>1. goalUuid # NoGoal
    BY <1>3, <1>5, ExecutingFacts, RotationGuardAssumption DEF RotationGuardAssumption
  <2>2. ~latched
    BY <1>1, CmdFacts DEF rotationVars
  <2>3. now - spin'.progressAt <= GlobalTimeout
    BY <1>1, <1>2, <2>1, <2>2, SpinFacts DEF GuardInv
  <2>4. spin'.progressAt \in 0..stillSince'
    BY <1>3, <1>5 DEF SpinCounted
  <2>5. /\ now \in Nat /\ stillSince' \in 0..now /\ GlobalTimeout \in Nat
    BY <1>3
  <2> QED BY ONLY <2>3, <2>4, <2>5, LaterIsShorter
<1> QED BY <1>3, <1>4, <1>5

\* While a goal executes, commands that turn in place are let through for at
\* most GlobalTimeout without the yaw advancing (guard_global_spin_timeout_s).
THEOREM RouteSpin ==
  ASSUME Ordered
  PROVE  GuardSpec => RouteSpinBounded
<1>1. Types /\ LinkInv /\ GuardInv /\ [GuardNext]_guardVars =>
        [\A c \in Commands :
           OnCmd(c) /\ output' # Zero /\ stillSince' # None => now - stillSince' <= GlobalTimeout
        ]_guardVars
  BY SpinBounded
<1> QED BY <1>1, TypesCorrect, LinkCorrect, GuardInvCorrect, PTL DEF GuardSpec, RouteSpinBounded

LEMMA AlignBounded ==
  ASSUME Types, LinkInv, ClockInv, AlignInv, NEW c \in Commands, OnCmd(c), output' # Zero, alignSince' # None,
         InPlace(output'), AtPlanEnd(robotPose, goalPose)
  PROVE  now - alignSince' <= TerminalTimeout
<1> DEFINE v == BoundedVelocity(c)
<1>1. /\ ~latched' /\ output' = v
      /\ Evaluate(now, InPlace(v), robotPose, goalPose) /\ UNCHANGED <<goalUuid, now, executing>>
  BY CmdFacts DEF OnCmd, navVars
<1>2. InPlace(v) = TRUE
  BY <1>1, CommandFacts DEF Types
<1> HIDE DEF v
<1>3. /\ now \in Nat /\ alignSince' \in 0..now /\ Len(executing) \in {1, 2} /\ TerminalTimeout \in Nat
      /\ Len(executing) = 2 => alignSince' = now
      /\ Len(executing) = 1 => goalUuid = executing[1] /\ AlignCounted'
  <2>1. AlignInv'
    BY AlignCmd
  <2>2. Len(executing) \in 0..2 /\ (Len(executing) = 0 <=> executing = <<>>)
    BY ExecutingFacts
  <2>3. now \in Nat /\ TerminalTimeout \in Nat
    BY RotationGuardAssumption, VelocityGuardAssumption
       DEF Types, NavTypes, RotationGuardAssumption, VelocityGuardAssumption
  <2> QED BY <1>1, <2>1, <2>2, <2>3 DEF AlignInv, Measured, Follows
<1>4. CASE Len(executing) = 2
  BY <1>3, <1>4
<1>5. CASE Len(executing) = 1
  <2>1. goalUuid # NoGoal
    BY <1>3, <1>5, ExecutingFacts, RotationGuardAssumption DEF RotationGuardAssumption
  <2>2. now - terminal'.startedAt <= TerminalTimeout
    BY <1>1, <1>2, <2>1, TerminalFacts
  <2>3. terminal'.startedAt \in 0..alignSince'
    BY <1>3, <1>5 DEF AlignCounted
  <2>4. /\ now \in Nat /\ alignSince' \in 0..now /\ TerminalTimeout \in Nat
    BY <1>3
  <2> QED BY ONLY <2>2, <2>3, <2>4, LaterIsShorter
<1> QED BY <1>3, <1>4, <1>5

\* Near the end of the plan they are let through for at most TerminalTimeout
\* from the first the guard judges of the goal: neither pauses nor new plans nor
\* messages out of order open the window again.
THEOREM Alignment == GuardSpec => AlignmentBounded
<1>1. Types /\ LinkInv /\ ClockInv /\ AlignInv /\ [GuardNext]_guardVars =>
        [\A c \in Commands :
           /\ OnCmd(c) /\ output' # Zero /\ alignSince' # None
           /\ InPlace(output') /\ AtPlanEnd(robotPose, goalPose)
           => now - alignSince' <= TerminalTimeout
        ]_guardVars
  BY AlignBounded
<1> QED BY <1>1, TypesCorrect, LinkCorrect, AlignInvCorrect, PTL DEF GuardSpec, AlignmentBounded
=============================================================================
