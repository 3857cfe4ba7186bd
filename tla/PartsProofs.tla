----------------------------- MODULE PartsProofs -----------------------------
(***************************************************************************)
(* What the small parts promise, for every value of their parameters: the  *)
(* velocity chain for every set of topic names a deployment may use, of     *)
(* which NamesApart excludes those that lead past the guard; the scan      *)
(* filter, the depth cloud and the summary for every sequence of      *)
(* messages.                                                               *)
(***************************************************************************)
EXTENDS VelocityChain, ScanFilter, DepthCloud, CmdVelSummary, FiniteSetTheorems, TLAPS

(***************************************************************************)
(* Velocity chain                                                          *)
(***************************************************************************)
\* The configuration of a running chain was validated; and, if its names are
\* apart, where a command is tells which nodes it has crossed.
ConfigInv ==
  /\ config \in {"absent"} \cup OutputTopics \cup Invalid
  /\ environ \in {"absent"} \cup OutputTopics \cup Invalid
  /\ controllerTopic \in {"absent"} \cup ControllerTopics \cup Invalid
  /\ state = "up" => Validated(VelocityOutput) /\ Validated(controllerTopic)
  /\ command # NoCommand => state = "up"

CommandInv ==
  /\ command = NoCommand \/ command.topic \in Inner \cup BaseTopics \cup {controllerTopic}
  /\ Arrived => "guard" \in command.crossed /\ command.topic = VelocityOutput
  /\ monitor /\ "controller" \in command.crossed
       /\ command.topic \in BaseTopics \cup {"/cmd_vel_guard_input"}
       => "monitor" \in command.crossed

ChainInv == ConfigInv /\ (NamesApart => CommandInv)

\* Before a command is sent there is none, and that is at no topic.
LEMMA NowhereYet ==
  ASSUME ConfigInv
  PROVE  /\ NoCommand.topic = "none" /\ NoCommand.crossed = {}
         /\ "none" \notin BaseTopics \cup Inner \cup {controllerTopic, VelocityOutput}
<1>1. VelocityOutput \in OutputTopics \cup Invalid
  <2>1. CASE config # "absent"
    BY <2>1 DEF ConfigInv, VelocityOutput
  <2>2. CASE config = "absent" /\ environ # "absent"
    BY <2>2 DEF ConfigInv, VelocityOutput
  <2>3. CASE config = "absent" /\ environ = "absent"
    BY <2>3, VelocityChainAssumption DEF VelocityChainAssumption, VelocityOutput
  <2> QED BY <2>1, <2>2, <2>3
<1>2. "none" \notin OutputTopics \cup ControllerTopics \cup Invalid
  BY VelocityChainAssumption DEF VelocityChainAssumption
<1> QED BY <1>1, <1>2 DEF ConfigInv, NoCommand, BaseTopics, Inner, DefaultOutput

\* Names that are apart: a topic inside the chain is none of the base's.
LEMMA Apart ==
  ASSUME NamesApart
  PROVE  Inner \cap BaseTopics = {} /\ controllerTopic \notin BaseTopics \cup Inner
BY DEF NamesApart, BaseTopics, Inner, DefaultOutput

LEMMA ChainInitHolds == ChainInit => ChainInv
<1> SUFFICES ASSUME ChainInit PROVE ChainInv
  OBVIOUS
<1>1. ConfigInv
  BY DEF ChainInit, ConfigInv
<1>2. command = NoCommand
  BY DEF ChainInit
<1>3. CommandInv
  BY <1>1, <1>2, NowhereYet DEF CommandInv, Arrived
<1> QED BY <1>1, <1>3 DEF ChainInv

LEMMA ConfigStep == ConfigInv /\ [ChainNext]_chainVars => ConfigInv'
<1> SUFFICES ASSUME ConfigInv, [ChainNext]_chainVars PROVE ConfigInv'
  OBVIOUS
<1>1. CASE Start
  BY <1>1 DEF Start, ConfigInv, Validated, VelocityOutput
<1>2. CASE /\ UNCHANGED <<config, environ, controllerTopic, state>>
           /\ command' # NoCommand => state = "up"
  BY <1>2 DEF ConfigInv, Validated, VelocityOutput
<1>3. ASSUME NEW n \in Nodes, Forward(n) PROVE command # NoCommand
  <2>1. \A m \in Nodes :
          m.in \in {"/cmd_vel_nav", "/cmd_vel_guard_input", "/cmd_vel_collision_input", controllerTopic}
    BY DEF Nodes, Node
  <2>2. command.topic \in Inner \cup {controllerTopic}
    BY <1>3, <2>1 DEF Forward, Inner
  <2> QED BY <2>2, NowhereYet
<1>4. CASE ControllerCommands \/ BehaviorCommands
  BY <1>2, <1>4 DEF ControllerCommands, BehaviorCommands, Source
<1>5. CASE ForwardStep
  BY <1>2, <1>3, <1>5 DEF ForwardStep, Forward, ConfigInv
<1>6. CASE Arrive
  BY <1>2, <1>6 DEF Arrive
<1>7. CASE UNCHANGED chainVars
  BY <1>2, <1>7 DEF chainVars, ConfigInv
<1> QED BY <1>1, <1>4, <1>5, <1>6, <1>7 DEF ChainNext

\* Names stay apart or not; the topics of the base stay.
LEMMA NamesStay ==
  ASSUME [ChainNext]_chainVars
  PROVE  /\ UNCHANGED <<config, environ, controllerTopic, monitor>>
         /\ VelocityOutput' = VelocityOutput /\ BaseTopics' = BaseTopics
         /\ NamesApart' = NamesApart
<1>1. UNCHANGED <<config, environ, controllerTopic, monitor>>
  BY DEF ChainNext, chainVars, Start, ControllerCommands, BehaviorCommands, Source, ForwardStep,
     Forward, Arrive
<1> QED BY <1>1 DEF VelocityOutput, BaseTopics, NamesApart

LEMMA CommandStep ==
  ASSUME ConfigInv, NamesApart, CommandInv, [ChainNext]_chainVars
  PROVE  CommandInv'
<1> USE Apart
<1>0. /\ controllerTopic' = controllerTopic /\ monitor' = monitor
      /\ VelocityOutput' = VelocityOutput /\ BaseTopics' = BaseTopics /\ Inner' = Inner
  BY NamesStay DEF Inner
<1> USE <1>0
<1>1. CASE Start
  BY <1>1 DEF Start, CommandInv, Arrived
<1>2. CASE ControllerCommands
  <2>1. /\ command' = [topic |-> ControllerOutput, crossed |-> {"controller"}]
        /\ ControllerOutput \in {"/cmd_vel_nav", controllerTopic}
    BY <1>2 DEF ControllerCommands, Source, ControllerOutput
  <2>2. /\ command'.topic \in Inner \cup {controllerTopic} /\ command'.topic \notin BaseTopics
        /\ command'.topic # "/cmd_vel_guard_input"
    BY <2>1 DEF Inner
  <2> QED BY <2>2 DEF CommandInv, Arrived
<1>3. CASE BehaviorCommands
  <2>1. /\ command' = [topic |-> BehaviorOutput, crossed |-> {"behavior"}]
        /\ BehaviorOutput \in {"/cmd_vel_guard_input", controllerTopic}
    BY <1>3 DEF BehaviorCommands, Source, BehaviorOutput
  <2>2. /\ command'.topic \in Inner \cup {controllerTopic} /\ command'.topic \notin BaseTopics
        /\ "controller" \notin command'.crossed
    BY <2>1 DEF Inner
  <2> QED BY <2>2 DEF CommandInv, Arrived
<1>4. ASSUME NEW n \in Nodes, Forward(n) PROVE CommandInv'
  <2>1. command.topic = n.in /\ command'.topic = n.out
        /\ command'.crossed = command.crossed \cup {n.name}
    BY <1>4 DEF Forward
  <2>2. CASE n = Node("smoother", "/cmd_vel_nav", SmootherOutput)
    <3>1. n.out \in Inner /\ n.out \notin BaseTopics
          /\ (monitor => n.out \notin BaseTopics \cup {"/cmd_vel_guard_input"})
      BY <2>2 DEF Node, SmootherOutput, Inner
    <3> QED BY <2>1, <3>1 DEF CommandInv, Arrived
  <2>3. CASE n = Node("guard", "/cmd_vel_guard_input", VelocityOutput)
    <3>1. n.name = "guard" /\ n.in = "/cmd_vel_guard_input" /\ n.out = VelocityOutput
      BY <2>3 DEF Node
    <3>2. VelocityOutput \in BaseTopics
      BY DEF BaseTopics
    <3>3. monitor /\ "controller" \in command'.crossed => "monitor" \in command'.crossed
      BY <2>1, <3>1 DEF CommandInv
    <3> QED BY <2>1, <3>1, <3>2, <3>3 DEF CommandInv, Arrived
  <2>4. CASE n = Node("monitor", "/cmd_vel_collision_input", "/cmd_vel_guard_input")
    <3>1. n.name = "monitor" /\ n.out \in Inner
      BY <2>4 DEF Node, Inner
    <3> QED BY <2>1, <3>1 DEF CommandInv, Arrived
  <2>5. CASE n = Node("mux", controllerTopic, "/cmd_vel_nav")
    <3>1. n.out = "/cmd_vel_nav" /\ n.out \in Inner
      BY <2>5 DEF Node, Inner
    <3> QED BY <2>1, <3>1 DEF CommandInv, Arrived
  <2> QED BY <2>2, <2>3, <2>4, <2>5 DEF Nodes
<1>5. CASE Arrive
  <2>1. command' = NoCommand
    BY <1>5 DEF Arrive
  <2> QED BY <2>1, NowhereYet DEF CommandInv, Arrived
<1>6. CASE UNCHANGED chainVars
  BY <1>6 DEF chainVars, CommandInv, Arrived
<1> QED BY <1>1, <1>2, <1>3, <1>4, <1>5, <1>6 DEF ChainNext, ForwardStep

\* The inductive invariant of the chain.
THEOREM ChainInvCorrect == ChainSpec => []ChainInv
<1>1. ChainInv /\ [ChainNext]_chainVars => ChainInv'
  BY ConfigStep, CommandStep, NamesStay DEF ChainInv
<1> QED BY <1>1, ChainInitHolds, PTL DEF ChainSpec

\* In a deployment whose names are apart, no velocity reaches the base past the
\* guard, with or without a mux and a Collision Monitor.
THEOREM GuardedCorrect == ChainSpec => []EveryVelocityIsGuarded
<1>1. ChainInv => EveryVelocityIsGuarded
  BY DEF ChainInv, CommandInv, EveryVelocityIsGuarded, Arrived
<1> QED BY <1>1, ChainInvCorrect, PTL

\* ... and it comes out on the topic that configuration and environment name.
THEOREM SinkCorrect == ChainSpec => []SinkIsRespected
<1>1. ChainInv => SinkIsRespected
  <2> SUFFICES ASSUME ChainInv, NamesApart, Arrived PROVE SinkIsRespected
    BY DEF SinkIsRespected
  <2>1. command.topic = VelocityOutput
    BY DEF ChainInv, CommandInv
  <2>2. config # "absent" => VelocityOutput = config
    BY DEF VelocityOutput
  <2>3. config = "absent" /\ environ # "absent" => VelocityOutput = environ
    BY DEF VelocityOutput
  <2>4. {config, environ} = {"absent"} => VelocityOutput = DefaultOutput
    <3>1. {config, environ} = {"absent"} => config = "absent" /\ environ = "absent"
      OBVIOUS
    <3> QED BY <3>1 DEF VelocityOutput
  <2> QED BY <2>1, <2>2, <2>3, <2>4 DEF SinkIsRespected
<1> QED BY <1>1, ChainInvCorrect, PTL

\* What the controller planned crosses the Collision Monitor, when there is one.
THEOREM MonitoredCorrect == ChainSpec => []ControllerIsMonitored
<1>1. ChainInv => ControllerIsMonitored
  <2> SUFFICES ASSUME ChainInv, NamesApart, Arrived, monitor, "controller" \in command.crossed
               PROVE "monitor" \in command.crossed
    BY DEF ControllerIsMonitored
  <2>1. command.topic \in BaseTopics \cup {"/cmd_vel_guard_input"}
    BY DEF Arrived
  <2> QED BY <2>1 DEF ChainInv, CommandInv
<1> QED BY <1>1, ChainInvCorrect, PTL

(***************************************************************************)
(* Scan speckle filter                                                     *)
(***************************************************************************)
\* What was published is the filtered scan, and scans have Bins ranges.
ScanInv ==
  /\ scan \in [1..Bins -> 0..Inf]
  /\ Filtered => published = FilterRanges(scan)

LEMMA ScanLength == ASSUME scan \in [1..Bins -> 0..Inf] PROVE Len(scan) = Bins
BY ScanFilterAssumption DEF ScanFilterAssumption

LEMMA ScanInvCorrect == ScanSpec => []ScanInv
<1>1. ScanInit => ScanInv
  BY DEF ScanInit, ScanInv, Filtered
<1>2. ScanInv /\ [OnScan]_scanVars => ScanInv'
  BY DEF ScanInv, OnScan, scanVars, Filtered, FilterRanges, Removed, Supports
<1> QED BY <1>1, <1>2, PTL DEF ScanSpec

\* The bins that support bin i.
Support(i) == {j \in 1..Len(scan): Supports(scan, i, j)}

LEMMA Kept ==
  ASSUME ScanInv, Filtered, NEW i \in 1..Bins
  PROVE  published[i] = IF Valid(scan[i]) /\ Cardinality(Support(i)) < MinNeighbors THEN Inf ELSE scan[i]
BY ScanLength DEF ScanInv, FilterRanges, Removed, Support

\* An obstacle of MinNeighbors + 1 bins at like ranges is kept, if the window
\* is wide enough to see it whole.
THEOREM ObstacleCorrect ==
  ASSUME MinNeighbors <= WindowBins
  PROVE  ScanSpec => []ObstacleIsKept
<1>1. ScanInv => ObstacleIsKept
  <2> SUFFICES ASSUME ScanInv, Filtered, NEW i \in 1..Bins - MinNeighbors,
                      \A j, k \in i..i + MinNeighbors: Valid(scan[j]) /\ WithinOf(scan[j], scan[k], MaxDelta),
                      NEW j \in i..i + MinNeighbors
               PROVE  published[j] = scan[j]
    BY DEF ObstacleIsKept
  <2> USE ScanFilterAssumption DEF ScanFilterAssumption
  <2>1. j \in 1..Bins
    OBVIOUS
  <2> DEFINE others == (i..i + MinNeighbors) \ {j}
  <2>2. IsFiniteSet(others) /\ Cardinality(others) = MinNeighbors
    <3>1. IsFiniteSet(i..i + MinNeighbors) /\ Cardinality(i..i + MinNeighbors) = MinNeighbors + 1
      BY FS_Interval
    <3>2. others = (i..i + MinNeighbors) \ {j} /\ j \in i..i + MinNeighbors
      OBVIOUS
    <3>3. IsFiniteSet((i..i + MinNeighbors) \ {j})
          /\ Cardinality((i..i + MinNeighbors) \ {j}) = Cardinality(i..i + MinNeighbors) - 1
      <4> HIDE DEF others
      <4> QED BY ONLY <3>1, <3>2, FS_RemoveElement
    <3>4. MinNeighbors + 1 - 1 = MinNeighbors
      OBVIOUS
    <3> QED BY <3>1, <3>3, <3>4
  <2>3. others \subseteq Support(j)
    <3> SUFFICES ASSUME NEW k \in others PROVE k \in Support(j)
      OBVIOUS
    <3>1. j # k /\ WithinOf(j, k, WindowBins)
      BY DEF WithinOf
    <3>2. Valid(scan[k]) /\ WithinOf(scan[j], scan[k], MaxDelta)
      OBVIOUS
    <3>3. k \in 1..Len(scan)
      BY ScanLength DEF ScanInv
    <3> QED BY <3>1, <3>2, <3>3 DEF Support, Supports
  <2>4. IsFiniteSet(Support(j)) /\ Support(j) \subseteq 1..Bins
    <3>1. Support(j) \subseteq 1..Bins
      BY ScanLength DEF ScanInv, Support
    <3>2. IsFiniteSet(1..Bins)
      BY FS_Interval
    <3> QED BY <3>1, <3>2, FS_Subset
  <2>5. Cardinality(Support(j)) \in Nat /\ MinNeighbors <= Cardinality(Support(j))
    BY <2>2, <2>3, <2>4, FS_Subset, FS_CardinalityType
  <2> QED BY <2>1, <2>5, Kept
<1> QED BY <1>1, ScanInvCorrect, PTL

\* A group of at most MinNeighbors returns with no other return near it is
\* removed.
THEOREM SpecklesCorrect == ScanSpec => []SpecklesAreRemoved
<1>1. ScanInv => SpecklesAreRemoved
  <2> SUFFICES ASSUME ScanInv, Filtered, NEW group \in SUBSET {i \in 1..Bins: Valid(scan[i])},
                      Cardinality(group) <= MinNeighbors,
                      \A i \in group, j \in (1..Bins) \ group:
                        ~(Valid(scan[j]) /\ WithinOf(i, j, WindowBins) /\ WithinOf(scan[i], scan[j], MaxDelta)),
                      NEW i \in group
               PROVE  published[i] = Inf
    BY DEF SpecklesAreRemoved
  <2> USE ScanFilterAssumption DEF ScanFilterAssumption
  <2>1. i \in 1..Bins /\ Valid(scan[i])
    OBVIOUS
  <2>2. Support(i) \subseteq group \ {i}
    <3> SUFFICES ASSUME NEW j \in 1..Bins, Supports(scan, i, j) PROVE j \in group \ {i}
      BY ScanLength DEF Support, ScanInv
    <3> QED BY DEF Supports
  <2>3. IsFiniteSet(group)
    <3>1. IsFiniteSet(1..Bins)
      BY FS_Interval
    <3> QED BY <3>1, FS_Subset
  <2>4. IsFiniteSet(group \ {i}) /\ Cardinality(group \ {i}) = Cardinality(group) - 1
    BY <2>3, FS_RemoveElement
  <2>5. Cardinality(Support(i)) <= Cardinality(group \ {i})
    BY <2>2, <2>4, FS_Subset
  <2>6. Cardinality(group) \in Nat /\ Cardinality(Support(i)) \in Nat
    BY <2>2, <2>3, <2>4, FS_Subset, FS_CardinalityType
  <2>7. Cardinality(Support(i)) < MinNeighbors
    BY <2>4, <2>5, <2>6
  <2> QED BY <2>1, <2>7, Kept
<1> QED BY <1>1, ScanInvCorrect, PTL

(***************************************************************************)
(* Depth cloud                                                             *)
(***************************************************************************)
\* Cached rays are those of the intrinsics heard last.
GridInv ==
  /\ grid = NoGrid \/ (grid.info = info /\ grid = [size |-> grid.size, info |-> info])
  /\ RaysFitTheImage

\* Rays never belong to another image size or another camera model, over any
\* sequence of intrinsics and images.
THEOREM RaysCorrect == DepthSpec => []RaysFitTheImage
<1>1. DepthInit => GridInv
  BY DEF DepthInit, GridInv, RaysFitTheImage, NoGrid
<1>2. ASSUME GridInv, [DepthNext]_depthVars PROVE GridInv'
  <2>1. ASSUME NEW msg \in Intrinsics, OnInfo(msg) PROVE GridInv'
    BY <1>2, <2>1 DEF OnInfo, DropGrid, GridInv, RaysFitTheImage, NoGrid
  <2>2. ASSUME NEW size \in Sizes, NEW supported \in BOOLEAN, OnDepth(size, supported) PROVE GridInv'
    <3>1. size # NoInfo
      BY DepthCloudAssumption DEF DepthCloudAssumption
    <3>2. Rays(size) = [size |-> size, info |-> info]
      BY <1>2, <3>1 DEF GridInv, Rays, NoGrid
    <3>3. info' = info
      BY <2>2 DEF OnDepth
    <3>4. CASE supported
      BY <2>2, <3>2, <3>3, <3>4 DEF OnDepth, GridInv, RaysFitTheImage
    <3>5. CASE ~supported
      BY <1>2, <2>2, <3>3, <3>5 DEF OnDepth, GridInv, RaysFitTheImage
    <3> QED BY <3>4, <3>5
  <2>3. CASE ClockTick
    BY <1>2, <2>3 DEF ClockTick, GridInv, RaysFitTheImage
  <2>4. CASE UNCHANGED depthVars
    BY <1>2, <2>4 DEF depthVars, GridInv, RaysFitTheImage
  <2> QED BY <1>2, <2>1, <2>2, <2>3, <2>4 DEF DepthNext
<1>3. GridInv => RaysFitTheImage
  BY DEF GridInv
<1> QED BY <1>1, <1>2, <1>3, PTL DEF DepthSpec

(***************************************************************************)
(* cmd_vel summary                                                         *)
(***************************************************************************)
\* The window under way: as many still commands as commands, exactly if its
\* peak is still, and nothing sent that was faster.
WindowInv ==
  /\ count \in Nat /\ still \in Nat /\ peak \in Nat /\ sent \in Nat
  /\ seen \in Nat /\ reported \in Nat
  /\ still <= count
  /\ still = count <=> peak < StillLimit
  /\ sent <= peak
  /\ EveryCommandIsReported

\* Every command the guard was given is in one line, and each line tells a robot
\* that was asked to move from one that was not, over any pauses and latches;
\* nothing that was sent is faster than the peak of its line.
THEOREM SummaryCorrect == SummarySpec => []EveryCommandIsReported
<1> USE CmdVelSummaryAssumption DEF CmdVelSummaryAssumption
<1>1. SummaryInit => WindowInv
  BY DEF SummaryInit, WindowInv, EveryCommandIsReported, NoLine
<1>2. ASSUME WindowInv, [SummaryNext]_summaryVars PROVE WindowInv'
  <2>1. ASSUME NEW speed \in Speeds, NEW latched \in BOOLEAN, Observe(speed, latched)
       PROVE  WindowInv'
    <3> DEFINE w == With(speed, latched)
    <3>1. /\ w.n \in Nat /\ w.still \in Nat /\ w.peak \in Nat /\ w.sent \in Nat
          /\ w.n = count + 1 /\ w.sent <= w.peak /\ w.still <= w.n
          /\ (w.still = w.n <=> w.peak < StillLimit)
      BY <1>2 DEF With, FasterOf, SentFor, WindowInv
    <3>2. CASE PeriodElapsed
      <4>1. /\ count' = 0 /\ still' = 0 /\ peak' = 0 /\ sent' = 0
            /\ line' = w /\ reported' = reported + w.n /\ seen' = seen + 1
        BY <2>1, <3>2 DEF Observe, Reset
      <4> HIDE DEF w
      <4> QED BY <1>2, <3>1, <4>1 DEF WindowInv, EveryCommandIsReported
    <3>3. CASE ~PeriodElapsed
      <4>1. /\ count' = w.n /\ still' = w.still /\ peak' = w.peak /\ sent' = w.sent
            /\ line' = line /\ reported' = reported /\ seen' = seen + 1
        BY <2>1, <3>3 DEF Observe, Keep
      <4> HIDE DEF w
      <4> QED BY <1>2, <3>1, <4>1 DEF WindowInv, EveryCommandIsReported
    <3> QED BY <3>2, <3>3
  <2>2. CASE Tick
    BY <1>2, <2>2 DEF Tick, WindowInv, EveryCommandIsReported
  <2>3. CASE UNCHANGED summaryVars
    BY <1>2, <2>3 DEF summaryVars, WindowInv, EveryCommandIsReported
  <2> QED BY <1>2, <2>1, <2>2, <2>3 DEF SummaryNext
<1>3. WindowInv => EveryCommandIsReported
  BY DEF WindowInv
<1> QED BY <1>1, <1>2, <1>3, PTL DEF SummarySpec
=============================================================================
