------------------------------ MODULE PathBudget ------------------------------
(***************************************************************************)
(* GoalAwareNavfnPlanner::createPlan and measureUnknownExposure            *)
(* (terminal_controller/src/goal_aware_navfn_planner.cpp): which of two    *)
(* NavFn plans is followed, and how much of the second may be unexplored.  *)
(*                                                                         *)
(* The costmap is a row of cells, CellWidth units wide, a path a sequence  *)
(* of positions in units.  Lengths are in 1/Scale units, so that segments  *)
(* of up to MaxSegment units split into samples of equal whole lengths.    *)
(***************************************************************************)
EXTENDS Integers, Sequences, FiniteSets, FiniteSetsExt

CONSTANTS
  Cells, CellWidth,  \* number of cells of the global costmap, their width
  SampleStep,        \* half a cell (the floor of 0.01 m is not reached)
  Scale, MaxSegment,
  Positions,         \* where the poses of NavFn's paths lie
  MaxPoses,          \* bound: poses of a path
  MaxUnknownLength, MaxUnknownRun,  \* in 1/Scale units
  MaxRatioPercent

\* samples: ceil(segment_length / sample_step), at least one
Samples(length) == (length + SampleStep - 1) \div SampleStep

ASSUME PathBudgetAssumption ==
  /\ Cells \in Nat \ {0} /\ CellWidth \in Nat \ {0} /\ SampleStep \in Nat \ {0}
  /\ Scale \in Nat \ {0} /\ MaxSegment \in Nat
  /\ \A l \in 1..MaxSegment: Scale * l % Samples(l) = 0
  /\ Positions \subseteq Int /\ MaxPoses \in Nat
  /\ MaxUnknownLength \in Nat /\ MaxUnknownRun \in Nat /\ MaxRatioPercent \in Nat

VARIABLES
  unknown,  \* the cells NO_INFORMATION fills
  goal,     \* cell of the goal
  phase, path, answer,
  i, sample,                              \* the loops' counters
  pathLength, unknownLength, maxRun, run  \* exposure and current_unknown_run

exposure == <<pathLength, unknownLength, maxRun, run>>
planVars == <<unknown, goal, phase, path, answer, i, sample, exposure>>

InBounds(cell) == 0 <= cell /\ cell < Cells
IsUnknown(cell) == ~InBounds(cell) \/ cell \in unknown

Distance(a, b) == IF a < b THEN b - a ELSE a - b

PlanInit ==
  /\ unknown \in SUBSET (0..Cells - 1)
  /\ goal \in -1..Cells
  /\ phase = "start" /\ path = <<>> /\ answer = "none"
  /\ i = 2 /\ sample = 0
  /\ pathLength = 0 /\ unknownLength = 0 /\ maxRun = 0 /\ run = 0

Finish(a) == phase' = "done" /\ answer' = a

\* A goal outside the costmap gets no plan.
RejectGoal ==
  /\ phase = "start" /\ ~InBounds(goal)
  /\ Finish("none")
  /\ UNCHANGED <<unknown, goal, path, i, sample, exposure>>

\* A goal on an unknown cell: whatever the planner through unknown space says.
PlanToUnknown ==
  /\ phase = "start" /\ goal \in unknown
  /\ Finish("exploring")
  /\ UNCHANGED <<unknown, goal, path, i, sample, exposure>>

GoalIsKnown == InBounds(goal) /\ goal \notin unknown

\* The known-only planner finds a path; it has no unknown cell.
PlanKnown ==
  /\ phase = "start" /\ GoalIsKnown
  /\ Finish("known")
  /\ UNCHANGED <<unknown, goal, path, i, sample, exposure>>

\* It finds none or throws: the other planner is asked.
PlanFallback ==
  /\ phase = "start" /\ GoalIsKnown
  /\ phase' = "navfn"
  /\ UNCHANGED <<unknown, goal, path, answer, i, sample, exposure>>

\* External: NavFn lays out a path, pose by pose, or gives up.
NavfnPose(x) ==
  /\ phase = "navfn" /\ Len(path) < MaxPoses
  /\ path # <<>> => Distance(path[Len(path)], x) <= MaxSegment
  /\ path' = Append(path, x)
  /\ UNCHANGED <<unknown, goal, phase, answer, i, sample, exposure>>

FallbackPath ==
  /\ phase = "navfn"
  /\ IF path = <<>> THEN Finish("none") ELSE phase' = "measure" /\ UNCHANGED answer
  /\ UNCHANGED <<unknown, goal, path, i, sample, exposure>>

\* Poses at the same place contribute nothing.
NextPose == i + 1

SkipSegment ==
  /\ phase = "measure" /\ i <= Len(path)
  /\ path[i] = path[i - 1]
  /\ i' = NextPose
  /\ UNCHANGED <<unknown, goal, phase, path, answer, sample, exposure>>

\* Where sample s of the segment from a to b lies: its midpoint's cell.
SampleStartCell(a, b, s) ==  \* seeded fault: the sample's start decides
  LET n == Samples(Distance(a, b)) IN
  (n * a + s * (b - a)) \div (n * CellWidth)
SampleCell(a, b, s) ==
  LET n == Samples(Distance(a, b)) IN
  (2 * n * a + (2 * s + 1) * (b - a)) \div (2 * n * CellWidth)

SampleLength(a, b) == (Scale * Distance(a, b)) \div Samples(Distance(a, b))

RunPerSegment == IF sample = 0 THEN 0 ELSE run  \* seeded fault: runs end with their segment
RunSoFar == run

MeasureSample ==
  /\ phase = "measure" /\ i <= Len(path)
  /\ path[i] # path[i - 1]
  /\ LET a == path[i - 1]
         b == path[i]
         gap == IsUnknown(SampleCell(a, b, sample))
         last == sample + 1 = Samples(Distance(a, b))
     IN
     /\ pathLength' = pathLength + (IF sample = 0 THEN Scale * Distance(a, b) ELSE 0)
     /\ unknownLength' = unknownLength + (IF gap THEN SampleLength(a, b) ELSE 0)
     /\ run' = IF gap THEN RunSoFar + SampleLength(a, b) ELSE 0
     /\ maxRun' = Max({maxRun, run'})
     /\ sample' = IF last THEN 0 ELSE sample + 1
     /\ i' = IF last THEN NextPose ELSE i
  /\ UNCHANGED <<unknown, goal, phase, path, answer>>

WithinLengths == unknownLength <= MaxUnknownLength /\ maxRun <= MaxUnknownRun

\* withinUnknownBudget; the ratio of an empty length is 0.
WithinUnknownBudget ==
  WithinLengths /\ 100 * unknownLength <= MaxRatioPercent * pathLength

Decide ==
  /\ phase = "measure" /\ i > Len(path)
  /\ Finish(IF WithinUnknownBudget THEN "fallback" ELSE "none")
  /\ UNCHANGED <<unknown, goal, path, i, sample, exposure>>

PlanNext ==
  \/ RejectGoal \/ PlanToUnknown \/ PlanKnown \/ PlanFallback \/ FallbackPath
  \/ \E x \in Positions: NavfnPose(x)
  \/ SkipSegment \/ MeasureSample \/ Decide

PlanSpec == PlanInit /\ [][PlanNext]_planVars /\ WF_planVars(PlanNext)

(***************************************************************************)
(* Reference definitions: the path as the ground it covers, unit by unit.  *)
(***************************************************************************)
Segments == 2..Len(path)

\* The units of ground a segment covers, each named by its lower end.
Ground(k) == Min({path[k - 1], path[k]})..(Max({path[k - 1], path[k]}) - 1)

GroundLength == [k \in Segments |-> Cardinality(Ground(k))]
UnknownGround == [k \in Segments |-> Cardinality({x \in Ground(k): IsUnknown(x \div CellWidth)})]

TrueLength == SumFunction(GroundLength)
TrueUnknown == SumFunction(UnknownGround)

\* The cell borders a segment meets: there a sample may be counted as the
\* wrong kind, by half its length at most.
Borders(k) == {x \in Min({path[k - 1], path[k]})..Max({path[k - 1], path[k]}):
                 x % CellWidth = 0}
BorderCount == [k \in Segments |-> Cardinality(Borders(k))]

\* The samples in the order of the path, as <<pose, sample>>.
Sampled == {p \in Segments \X (0..MaxSegment):
              path[p[1]] # path[p[1] - 1] /\ p[2] < Samples(Distance(path[p[1] - 1], path[p[1]]))}

Before(p, q) == p[1] < q[1] \/ (p[1] = q[1] /\ p[2] <= q[2])

Weight == [p \in Sampled |-> SampleLength(path[p[1] - 1], path[p[1]])]
LengthOf(S) == SumFunctionOnSet(Weight, S)

Gap(p) == IsUnknown(SampleCell(path[p[1] - 1], path[p[1]], p[2]))

Stretch(p, q) == {r \in Sampled: Before(p, r) /\ Before(r, q)}

(***************************************************************************)
(* Properties                                                              *)
(***************************************************************************)
\* No fallback path is handed to the controller on which some uninterrupted
\* stretch of unknown samples is longer than max_unknown_run, however many
\* short segments it spreads over, or the unknown samples together are longer
\* than max_unknown_length or max_unknown_ratio of the path.
FallbackIsBounded ==
  answer = "fallback" =>
    /\ \A p, q \in Sampled:
         (\A r \in Stretch(p, q): Gap(r)) => LengthOf(Stretch(p, q)) <= MaxUnknownRun
    /\ LengthOf({p \in Sampled: Gap(p)}) <= MaxUnknownLength
    /\ 100 * LengthOf({p \in Sampled: Gap(p)}) <= MaxRatioPercent * Scale * TrueLength

\* The measurement follows the ground: it misses the true unknown length by no
\* more than half a sample step at each border of cells the path meets, so no
\* unknown cell a path crosses goes unseen between two samples.
MeasuresTheGround ==
  phase = "measure" /\ i > Len(path) =>
    /\ pathLength = Scale * TrueLength
    /\ 2 * Distance(unknownLength, Scale * TrueUnknown)
         <= Scale * SampleStep * SumFunction(BorderCount)
=============================================================================
