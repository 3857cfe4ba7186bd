------------------------------ MODULE DepthCloud ------------------------------
(***************************************************************************)
(* The depth cloud node (depth_cloud.py): a latched CameraInfo, depth      *)
(* images of any size, the rays of the sampled pixels cached between them, *)
(* and the cap on the rate of clouds.                                      *)
(***************************************************************************)
EXTENDS Naturals

CONSTANTS
  Intrinsics, Sizes, NoInfo,
  CloudPeriod, MaxMonotonic  \* the rate's period; bound: the clock

ASSUME DepthCloudAssumption ==
  NoInfo \notin Intrinsics \cup Sizes /\ CloudPeriod \in Nat /\ MaxMonotonic \in Nat

VARIABLES
  info,   \* the intrinsics heard last
  grid,   \* the size and the intrinsics the cached rays were computed of
  last, monotonic,
  cloud   \* the cloud published last: of an image, with some rays, when

depthVars == <<info, grid, last, monotonic, cloud>>

NoGrid == [size |-> NoInfo, info |-> NoInfo]

DepthInit ==
  /\ info = NoInfo /\ grid = NoGrid /\ monotonic \in 0..CloudPeriod /\ last = 0
  /\ cloud = [size |-> NoInfo, info |-> NoInfo, rays |-> NoGrid, at |-> 0]

KeepGrid == UNCHANGED grid  \* seeded fault: rays of the old intrinsics stay
DropGrid == grid' = NoGrid

OnInfo(msg) ==
  /\ info' = msg
  /\ DropGrid
  /\ UNCHANGED <<last, monotonic, cloud>>

Rays(size) == IF grid.size # size THEN [size |-> size, info |-> info] ELSE grid

\* An unsupported encoding takes the slot and gives no cloud.
OnDepth(size, supported) ==
  /\ info # NoInfo /\ monotonic - last >= CloudPeriod
  /\ last' = monotonic
  /\ IF supported
       THEN /\ grid' = Rays(size)
            /\ cloud' = [size |-> size, info |-> info, rays |-> Rays(size), at |-> monotonic]
       ELSE UNCHANGED <<grid, cloud>>
  /\ UNCHANGED <<info, monotonic>>

ClockTick == monotonic < MaxMonotonic /\ monotonic' = monotonic + 1 /\ UNCHANGED <<info, grid, last, cloud>>

DepthNext ==
  \/ \E msg \in Intrinsics: OnInfo(msg)
  \/ \E size \in Sizes, supported \in BOOLEAN: OnDepth(size, supported)
  \/ ClockTick

DepthSpec == DepthInit /\ [][DepthNext]_depthVars

(***************************************************************************)
(* Properties                                                              *)
(***************************************************************************)
\* Each cloud is projected with the intrinsics heard last and for its own
\* image's size, over any sequence of intrinsics and sizes: cached rays are
\* never those of another camera model.
RaysFitTheImage ==
  cloud.size # NoInfo => cloud.rays = [size |-> cloud.size, info |-> cloud.info]
=============================================================================
