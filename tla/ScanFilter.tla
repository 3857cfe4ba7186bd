------------------------------ MODULE ScanFilter ------------------------------
(***************************************************************************)
(* filter_ranges (scan_filter_core.py) as the scan filter node applies it  *)
(* to each scan: returns without enough neighbours at a like range become  *)
(* infinite.  Ranges are counted in units; 0 stands for a return nearer    *)
(* than range_min, Inf for none (or one that is not a number).             *)
(***************************************************************************)
EXTENDS Integers, Sequences, FiniteSets

CONSTANTS Bins, MaxRange, WindowBins, MaxDelta, MinNeighbors

ASSUME ScanFilterAssumption ==
  Bins \in Nat /\ MaxRange \in Nat /\ WindowBins \in Nat /\ MaxDelta \in Nat /\ MinNeighbors \in Nat

VARIABLES scan, published

scanVars == <<scan, published>>

Inf == MaxRange + 1
Valid(range) == 1 <= range /\ range <= MaxRange

WithinOf(i, j, n) == i - n <= j /\ j <= i + n

\* Bin j supports bin i.
OrItself(s, i, j) ==  \* seeded fault: offset 0 is not skipped
  WithinOf(i, j, WindowBins) /\ Valid(s[j]) /\ WithinOf(s[i], s[j], MaxDelta)
NarrowWindow(s, i, j) ==  \* seeded fault: range(-window, window)
  i # j /\ j < i + WindowBins /\ WithinOf(i, j, WindowBins) /\ Valid(s[j]) /\ WithinOf(s[i], s[j], MaxDelta)
Supports(s, i, j) ==
  i # j /\ WithinOf(i, j, WindowBins) /\ Valid(s[j]) /\ WithinOf(s[i], s[j], MaxDelta)

Removed(s, i) ==
  Valid(s[i]) /\ Cardinality({j \in 1..Len(s): Supports(s, i, j)}) < MinNeighbors

FilterRanges(s) == [i \in 1..Len(s) |-> IF Removed(s, i) THEN Inf ELSE s[i]]

ScanInit == scan \in [1..Bins -> 0..Inf] /\ published = <<>>

OnScan == published = <<>> /\ published' = FilterRanges(scan) /\ UNCHANGED scan

ScanSpec == ScanInit /\ [][OnScan]_scanVars

(***************************************************************************)
(* Properties                                                              *)
(***************************************************************************)
Filtered == published # <<>>

\* A small obstacle is retained: MinNeighbors + 1 bins in a row at like ranges
\* keep them, whatever surrounds them and wherever in the scan they are.
ObstacleIsKept ==
  Filtered => \A i \in 1..Bins - MinNeighbors:
    LET object == i..i + MinNeighbors IN
    (\A j, k \in object: Valid(scan[j]) /\ WithinOf(scan[j], scan[k], MaxDelta))
      => \A j \in object: published[j] = scan[j]

\* Speckles go, also in groups: MinNeighbors returns or fewer that no other
\* return is near to are all removed, though they support each other.
SpecklesAreRemoved ==
  Filtered => \A group \in SUBSET {i \in 1..Bins: Valid(scan[i])}:
    (/\ Cardinality(group) <= MinNeighbors
     /\ \A i \in group, j \in (1..Bins) \ group:
          ~(Valid(scan[j]) /\ WithinOf(i, j, WindowBins) /\ WithinOf(scan[i], scan[j], MaxDelta)))
      => \A i \in group: published[i] = Inf
=============================================================================
