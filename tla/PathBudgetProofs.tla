--------------------------- MODULE PathBudgetProofs ---------------------------
(***************************************************************************)
(* Proofs about PathBudget: what the loop of measureUnknownExposure has    *)
(* added up is, for every path, costmap and sampling, the sum over the     *)
(* samples it stands for, and close to the ground they cover.              *)
(*                                                                         *)
(* The sums are those of Functions over finite sets, whose recursion is    *)
(* unfolded by induction on the strict subsets of a finite set: the        *)
(* well-founded order of FiniteSetTheorems, with a set in the place of     *)
(* the predicate.                                                          *)
(***************************************************************************)
EXTENDS PathBudget, FiniteSetTheorems, TLAPS

(***************************************************************************)
(* The inductive invariant                                                 *)
(***************************************************************************)
PlanTypeOK ==
  /\ unknown \subseteq 0..Cells - 1 /\ goal \in Int
  /\ phase \in {"start", "navfn", "measure", "done"}
  /\ answer \in {"none", "exploring", "known", "fallback"}
  /\ path \in Seq(Int)
  /\ i \in Nat /\ sample \in Nat
  /\ pathLength \in Nat /\ unknownLength \in Nat /\ maxRun \in Nat /\ run \in Nat

\* Only the measured path is answered as a fallback; nothing is measured before
\* NavFn's path is complete, whose segments are short.
StagesOK ==
  /\ answer = "fallback" => phase = "done"
  /\ phase = "start" => path = <<>>
  /\ phase \in {"start", "navfn"} => i = 2 /\ sample = 0 /\ exposure = <<0, 0, 0, 0>>
  /\ \A k \in Segments: Distance(path[k - 1], path[k]) <= MaxSegment

\* The loops' counters point at a sample of the path, or at the end of it.
CursorOK == phase = "measure" =>
  /\ i \in 2..Len(path) + 1
  /\ sample > 0 => i \in Segments /\ path[i] # path[i - 1]
                   /\ sample < Samples(Distance(path[i - 1], path[i]))

\* The samples the loops have left behind.
Passed == {p \in Sampled: p[1] < i \/ (p[1] = i /\ p[2] < sample)}

SumTo(w, k) == SumFunctionOnSet(w, 2..k)

\* The lengths are those of the segments entered and of the gaps passed.
LengthsMeasured == phase = "measure" =>
  /\ pathLength = Scale * SumTo(GroundLength, IF sample = 0 THEN i - 1 ELSE i)
  /\ unknownLength = LengthOf({p \in Passed: Gap(p)})

\* Samples passed from p on.
Trail(p) == {r \in Passed: Before(p, r)}

\* maxRun bounds every stretch of gaps passed, run those that have not ended.
RunsMeasured == phase = "measure" =>
  /\ \A p, q \in Passed:
       (\A r \in Stretch(p, q): Gap(r)) => LengthOf(Stretch(p, q)) <= maxRun
  /\ \A p \in Passed: (\A r \in Trail(p): Gap(r)) => LengthOf(Trail(p)) <= run

\* The cells counted as unknown.
Unexplored == {c \in Int: IsUnknown(c)}

\* Points on a row of cells of K units each: the units from u to v that lie in
\* cells of Z, and the borders between.
Units(Z, K, u, v) == {x \in u..(v - 1): x \div K \in Z}
BordersInside(K, u, v) == {x \in (u + 1)..(v - 1): x % K = 0}

\* A segment of n samples cut into n times finer units, L of them to a sample:
\* the first s samples reach from unit Low to unit High.
Low(a, b, s) == LET n == Samples(Distance(a, b)) IN
  IF a < b THEN n * a ELSE n * a - s * Distance(a, b)
High(a, b, s) == LET n == Samples(Distance(a, b)) IN
  IF a < b THEN n * a + s * Distance(a, b) ELSE n * a

\* g of the first s samples counted as unknown are close to the ground there.
SamplesNear(Z, a, b, s, g) ==
  LET L == Distance(a, b)
      K == Samples(L) * CellWidth
  IN 2 * Distance(L * g, Cardinality(Units(Z, K, Low(a, b, s), High(a, b, s))))
       <= L * Cardinality(BordersInside(K, Low(a, b, s), High(a, b, s)))

\* A length is close to the unknown ground of the segments up to k.
NearGround(length, k) ==
  2 * Distance(length, Scale * SumTo(UnknownGround, k)) <= Scale * SampleStep * SumTo(BorderCount, k)

\* The whole segments are close to the ground, and so is the one under way.
GroundMeasured == phase = "measure" =>
  /\ sample = 0 => NearGround(unknownLength, i - 1)
  /\ sample > 0 => \E g \in 0..sample:
       /\ unknownLength >= g * SampleLength(path[i - 1], path[i])
       /\ NearGround(unknownLength - g * SampleLength(path[i - 1], path[i]), i - 1)
       /\ SamplesNear(Unexplored, path[i - 1], path[i], sample, g)

PlanInv ==
  /\ PlanTypeOK /\ StagesOK /\ CursorOK
  /\ LengthsMeasured /\ RunsMeasured /\ GroundMeasured
  /\ FallbackIsBounded

(***************************************************************************)
(* Induction on finite sets and numbers, sums over finite sets             *)
(***************************************************************************)
\* A family F that takes in a set with all its strict subsets has every subset of
\* a finite set.
LEMMA FiniteInduction ==
  ASSUME NEW S, IsFiniteSet(S), NEW F,
         \A T \in SUBSET S: (\A U \in SUBSET T: U # T => U \in F) => T \in F
  PROVE \A T \in SUBSET S: T \in F
<1> DEFINE B == {T \in SUBSET S: T \notin F}
<1>1. SUFFICES ASSUME B # {} PROVE FALSE
  OBVIOUS
<1>2. IsWellFoundedOn(StrictSubsetOrdering(S), FiniteSubsetsOf(S))
  BY FS_StrictSubsetOrderingWellFounded
<1>3. B \subseteq FiniteSubsetsOf(S)
  BY FS_FiniteSubsetsOfFinite
<1> HIDE DEF B
<1>4. PICK T \in B: \A U \in B: ~(<<U, T>> \in StrictSubsetOrdering(S))
  BY <1>1, <1>2, <1>3, WFMin
<1>5. \A U \in SUBSET T: U # T => U \in F
  BY <1>4 DEF StrictSubsetOrdering, B
<1> QED BY <1>4, <1>5 DEF B

\* A set that has 0 and with a number the next one has all numbers.
LEMMA CountingUp ==
  ASSUME NEW F, 0 \in F, \A n \in Nat: n \in F => n + 1 \in F
  PROVE \A n \in Nat: n \in F
<1> TAKE N \in Nat
<1> DEFINE R == 0..N
           G == {T \in SUBSET R: \A m \in R: T = 0..m => m \in F}
<1>1. IsFiniteSet(R)
  BY FS_Interval
<1>2. ASSUME NEW T \in SUBSET R, \A U \in SUBSET T: U # T => U \in G
      PROVE T \in G
  <2>1. SUFFICES ASSUME NEW m \in R, T = 0..m PROVE m \in F
    OBVIOUS
  <2>2. CASE m = 0
    BY <2>2
  <2>3. CASE m # 0
    <3>1. 0..(m - 1) \in SUBSET T /\ 0..(m - 1) # T /\ m - 1 \in R
      BY <2>1, <2>3
    <3>2. 0..(m - 1) \in G
      BY <1>2, <3>1
    <3>3. m - 1 \in F
      BY <3>1, <3>2
    <3> QED BY <3>3, <2>3
  <2> QED BY <2>2, <2>3
<1>3. R \in SUBSET R /\ N \in R
  OBVIOUS
<1> HIDE DEF R, G
<1>4. \A T \in SUBSET R: (\A U \in SUBSET T: U # T => U \in G) => T \in G
  BY <1>2
<1>5. \A T \in SUBSET R: T \in G
  BY <1>1, <1>4, FiniteInduction
<1>6. R \in G
  BY <1>3, <1>5
<1> QED BY <1>3, <1>6 DEF R, G

\* The equation of the recursive function that sums w over the subsets of S.
Sums(g, w, S) ==
  g = [s \in SUBSET S |-> IF s = {} THEN 0
         ELSE LET x == CHOOSE x \in s : TRUE IN w[x] + g[s \ {x}]]

\* SumFunctionOnSet chooses some function with that equation.
LEMMA SumIsChosen ==
  ASSUME NEW w, NEW S
  PROVE SumFunctionOnSet(w, S) = (CHOOSE g: Sums(g, w, S))[S]
BY DEF SumFunctionOnSet, FoldFunctionOnSet, MapThenFoldSet, Sums

\* Two such functions agree where both are defined.
LEMMA SumsAgree ==
  ASSUME NEW w, NEW S, IsFiniteSet(S), NEW T \in SUBSET S,
         NEW g, Sums(g, w, S), NEW h, Sums(h, w, T)
  PROVE g[T] = h[T]
<1> DEFINE F == {U \in SUBSET T: g[U] = h[U]}
<1>1. IsFiniteSet(T)
  BY FS_Subset
<1>2. ASSUME NEW U \in SUBSET T, \A V \in SUBSET U: V # U => V \in F
      PROVE U \in F
  <2>1. CASE U = {}
    BY <2>1 DEF Sums
  <2>2. CASE U # {}
    <3> DEFINE x == CHOOSE x \in U: TRUE
    <3>1. x \in U
      BY <2>2
    <3>2. g[U \ {x}] = h[U \ {x}]
      BY <1>2, <3>1
    <3>3. g[U] = w[x] + g[U \ {x}] /\ h[U] = w[x] + h[U \ {x}]
      BY <2>2 DEF Sums
    <3> QED BY <3>2, <3>3
  <2> QED BY <2>1, <2>2
<1> HIDE DEF F
<1>3. T \in F
  BY <1>1, <1>2, FiniteInduction
<1> QED BY <1>3 DEF F

\* At a subset, such a function has the sum over that subset.
LEMMA SumOfSubset ==
  ASSUME NEW w, NEW S, IsFiniteSet(S), NEW T \in SUBSET S,
         NEW g, Sums(g, w, S), \E h: Sums(h, w, T)
  PROVE g[T] = SumFunctionOnSet(w, T)
<1> DEFINE h == CHOOSE h: Sums(h, w, T)
<1>1. Sums(h, w, T)
  OBVIOUS
<1>2. g[T] = h[T]
  BY <1>1, SumsAgree
<1> QED BY <1>2, SumIsChosen

\* Such a function exists: over T, extend the sums over its strict subsets.
LEMMA SumsExists ==
  ASSUME NEW w, NEW S, IsFiniteSet(S)
  PROVE \A T \in SUBSET S: \E g: Sums(g, w, T)
<1> DEFINE F == {T \in SUBSET S: \E g: Sums(g, w, T)}
<1>1. ASSUME NEW T \in SUBSET S, \A U \in SUBSET T: U # T => U \in F
      PROVE T \in F
  <2> DEFINE x(s) == CHOOSE x \in s: TRUE
             value(s) == IF s = {} THEN 0 ELSE w[x(s)] + SumFunctionOnSet(w, s \ {x(s)})
             g == [s \in SUBSET T |-> IF s = T THEN value(T) ELSE SumFunctionOnSet(w, s)]
  <2>1. IsFiniteSet(T)
    BY FS_Subset
  <2>2. ASSUME NEW s \in SUBSET T, s # {} PROVE x(s) \in s /\ s \ {x(s)} # T /\ s \ {x(s)} # s
    BY <2>2
  <2>3. ASSUME NEW s \in SUBSET T, s # T
        PROVE SumFunctionOnSet(w, s) = value(s)
    <3> DEFINE h == CHOOSE h: Sums(h, w, s)
    <3>1. Sums(h, w, s) /\ IsFiniteSet(s)
      BY <1>1, <2>1, <2>3, FS_Subset
    <3>2. SumFunctionOnSet(w, s) = h[s]
      BY SumIsChosen
    <3> HIDE DEF h
    <3>3. CASE s = {}
      BY <3>1, <3>2, <3>3 DEF Sums
    <3>4. CASE s # {}
      <4>1. h[s] = w[x(s)] + h[s \ {x(s)}]
        BY <3>1, <3>4 DEF Sums
      <4>2. s \ {x(s)} \in SUBSET s /\ s \ {x(s)} \in SUBSET T /\ s \ {x(s)} # T
        BY <2>2, <3>4
      <4>3. \E k: Sums(k, w, s \ {x(s)})
        BY <1>1, <4>2
      <4>4. h[s \ {x(s)}] = SumFunctionOnSet(w, s \ {x(s)})
        BY <3>1, <4>2, <4>3, SumOfSubset
      <4> QED BY <3>2, <3>4, <4>1, <4>4
    <3> QED BY <3>3, <3>4
  <2>4. ASSUME NEW s \in SUBSET T
        PROVE g[s] = IF s = {} THEN 0 ELSE w[x(s)] + g[s \ {x(s)}]
    <3>1. g[s] = value(s)
      <4>1. g[s] = IF s = T THEN value(T) ELSE SumFunctionOnSet(w, s)
        OBVIOUS
      <4> HIDE DEF g, value
      <4> QED BY <2>3, <4>1
    <3>2. s # {} => g[s \ {x(s)}] = SumFunctionOnSet(w, s \ {x(s)})
      BY <2>2
    <3> QED BY <3>1, <3>2
  <2>5. Sums(g, w, T)
    <3>1. g = [s \in SUBSET T |-> IF s = {} THEN 0 ELSE w[x(s)] + g[s \ {x(s)}]]
      BY <2>4
    <3> QED BY <3>1 DEF Sums
  <2> QED BY <2>5
<1> HIDE DEF F
<1>2. \A T \in SUBSET S: T \in F
  BY <1>1, FiniteInduction
<1> QED BY <1>2 DEF F

\* What the sum over a set is made of: the element chosen first and the rest.
LEMMA SumUnfolded ==
  ASSUME NEW w, NEW S, IsFiniteSet(S)
  PROVE LET x == CHOOSE x \in S: TRUE IN
        SumFunctionOnSet(w, S) = IF S = {} THEN 0 ELSE w[x] + SumFunctionOnSet(w, S \ {x})
<1> DEFINE x == CHOOSE x \in S: TRUE
           g == CHOOSE g: Sums(g, w, S)
<1>1. Sums(g, w, S)
  BY SumsExists
<1>2. SumFunctionOnSet(w, S) = g[S]
  BY SumIsChosen
<1>3. g[S \ {x}] = SumFunctionOnSet(w, S \ {x})
  BY <1>1, SumsExists, SumOfSubset
<1> HIDE DEF g
<1>4. g[S] = IF S = {} THEN 0 ELSE w[x] + g[S \ {x}]
  BY <1>1 DEF Sums
<1> QED BY <1>2, <1>3, <1>4

\* Any element may be taken out of a sum, whichever was chosen first.
LEMMA SumRemove ==
  ASSUME NEW S, IsFiniteSet(S), NEW w, \A x \in S: w[x] \in Int
  PROVE /\ SumFunctionOnSet(w, S) \in Int
        /\ \A x \in S: SumFunctionOnSet(w, S) = w[x] + SumFunctionOnSet(w, S \ {x})
<1> DEFINE Parts(T) == /\ SumFunctionOnSet(w, T) \in Int
                       /\ \A x \in T: SumFunctionOnSet(w, T) = w[x] + SumFunctionOnSet(w, T \ {x})
           F == {T \in SUBSET S: Parts(T)}
<1>1. ASSUME NEW T \in SUBSET S, \A U \in SUBSET T: U # T => U \in F
      PROVE T \in F
  <2> DEFINE c == CHOOSE c \in T: TRUE
  <2>1. SumFunctionOnSet(w, T) = IF T = {} THEN 0 ELSE w[c] + SumFunctionOnSet(w, T \ {c})
    BY FS_Subset, SumUnfolded
  <2>2. SUFFICES Parts(T)
    OBVIOUS
  <2>3. \A U \in SUBSET T: U # T => Parts(U)
    BY <1>1
  <2>4. CASE T = {}
    BY <2>1, <2>4
  <2>5. CASE T # {}
    <3>1. c \in T /\ w[c] \in Int
      BY <2>5
    <3> HIDE DEF c, F
    <3>2. SumFunctionOnSet(w, T) \in Int
      BY <2>1, <2>3, <2>5, <3>1
    <3>3. ASSUME NEW x \in T, x # c
          PROVE SumFunctionOnSet(w, T) = w[x] + SumFunctionOnSet(w, T \ {x})
      <4> DEFINE both == T \ {x, c}
      <4>1. (T \ {c}) \ {x} = both /\ (T \ {x}) \ {c} = both
        OBVIOUS
      <4>2. both \in SUBSET T /\ both # T /\ T \ {x} # T /\ T \ {c} # T /\ x \in T \ {c} /\ c \in T \ {x}
        BY <3>1, <3>3
      <4> HIDE DEF both
      <4>3. SumFunctionOnSet(w, T \ {c}) = w[x] + SumFunctionOnSet(w, both)
        BY <2>3, <4>1, <4>2
      <4>4. SumFunctionOnSet(w, T \ {x}) = w[c] + SumFunctionOnSet(w, both)
        BY <2>3, <4>1, <4>2
      <4>5. w[x] \in Int /\ w[c] \in Int /\ SumFunctionOnSet(w, both) \in Int
        BY <2>3, <3>1, <4>2
      <4> QED BY <2>1, <2>5, <4>3, <4>4, <4>5
    <3> QED BY <2>1, <2>5, <3>2, <3>3
  <2> QED BY <2>4, <2>5
<1> HIDE DEF F
<1>2. S \in F
  BY <1>1, FiniteInduction
<1> QED BY <1>2 DEF F

\* The sum over no element, and over one more.
LEMMA SumEmpty == \A w: SumFunctionOnSet(w, {}) = 0
BY FS_EmptySet, SumUnfolded

LEMMA SumAdd ==
  ASSUME NEW S, IsFiniteSet(S), NEW e, e \notin S,
         NEW w, \A x \in S \cup {e}: w[x] \in Int
  PROVE /\ SumFunctionOnSet(w, S) \in Int
        /\ SumFunctionOnSet(w, S \cup {e}) = SumFunctionOnSet(w, S) + w[e]
<1>1. IsFiniteSet(S \cup {e}) /\ (S \cup {e}) \ {e} = S
  BY FS_AddElement
<1>2. SumFunctionOnSet(w, S \cup {e}) = w[e] + SumFunctionOnSet(w, S)
  BY <1>1, SumRemove
<1> QED BY <1>2, SumRemove


(***************************************************************************)
(* Cells, units and borders                                                *)
(***************************************************************************)
\* Division by a positive number, multiples and remainders.
LEMMA Quotient ==
  ASSUME NEW K \in Nat \ {0}, NEW z \in Int
  PROVE z \div K \in Int /\ (z \div K) * K <= z /\ z < (z \div K) * K + K
OBVIOUS

LEMMA ProductGap ==
  ASSUME NEW K \in Nat \ {0}, NEW c \in Int, NEW d \in Int, c < d
  PROVE c * K + K <= d * K
OBVIOUS

LEMMA CellOf ==
  ASSUME NEW K \in Nat \ {0}, NEW z \in Int, NEW c \in Int,
         c * K <= z, z < c * K + K
  PROVE z \div K = c
<1> DEFINE d == z \div K
<1>1. d \in Int /\ d * K <= z /\ z < d * K + K
  BY Quotient
<1> HIDE DEF d
<1>2. ~(c < d) /\ ~(d < c)
  BY <1>1, ProductGap
<1> QED BY <1>1, <1>2 DEF d

LEMMA Multiple ==
  ASSUME NEW K \in Nat \ {0}, NEW c \in Int
  PROVE (c * K) % K = 0
OBVIOUS

LEMMA IsMultiple ==
  ASSUME NEW K \in Nat \ {0}, NEW z \in Int, z % K = 0
  PROVE z = (z \div K) * K
OBVIOUS


\* Units and borders can be counted, and counted piece by piece.
LEMMA UnitsFinite ==
  ASSUME NEW Z, NEW K \in Nat \ {0}, NEW u \in Int, NEW v \in Int
  PROVE /\ IsFiniteSet(Units(Z, K, u, v)) /\ Cardinality(Units(Z, K, u, v)) \in Nat
        /\ IsFiniteSet(BordersInside(K, u, v)) /\ Cardinality(BordersInside(K, u, v)) \in Nat
<1>1. IsFiniteSet(u..(v - 1)) /\ IsFiniteSet((u + 1)..(v - 1))
  BY FS_Interval
<1>2. Units(Z, K, u, v) \in SUBSET (u..(v - 1)) /\ BordersInside(K, u, v) \in SUBSET ((u + 1)..(v - 1))
  BY DEF Units, BordersInside
<1> QED BY <1>1, <1>2, FS_Subset, FS_CardinalityType

LEMMA UnitsSplit ==
  ASSUME NEW Z, NEW K \in Nat \ {0}, NEW u \in Int, NEW v \in Int, NEW w \in Int, u <= v, v <= w
  PROVE Cardinality(Units(Z, K, u, w)) = Cardinality(Units(Z, K, u, v)) + Cardinality(Units(Z, K, v, w))
<1> DEFINE A == Units(Z, K, u, v)
           B == Units(Z, K, v, w)
<1>1. Units(Z, K, u, w) = A \cup B /\ A \cap B = {}
  BY DEF Units
<1>2. IsFiniteSet(A) /\ IsFiniteSet(B) /\ Cardinality(A) \in Nat /\ Cardinality(B) \in Nat
  BY UnitsFinite
<1> HIDE DEF A, B
<1>3. Cardinality(A \cup B) = Cardinality(A) + Cardinality(B) - Cardinality({})
  BY <1>1, <1>2, FS_Union
<1> QED BY <1>1, <1>2, <1>3, FS_EmptySet DEF A, B

LEMMA BordersSplit ==
  ASSUME NEW K \in Nat \ {0}, NEW u \in Int, NEW v \in Int, NEW w \in Int, u <= v, v <= w
  PROVE Cardinality(BordersInside(K, u, v)) + Cardinality(BordersInside(K, v, w))
          <= Cardinality(BordersInside(K, u, w))
<1> DEFINE A == BordersInside(K, u, v)
           B == BordersInside(K, v, w)
           C == BordersInside(K, u, w)
<1>1. A \cup B \in SUBSET C /\ A \cap B = {}
  BY DEF BordersInside
<1>2. /\ IsFiniteSet(A) /\ IsFiniteSet(B) /\ IsFiniteSet(C)
      /\ Cardinality(A) \in Nat /\ Cardinality(B) \in Nat /\ Cardinality(C) \in Nat
  BY UnitsFinite
<1> HIDE DEF A, B, C
<1>3. Cardinality(A \cup B) = Cardinality(A) + Cardinality(B) - Cardinality({})
  BY <1>1, <1>2, FS_Union
<1>4. Cardinality(A \cup B) <= Cardinality(C)
  BY <1>1, <1>2, FS_Subset
<1> QED BY <1>1, <1>2, <1>3, <1>4, FS_EmptySet DEF A, B, C

LEMMA IntervalSize ==
  ASSUME NEW u \in Int, NEW v \in Int, u <= v
  PROVE IsFiniteSet(u..(v - 1)) /\ Cardinality(u..(v - 1)) = v - u
<1> DEFINE w == v - 1
<1>1. w \in Int /\ u <= w + 1
  OBVIOUS
<1> HIDE DEF w
<1>2. IsFiniteSet(u..w) /\ Cardinality(u..w) = w - u + 1
  BY <1>1, FS_Interval
<1> QED BY <1>2 DEF w

\* The units of one cell count all or none.
LEMMA UnitsOfCell ==
  ASSUME NEW Z, NEW K \in Nat \ {0}, NEW c \in Int, NEW u \in Int, NEW v \in Int,
         c * K <= u, u <= v, v <= c * K + K
  PROVE Cardinality(Units(Z, K, u, v)) = IF c \in Z THEN v - u ELSE 0
<1>1. \A y \in u..(v - 1): y \div K = c
  <2> TAKE y \in u..(v - 1)
  <2>1. c * K \in Int
    OBVIOUS
  <2>2. c * K <= y /\ y < c * K + K
    BY <2>1
  <2> QED BY <2>2, CellOf
<1>2. Units(Z, K, u, v) = IF c \in Z THEN u..(v - 1) ELSE {}
  BY <1>1 DEF Units
<1>3. Cardinality(u..(v - 1)) = v - u
  BY IntervalSize
<1> QED BY <1>2, <1>3, FS_EmptySet

\* What a sample is counted as and what it covers differ by half its length at
\* most for each border inside it.
LEMMA SampleError ==
  ASSUME NEW Z, NEW K \in Nat \ {0}, NEW L \in Nat \ {0}, NEW u \in Int
  PROVE 2 * Distance(IF (2 * u + L) \div (2 * K) \in Z THEN L ELSE 0, Cardinality(Units(Z, K, u, u + L)))
          <= L * Cardinality(BordersInside(K, u, u + L))
<1> DEFINE B == BordersInside(K, u, u + L)
           N == Cardinality(Units(Z, K, u, u + L))
           b == Cardinality(B)
           c == u \div K
           g == IF (2 * u + L) \div (2 * K) \in Z THEN L ELSE 0
<1>1. c \in Int /\ c * K \in Int /\ c * K <= u /\ u < c * K + K
  BY Quotient
<1>2. IsFiniteSet(B) /\ b \in Nat /\ N \in Nat /\ g \in Nat /\ g <= L
  BY UnitsFinite
<1>3. N <= L
  <2>1. IsFiniteSet(u..(u + L - 1)) /\ Cardinality(u..(u + L - 1)) = L
    BY FS_Interval
  <2>2. Units(Z, K, u, u + L) \in SUBSET (u..(u + L - 1))
    BY DEF Units
  <2> QED BY <2>1, <2>2, FS_Subset
<1>4. \A d \in Int: (d * K) \in Int /\ (u < d * K /\ d * K < u + L => d * K \in B)
  BY Multiple DEF BordersInside
<1>5. (c + 1) * K = c * K + K /\ (c + 2) * K = c * K + K + K
  BY <1>1
<1> HIDE DEF c
<1>6. CASE u + L <= c * K + K
  <2>1. N = IF c \in Z THEN L ELSE 0
    BY <1>1, <1>6, UnitsOfCell
  <2>2. c * (2 * K) = 2 * (c * K)
    BY <1>1
  <2>3. (2 * u + L) \div (2 * K) = c
    BY <1>1, <1>6, <2>2, CellOf
  <2>4. N = g
    BY <2>1, <2>3
  <2>5. 0 <= L * b
    BY <1>2
  <2> QED BY <1>2, <2>4, <2>5 DEF Distance
<1>7. CASE c * K + K < u + L
  <2> DEFINE z == c * K + K
  <2>1. z \in B /\ z \in Int /\ u < z /\ z < u + L
    <3>1. c + 1 \in Int /\ u < (c + 1) * K /\ (c + 1) * K < u + L
      BY <1>1, <1>5, <1>7
    <3>2. (c + 1) * K \in B
      BY <1>4, <3>1
    <3> QED BY <1>1, <1>5, <3>1, <3>2
  <2>2. CASE u + L <= z + K
    <3>1. N = (IF c \in Z THEN z - u ELSE 0) + (IF c + 1 \in Z THEN u + L - z ELSE 0)
      <4>1. Cardinality(Units(Z, K, u, z)) = IF c \in Z THEN z - u ELSE 0
        BY <1>1, <2>1, UnitsOfCell
      <4>2. Cardinality(Units(Z, K, z, u + L)) = IF c + 1 \in Z THEN u + L - z ELSE 0
        BY <1>1, <1>5, <2>1, <2>2, UnitsOfCell
      <4> QED BY <2>1, <4>1, <4>2, UnitsSplit
    <3>2. g = IF (IF 2 * u + L < 2 * z THEN c \in Z ELSE c + 1 \in Z) THEN L ELSE 0
      <4>1. c * (2 * K) = 2 * (c * K) /\ (c + 1) * (2 * K) = 2 * z
        BY <1>1
      <4>2. 2 * u + L < 2 * z => (2 * u + L) \div (2 * K) = c
        BY <1>1, <4>1, CellOf
      <4>3. 2 * z <= 2 * u + L => (2 * u + L) \div (2 * K) = c + 1
        <5>1. 2 * K \in Nat \ {0} /\ 2 * u + L \in Int /\ c + 1 \in Int
          BY <1>1
        <5>2. 2 * u + L < (c + 1) * (2 * K) + 2 * K
          BY <1>1, <2>1, <2>2, <4>1
        <5> QED BY <4>1, <5>1, <5>2, CellOf
      <4> QED BY <2>1, <4>2, <4>3
    <3>3. 2 * Distance(g, N) <= L
      BY <2>1, <3>1, <3>2 DEF Distance
    <3>4. 1 <= b
      BY <1>2, <2>1, FS_EmptySet
    <3>5. L <= L * b
      BY <1>2, <3>4
    <3> QED BY <1>2, <3>3, <3>5 DEF Distance
  <2>3. CASE z + K < u + L
    <3>1. z + K \in B /\ z + K # z
      <4>1. c + 2 \in Int /\ u < (c + 2) * K /\ (c + 2) * K < u + L
        BY <1>1, <1>5, <2>1, <2>3
      <4>2. (c + 2) * K \in B
        BY <1>4, <4>1
      <4> QED BY <1>5, <2>1, <4>2
    <3>2. 2 <= b
      <4>1. IsFiniteSet({z}) /\ Cardinality({z}) = 1
        BY FS_Singleton
      <4>2. Cardinality({z} \cup {z + K}) = 2
        BY <3>1, <4>1, FS_AddElement
      <4>3. {z} \cup {z + K} \in SUBSET B
        BY <2>1, <3>1
      <4> QED BY <1>2, <4>2, <4>3, FS_Subset
    <3>3. 2 * L <= L * b
      BY <1>2, <3>2
    <3> QED BY <1>2, <1>3, <3>3 DEF Distance
  <2> QED BY <1>1, <2>1, <2>2, <2>3
<1> QED BY <1>1, <1>6, <1>7

\* Units n times finer, in cells of as many more units: n to each coarse one.
LEMMA RefinedUnits ==
  ASSUME NEW Z, NEW W \in Nat \ {0}, NEW n \in Nat \ {0}, NEW lo \in Int, NEW hi \in Int, lo <= hi
  PROVE Cardinality(Units(Z, n * W, n * lo, n * hi)) = n * Cardinality(Units(Z, W, lo, hi))
<1> DEFINE Fine(x) == Cardinality(Units(Z, n * W, n * lo, n * x))
           Coarse(x) == Cardinality(Units(Z, W, lo, x))
           F == {m \in Nat: Fine(lo + m) = n * Coarse(lo + m)}
<1>1. n * W \in Nat \ {0} /\ n * lo \in Int
  OBVIOUS
<1>2. 0 \in F
  <2>1. Units(Z, n * W, n * lo, n * lo) = {} /\ Units(Z, W, lo, lo) = {}
    BY <1>1 DEF Units
  <2>2. lo + 0 = lo
    OBVIOUS
  <2> QED BY <2>1, <2>2, FS_EmptySet
<1>3. ASSUME NEW m \in Nat, m \in F PROVE m + 1 \in F
  <2> DEFINE x == lo + m
             c == x \div W
  <2>1. x \in Int /\ lo <= x /\ lo + (m + 1) = x + 1
    OBVIOUS
  <2> HIDE DEF x
  <2>2. c \in Int /\ c * W \in Int /\ c * W <= x /\ x + 1 <= c * W + W
    BY <2>1, Quotient
  <2> HIDE DEF c
  <2>3. /\ n * x \in Int /\ n * (x + 1) = n * x + n /\ c * (n * W) = n * (c * W) /\ n * (c * W) \in Int
        /\ n * (c * W + W) = n * (c * W) + n * W
    BY <2>1, <2>2
  <2>4. n * lo <= n * x /\ n * (c * W) <= n * x /\ n * (x + 1) <= n * (c * W + W)
    BY <2>1, <2>2
  <2>5. Cardinality(Units(Z, n * W, n * x, n * (x + 1))) = IF c \in Z THEN n ELSE 0
    BY <1>1, <2>2, <2>3, <2>4, UnitsOfCell
  <2>6. Cardinality(Units(Z, W, x, x + 1)) = IF c \in Z THEN 1 ELSE 0
    BY <2>1, <2>2, UnitsOfCell
  <2>7. Fine(x + 1) = Fine(x) + Cardinality(Units(Z, n * W, n * x, n * (x + 1)))
    BY <1>1, <2>3, <2>4, UnitsSplit
  <2>8. Coarse(x + 1) = Coarse(x) + Cardinality(Units(Z, W, x, x + 1))
    BY <2>1, UnitsSplit
  <2>9. Fine(x) \in Nat /\ Coarse(x) \in Nat
    BY <1>1, <2>1, <2>3, UnitsFinite
  <2>10. Fine(x) = n * Coarse(x)
    BY <1>3 DEF x
  <2> HIDE DEF Fine, Coarse
  <2>11. Fine(x + 1) = n * Coarse(x + 1)
    BY <2>5, <2>6, <2>7, <2>8, <2>9, <2>10
  <2> QED BY <2>1, <2>11
<1> HIDE DEF F
<1>4. \A m \in Nat: m \in F
  BY <1>2, <1>3, CountingUp
<1>5. hi - lo \in F /\ lo + (hi - lo) = hi
  BY <1>4
<1> QED BY <1>5 DEF F

\* The borders inside a stretch of finer units are borders the ground meets.
LEMMA RefinedBorders ==
  ASSUME NEW W \in Nat \ {0}, NEW n \in Nat \ {0}, NEW lo \in Int, NEW hi \in Int
  PROVE /\ Cardinality({x \in lo..hi: x % W = 0}) \in Nat
        /\ Cardinality(BordersInside(n * W, n * lo, n * hi)) <= Cardinality({x \in lo..hi: x % W = 0})
<1> DEFINE Fine == BordersInside(n * W, n * lo, n * hi)
           Coarse == {x \in lo..hi: x % W = 0}
           f == [y \in Fine |-> y \div n]
<1>1. IsFiniteSet(Coarse) /\ Cardinality(Coarse) \in Nat
  <2>1. IsFiniteSet(lo..hi)
    BY FS_Interval
  <2>2. Coarse \in SUBSET (lo..hi)
    OBVIOUS
  <2> QED BY <2>1, <2>2, FS_Subset, FS_CardinalityType
<1>2. ASSUME NEW y \in Fine PROVE y \div n \in Coarse /\ y = (y \div n) * n
  <2> DEFINE c == y \div (n * W)
             x == c * W
  <2>1. n * W \in Nat \ {0} /\ y \in Int /\ y % (n * W) = 0 /\ n * lo < y /\ y < n * hi
    BY DEF BordersInside
  <2>2. c \in Int /\ y = c * (n * W)
    BY <2>1, Quotient, IsMultiple
  <2> HIDE DEF c
  <2>3. x \in Int /\ y = x * n
    BY <2>2
  <2>4. x % W = 0
    BY <2>2, Multiple
  <2> HIDE DEF x
  <2>5. y \div n = x
    BY <2>3, CellOf
  <2>6. lo <= x /\ x <= hi
    <3>1. ~(x < lo)
      BY <2>1, <2>3, ProductGap
    <3>2. ~(hi < x)
      BY <2>1, <2>3, ProductGap
    <3> QED BY <2>3, <3>1, <3>2
  <2> QED BY <2>3, <2>4, <2>5, <2>6
<1>3. f \in Injection(Fine, Coarse)
  <2>1. f \in [Fine -> Coarse]
    BY <1>2
  <2>2. \A y, z \in Fine: f[y] = f[z] => y = z
    BY <1>2
  <2> QED BY <2>1, <2>2 DEF Injection, IsInjective
<1> HIDE DEF Fine, Coarse, f
<1>4. Cardinality(Fine) <= Cardinality(Coarse)
  BY <1>1, <1>3, FS_Injection
<1> QED BY <1>1, <1>4 DEF Fine, Coarse

(***************************************************************************)
(* Samples of a segment                                                    *)
(***************************************************************************)
\* A segment between different poses has samples, no longer than SampleStep
\* each, of equal whole lengths.
LEMMA SegmentSampled ==
  ASSUME NEW a \in Int, NEW b \in Int, a # b, Distance(a, b) <= MaxSegment
  PROVE LET L == Distance(a, b)
            n == Samples(L)
        IN /\ L \in Nat \ {0} /\ n \in Nat \ {0} /\ n <= L /\ L <= n * SampleStep
           /\ SampleLength(a, b) \in Nat /\ n * SampleLength(a, b) = Scale * L
<1> DEFINE L == Distance(a, b)
           n == Samples(L)
<1>1. L \in 1..MaxSegment
  BY PathBudgetAssumption DEF Distance
<1> HIDE DEF L
<1>2. n \in Int /\ n * SampleStep <= L + SampleStep - 1 /\ L + SampleStep - 1 < n * SampleStep + SampleStep
  BY <1>1, PathBudgetAssumption, Quotient DEF Samples
<1>3. (Scale * L) % n = 0
  BY <1>1, PathBudgetAssumption
<1> HIDE DEF n
<1>4. L <= n * SampleStep
  BY <1>1, <1>2, PathBudgetAssumption
<1>5. n > 0
  <2>1. SUFFICES ASSUME n <= 0 PROVE FALSE
    BY <1>2
  <2>2. n * SampleStep <= 0
    BY <1>2, <2>1, PathBudgetAssumption
  <2> QED BY <1>1, <1>2, <1>4, <2>1, <2>2, PathBudgetAssumption
<1>6. n <= L
  <2>1. SUFFICES ASSUME L + 1 <= n PROVE FALSE
    BY <1>1, <1>2
  <2>2. (L + 1) * SampleStep <= n * SampleStep
    BY <1>1, <1>2, <2>1, PathBudgetAssumption
  <2>3. (L + 1) * SampleStep = L * SampleStep + SampleStep /\ L <= L * SampleStep /\ L * SampleStep \in Int
    BY <1>1, PathBudgetAssumption
  <2> QED BY <1>1, <1>2, <2>2, <2>3, PathBudgetAssumption
<1>7. Scale * L \in Nat
  BY <1>1, PathBudgetAssumption
<1>8. /\ (Scale * L) \div n \in Nat
      /\ Scale * L = ((Scale * L) \div n) * n
  <2> DEFINE P == Scale * L
  <2>1. n \in Nat \ {0} /\ P \in Nat /\ P % n = 0
    BY <1>2, <1>3, <1>5, <1>7
  <2> HIDE DEF P
  <2>2. P = (P \div n) * n /\ P \div n \in Int
    BY <2>1, IsMultiple, Quotient
  <2>3. P \div n >= 0
    BY <2>1
  <2> QED BY <2>2, <2>3 DEF P
<1>9. SampleLength(a, b) = (Scale * L) \div n
  BY DEF SampleLength, L, n
<1>10. n * SampleLength(a, b) = Scale * L
  BY <1>2, <1>8, <1>9
<1> QED BY <1>1, <1>2, <1>4, <1>5, <1>6, <1>8, <1>9, <1>10 DEF L, n

\* No sample counts as nothing.
LEMMA SamplesNearStart ==
  ASSUME NEW Z, NEW a \in Int, NEW b \in Int, Samples(Distance(a, b)) \in Nat \ {0}
  PROVE SamplesNear(Z, a, b, 0, 0)
<1> DEFINE L == Distance(a, b)
           n == Samples(L)
           K == n * CellWidth
<1>1. L \in Nat
  BY DEF Distance
<1> HIDE DEF L
<1>2. n \in Nat \ {0} /\ n * a \in Int
  BY DEF L
<1> HIDE DEF n
<1>3. K \in Nat \ {0}
  BY <1>2, PathBudgetAssumption
<1> HIDE DEF K
<1>4. Low(a, b, 0) = n * a /\ High(a, b, 0) = n * a
  BY <1>1, <1>2 DEF Low, High, L, n
<1>5. Units(Z, K, n * a, n * a) = {}
  BY <1>2 DEF Units
<1>6. Cardinality(BordersInside(K, n * a, n * a)) \in Nat
  BY <1>2, <1>3, UnitsFinite
<1>7. 0 <= L * Cardinality(BordersInside(K, n * a, n * a))
  BY <1>1, <1>6
<1>8. Distance(L * 0, 0) = 0
  BY <1>1 DEF Distance
<1>9. SamplesNear(Z, a, b, 0, 0) <=>
        2 * Distance(L * 0, Cardinality(Units(Z, K, Low(a, b, 0), High(a, b, 0))))
          <= L * Cardinality(BordersInside(K, Low(a, b, 0), High(a, b, 0)))
  BY DEF SamplesNear, L, n, K
<1> QED BY <1>4, <1>5, <1>7, <1>8, <1>9, FS_EmptySet

\* One more sample keeps the count close to the ground.
LEMMA SamplesNearNext ==
  ASSUME NEW Z, NEW a \in Int, NEW b \in Int, a # b, Samples(Distance(a, b)) \in Nat \ {0},
         NEW s \in Nat, NEW g \in Nat, SamplesNear(Z, a, b, s, g)
  PROVE SamplesNear(Z, a, b, s + 1, IF SampleCell(a, b, s) \in Z THEN g + 1 ELSE g)
<1> DEFINE L == Distance(a, b)
           n == Samples(L)
           K == n * CellWidth
           lo == Low(a, b, s)
           hi == High(a, b, s)
           u == IF a < b THEN hi ELSE lo - L
           N(v, w) == Cardinality(Units(Z, K, v, w))
           B(v, w) == Cardinality(BordersInside(K, v, w))
           c == SampleCell(a, b, s)
<1>1. L \in Nat \ {0} /\ b - a = IF a < b THEN L ELSE -L
  BY DEF Distance
<1>2. n \in Nat \ {0}
  OBVIOUS
<1>3. /\ lo = IF a < b THEN n * a ELSE n * a - s * L
      /\ hi = IF a < b THEN n * a + s * L ELSE n * a
      /\ Low(a, b, s + 1) = IF a < b THEN n * a ELSE n * a - (s + 1) * L
      /\ High(a, b, s + 1) = IF a < b THEN n * a + (s + 1) * L ELSE n * a
  BY DEF Low, High
<1>4. c = (2 * n * a + (2 * s + 1) * (b - a)) \div (2 * n * CellWidth)
  BY DEF SampleCell
<1>5. 2 * Distance(L * g, N(lo, hi)) <= L * B(lo, hi)
  BY DEF SamplesNear
<1> HIDE DEF L
<1>6. n * a \in Int /\ s * L \in Nat /\ (s + 1) * L = s * L + L
  BY <1>1, <1>2
<1>7. K \in Nat \ {0} /\ 2 * n * CellWidth = 2 * K
  BY <1>2, PathBudgetAssumption
<1> HIDE DEF n, lo, hi, K, c
<1>8. lo \in Int /\ hi \in Int /\ u \in Int /\ lo <= hi
  BY <1>1, <1>3, <1>6
<1>9. 2 * n * a + (2 * s + 1) * (b - a) = 2 * u + L
  <2>1. (2 * s + 1) * (b - a) = IF a < b THEN 2 * (s * L) + L ELSE -(2 * (s * L) + L)
    BY <1>1
  <2>2. 2 * n * a = 2 * (n * a)
    BY <1>2
  <2> QED BY <1>1, <1>3, <1>6, <2>1, <2>2
<1>10. 2 * Distance(IF c \in Z THEN L ELSE 0, N(u, u + L)) <= L * B(u, u + L)
  BY <1>1, <1>4, <1>7, <1>8, <1>9, SampleError
<1>11. /\ Low(a, b, s + 1) = IF a < b THEN lo ELSE u
       /\ High(a, b, s + 1) = IF a < b THEN u + L ELSE hi
       /\ a < b => u = hi
       /\ ~(a < b) => u + L = lo
  BY <1>1, <1>3, <1>6, <1>8
<1> HIDE DEF u
<1> DEFINE lo2 == Low(a, b, s + 1)
           hi2 == High(a, b, s + 1)
<1> HIDE DEF lo2, hi2
<1>12. /\ N(lo2, hi2) = N(lo, hi) + N(u, u + L)
       /\ B(lo, hi) + B(u, u + L) <= B(lo2, hi2)
       /\ lo2 \in Int /\ hi2 \in Int
  <2>1. CASE a < b
    <3>1. lo2 = lo /\ hi2 = u + L /\ u = hi /\ hi <= u + L /\ u + L \in Int
      BY <1>1, <1>8, <1>11, <2>1 DEF lo2, hi2
    <3>2. N(lo, u + L) = N(lo, hi) + N(hi, u + L) /\ B(lo, hi) + B(hi, u + L) <= B(lo, u + L)
      BY <1>7, <1>8, <3>1, UnitsSplit, BordersSplit
    <3> QED BY <1>8, <3>1, <3>2
  <2>2. CASE ~(a < b)
    <3>1. lo2 = u /\ hi2 = hi /\ u + L = lo /\ u <= lo /\ u + L \in Int
      <4>1. lo2 = u /\ hi2 = hi /\ u + L = lo
        BY <1>11, <2>2 DEF lo2, hi2
      <4> QED BY <1>1, <1>8, <4>1
    <3>2. N(u, hi) = N(u, lo) + N(lo, hi)
      BY <1>7, <1>8, <3>1, UnitsSplit
    <3>3. B(u, lo) + B(lo, hi) <= B(u, hi)
      BY <1>7, <1>8, <3>1, BordersSplit
    <3>4. N(u, lo) \in Nat /\ N(lo, hi) \in Nat /\ B(u, lo) \in Nat /\ B(lo, hi) \in Nat
      BY <1>7, <1>8, UnitsFinite
    <3> QED BY <1>8, <3>1, <3>2, <3>3, <3>4
  <2> QED BY <2>1, <2>2
<1>13. /\ N(lo, hi) \in Nat /\ N(u, u + L) \in Nat /\ B(lo, hi) \in Nat /\ B(u, u + L) \in Nat
       /\ B(lo2, hi2) \in Nat
  <2>1. u + L \in Int
    BY <1>1, <1>8
  <2> QED BY <1>7, <1>8, <1>12, <2>1, UnitsFinite
<1> DEFINE h == IF c \in Z THEN g + 1 ELSE g
<1>14. L * h = L * g + (IF c \in Z THEN L ELSE 0) /\ L * g \in Nat
  BY <1>1
<1>15. L * B(lo, hi) + L * B(u, u + L) <= L * B(lo2, hi2)
  <2>1. L * (B(lo, hi) + B(u, u + L)) <= L * B(lo2, hi2)
    BY <1>1, <1>12, <1>13
  <2> QED BY <1>1, <1>13, <2>1
<1> HIDE DEF N, B, h, lo2, hi2
<1>16. 2 * Distance(L * h, N(lo2, hi2)) <= L * B(lo2, hi2)
  <2>1. /\ L * h \in Nat /\ L * B(lo, hi) \in Int /\ L * B(u, u + L) \in Int /\ L * B(lo2, hi2) \in Int
    BY <1>1, <1>13, <1>14
  <2> QED BY <1>1, <1>5, <1>10, <1>12, <1>13, <1>14, <1>15, <2>1 DEF Distance
<1> QED BY <1>16 DEF SamplesNear, L, n, K, N, B, h, lo2, hi2, c

\* An absolute difference is bounded as its multiples are.
LEMMA DistanceRescaled ==
  ASSUME NEW n \in Nat \ {0}, NEW m \in Nat, NEW x \in Int, NEW y \in Int, NEW v \in Int, NEW w \in Int,
         n * x = m * v, n * y = m * w, NEW bound \in Int, 2 * m * Distance(v, w) <= n * bound
  PROVE 2 * Distance(x, y) <= bound
<1> DEFINE d == Distance(x, y)
           e == Distance(v, w)
<1>1. d \in Nat /\ e \in Nat
  BY DEF Distance
<1>2. n * d = m * e
  <2>1. n * (x - y) = m * (v - w) /\ n * (y - x) = m * (w - v)
    BY Z3
  <2>2. v < w => x <= y
    <3>1. SUFFICES ASSUME v < w, y < x PROVE FALSE
      OBVIOUS
    <3>2. n * (x - y) >= n
      BY <3>1
    <3>3. m * (w - v) >= 0
      BY <3>1
    <3> QED BY <2>1, <3>2, <3>3
  <2>3. w < v => y <= x
    <3>1. SUFFICES ASSUME w < v, x < y PROVE FALSE
      OBVIOUS
    <3>2. n * (y - x) >= n
      BY <3>1
    <3>3. m * (v - w) >= 0
      BY <3>1
    <3> QED BY <2>1, <3>2, <3>3
  <2>4. CASE v < w
    <3>1. d = y - x /\ e = w - v
      BY <2>2, <2>4 DEF Distance
    <3> QED BY <2>1, <3>1
  <2>5. CASE w < v
    <3>1. d = x - y /\ e = v - w
      BY <2>3, <2>5 DEF Distance
    <3> QED BY <2>1, <3>1
  <2>6. CASE v = w
    <3>1. e = 0 /\ n * (x - y) = 0
      BY <2>1, <2>6 DEF Distance
    <3>2. x = y
      <4>1. x - y > 0 => n * (x - y) >= n
        OBVIOUS
      <4>2. x - y < 0 => n * (x - y) <= -n
        OBVIOUS
      <4> QED BY <3>1, <4>1, <4>2
    <3>3. d = 0
      BY <3>2 DEF Distance
    <3> QED BY <3>1, <3>3
  <2> QED BY <2>4, <2>5, <2>6
<1> HIDE DEF d, e
<1>3. SUFFICES ASSUME bound + 1 <= 2 * d PROVE FALSE
  BY <1>1 DEF d
<1>4. n * (bound + 1) <= n * (2 * d) /\ n * (bound + 1) = n * bound + n /\ n * bound \in Int
  BY <1>1, <1>3
<1>5. n * (2 * d) = 2 * m * e
  BY <1>1, <1>2
<1>6. 2 * m * e <= n * bound
  BY DEF e
<1>7. 2 * m * e \in Int
  BY <1>1
<1> QED BY <1>4, <1>5, <1>6, <1>7

\* The samples of a whole segment are close to its ground.
LEMMA SegmentNear ==
  ASSUME NEW Z, NEW a \in Int, NEW b \in Int, a # b, Distance(a, b) <= MaxSegment,
         NEW g \in Nat, SamplesNear(Z, a, b, Samples(Distance(a, b)), g)
  PROVE LET lo == IF a < b THEN a ELSE b
            hi == IF a < b THEN b ELSE a
        IN 2 * Distance(g * SampleLength(a, b), Scale * Cardinality(Units(Z, CellWidth, lo, hi)))
             <= Scale * SampleStep * Cardinality({x \in lo..hi: x % CellWidth = 0})
<1> DEFINE L == Distance(a, b)
           n == Samples(L)
           K == n * CellWidth
           q == SampleLength(a, b)
           lo == IF a < b THEN a ELSE b
           hi == IF a < b THEN b ELSE a
           N == Cardinality(Units(Z, CellWidth, lo, hi))
           B == Cardinality({x \in lo..hi: x % CellWidth = 0})
           BF == Cardinality(BordersInside(K, n * lo, n * hi))
<1>1. /\ L \in Nat \ {0} /\ n \in Nat \ {0} /\ L <= n * SampleStep
      /\ q \in Nat /\ n * q = Scale * L
  BY SegmentSampled
<1>2. L = hi - lo /\ lo < hi /\ lo \in Int /\ hi \in Int
  BY DEF Distance
<1>3. Low(a, b, n) = n * lo /\ High(a, b, n) = n * hi
  <2>1. /\ Low(a, b, n) = IF a < b THEN n * a ELSE n * a - n * L
        /\ High(a, b, n) = IF a < b THEN n * a + n * L ELSE n * a
    BY DEF Low, High
  <2>2. n * L = n * hi - n * lo
    BY <1>1, <1>2
  <2>3. n * a \in Int /\ n * b \in Int
    BY <1>1
  <2> HIDE DEF n, L
  <2> QED BY <2>1, <2>2, <2>3
<1>4. 2 * Distance(L * g, Cardinality(Units(Z, K, n * lo, n * hi))) <= L * BF
  <2>1. 2 * Distance(L * g, Cardinality(Units(Z, K, Low(a, b, n), High(a, b, n))))
          <= L * Cardinality(BordersInside(K, Low(a, b, n), High(a, b, n)))
    BY DEF SamplesNear
  <2> HIDE DEF n, L, lo, hi, K
  <2> QED BY <1>3, <2>1
<1> HIDE DEF L, n, q, lo, hi
<1>5. Cardinality(Units(Z, K, n * lo, n * hi)) = n * N /\ BF <= B /\ B \in Nat
  <2>1. CellWidth \in Nat \ {0} /\ lo <= hi
    BY <1>2, PathBudgetAssumption
  <2>2. Cardinality(Units(Z, K, n * lo, n * hi)) = n * N
    BY <1>1, <1>2, <2>1, RefinedUnits
  <2>3. BF <= B /\ B \in Nat
    BY <1>1, <1>2, <2>1, RefinedBorders
  <2> QED BY <2>2, <2>3
<1>6. N \in Nat /\ BF \in Nat
  <2>1. K \in Nat \ {0} /\ n * lo \in Int /\ n * hi \in Int
    BY <1>1, <1>2, PathBudgetAssumption
  <2> QED BY <1>2, <2>1, PathBudgetAssumption, UnitsFinite
<1> HIDE DEF N, B, BF, K
<1>7. n * (g * q) = Scale * (L * g) /\ n * (Scale * N) = Scale * (n * N)
  <2>1. n * (g * q) = g * (n * q) /\ g * (Scale * L) = Scale * (L * g)
    BY <1>1, PathBudgetAssumption
  <2> QED BY <1>1, <1>6, <2>1, PathBudgetAssumption
<1>8. 2 * Scale * Distance(L * g, n * N) <= n * (Scale * SampleStep * B)
  <2> DEFINE D == Distance(L * g, n * N)
  <2>1. D \in Nat /\ 2 * D <= L * BF
    BY <1>1, <1>4, <1>5, <1>6 DEF Distance
  <2> HIDE DEF D
  <2>2. L * BF <= L * B /\ L * B <= (n * SampleStep) * B
    BY <1>1, <1>5, <1>6, PathBudgetAssumption
  <2>3. 2 * D <= (n * SampleStep) * B
    <3>1. L * BF \in Int /\ L * B \in Int /\ (n * SampleStep) * B \in Int
      BY <1>1, <1>5, <1>6, PathBudgetAssumption
    <3> QED BY <2>1, <2>2, <3>1
  <2>4. Scale * (2 * D) <= Scale * ((n * SampleStep) * B)
    BY <1>1, <1>5, <2>1, <2>3, PathBudgetAssumption
  <2>5. Scale * ((n * SampleStep) * B) = n * (Scale * SampleStep * B) /\ Scale * (2 * D) = 2 * Scale * D
    BY <1>1, <1>5, <2>1, PathBudgetAssumption
  <2> QED BY <2>4, <2>5 DEF D
<1>9. /\ g * q \in Int /\ Scale * N \in Int /\ L * g \in Int /\ n * N \in Int
      /\ Scale * SampleStep * B \in Int
  BY <1>1, <1>5, <1>6, PathBudgetAssumption
<1>10. 2 * Distance(g * q, Scale * N) <= Scale * SampleStep * B
  BY <1>1, <1>7, <1>8, <1>9, PathBudgetAssumption, DistanceRescaled
<1> QED BY <1>10 DEF q, N, B, lo, hi

(***************************************************************************)
(* Sums over the path                                                      *)
(***************************************************************************)
\* The bounds of a segment, by the comparison of its poses.
LEMMA MinMax ==
  ASSUME NEW a \in Int, NEW b \in Int
  PROVE /\ Min({a, b}) = IF a < b THEN a ELSE b
        /\ Max({a, b}) = IF a < b THEN b ELSE a
<1> DEFINE lo == IF a < b THEN a ELSE b
           hi == IF a < b THEN b ELSE a
<1>1. lo \in {a, b} /\ \A y \in {a, b}: lo <= y
  OBVIOUS
<1>2. hi \in {a, b} /\ \A y \in {a, b}: hi >= y
  OBVIOUS
<1>3. \A x \in {a, b}: (\A y \in {a, b}: x <= y) => x = lo
  OBVIOUS
<1>4. \A x \in {a, b}: (\A y \in {a, b}: x >= y) => x = hi
  OBVIOUS
<1> HIDE DEF lo, hi
<1>5. Min({a, b}) = lo
  BY <1>1, <1>3 DEF Min
<1>6. Max({a, b}) = hi
  BY <1>2, <1>4 DEF Max
<1> QED BY <1>5, <1>6 DEF lo, hi

\* A sum along the path grows by its last segment.
LEMMA SumToNext ==
  ASSUME NEW w, NEW k \in Nat, k >= 2, \A j \in 2..k: w[j] \in Int
  PROVE SumTo(w, k - 1) \in Int /\ SumTo(w, k) = SumTo(w, k - 1) + w[k]
<1>1. IsFiniteSet(2..(k - 1))
  BY FS_Interval
<1>2. 2..k = 2..(k - 1) \cup {k} /\ k \notin 2..(k - 1)
  OBVIOUS
<1> QED BY <1>1, <1>2, SumAdd DEF SumTo

\* What a segment adds to the three sums along the path.
LEMMA GroundOfSegment ==
  ASSUME PlanTypeOK, NEW k \in Segments
  PROVE LET a == path[k - 1]
            b == path[k]
            lo == IF a < b THEN a ELSE b
            hi == IF a < b THEN b ELSE a
        IN /\ a \in Int /\ b \in Int /\ Distance(a, b) \in Nat
           /\ GroundLength[k] = Distance(a, b)
           /\ UnknownGround[k] = Cardinality(Units(Unexplored, CellWidth, lo, hi))
           /\ UnknownGround[k] \in Nat
           /\ BorderCount[k] = Cardinality({x \in lo..hi: x % CellWidth = 0})
           /\ BorderCount[k] \in Nat
<1> DEFINE a == path[k - 1]
           b == path[k]
           lo == IF a < b THEN a ELSE b
           hi == IF a < b THEN b ELSE a
<1>1. a \in Int /\ b \in Int
  BY DEF PlanTypeOK, Segments
<1>2. Min({a, b}) = lo /\ Max({a, b}) = hi
  BY <1>1, MinMax
<1>3. Ground(k) = lo..(hi - 1) /\ Borders(k) = {x \in lo..hi: x % CellWidth = 0}
  <2> HIDE DEF lo, hi
  <2> QED BY <1>2 DEF Ground, Borders
<1>4. lo \in Int /\ hi \in Int /\ lo <= hi /\ Distance(a, b) = hi - lo
  BY <1>1 DEF Distance
<1> HIDE DEF a, b, lo, hi
<1>5. Cardinality(Ground(k)) = Distance(a, b)
  BY <1>3, <1>4, IntervalSize
<1>6. {x \in Ground(k): IsUnknown(x \div CellWidth)} = Units(Unexplored, CellWidth, lo, hi)
  <2>1. \A x \in lo..(hi - 1): x \div CellWidth \in Int
    BY PathBudgetAssumption, Quotient, <1>4
  <2> QED BY <1>3, <2>1 DEF Units, Unexplored
<1>7. Cardinality(Units(Unexplored, CellWidth, lo, hi)) \in Nat
  BY <1>4, PathBudgetAssumption, UnitsFinite
<1>8. Cardinality(Borders(k)) \in Nat
  BY <1>3, <1>4, PathBudgetAssumption, RefinedBorders
<1>9. /\ GroundLength[k] = Cardinality(Ground(k))
      /\ UnknownGround[k] = Cardinality({x \in Ground(k): IsUnknown(x \div CellWidth)})
      /\ BorderCount[k] = Cardinality(Borders(k))
  BY DEF GroundLength, UnknownGround, BorderCount
<1>10. Distance(a, b) \in Nat
  BY <1>4
<1>11. /\ a \in Int /\ b \in Int /\ Distance(a, b) \in Nat
       /\ GroundLength[k] = Distance(a, b)
       /\ UnknownGround[k] = Cardinality(Units(Unexplored, CellWidth, lo, hi))
       /\ UnknownGround[k] \in Nat
       /\ BorderCount[k] = Cardinality({x \in lo..hi: x % CellWidth = 0})
       /\ BorderCount[k] \in Nat
  BY <1>1, <1>3, <1>5, <1>6, <1>7, <1>8, <1>9, <1>10
<1> QED BY <1>11 DEF a, b, lo, hi

\* The three sums along the path, segment by segment.
LEMMA PathSums ==
  ASSUME PlanTypeOK, NEW k \in Segments
  PROVE /\ SumTo(GroundLength, k - 1) \in Int
        /\ SumTo(GroundLength, k) = SumTo(GroundLength, k - 1) + GroundLength[k]
        /\ SumTo(UnknownGround, k - 1) \in Int
        /\ SumTo(UnknownGround, k) = SumTo(UnknownGround, k - 1) + UnknownGround[k]
        /\ SumTo(BorderCount, k - 1) \in Int
        /\ SumTo(BorderCount, k) = SumTo(BorderCount, k - 1) + BorderCount[k]
<1>1. Len(path) \in Nat
  BY DEF PlanTypeOK
<1>2. k \in Nat /\ k >= 2 /\ \A j \in 2..k: j \in Segments
  BY <1>1 DEF Segments
<1>3. \A j \in 2..k: GroundLength[j] \in Int /\ UnknownGround[j] \in Int /\ BorderCount[j] \in Int
  <2> TAKE j \in 2..k
  <2>1. j \in Segments
    BY <1>2
  <2>2. /\ Distance(path[j - 1], path[j]) \in Nat
        /\ GroundLength[j] = Distance(path[j - 1], path[j])
        /\ UnknownGround[j] \in Nat /\ BorderCount[j] \in Nat
    BY <2>1, GroundOfSegment
  <2> QED BY <2>2
<1> QED BY <1>2, <1>3, SumToNext

\* A sample lies on a segment between different poses, and has its length.
LEMMA SampledSegment ==
  ASSUME PlanTypeOK, StagesOK, NEW p \in Sampled
  PROVE /\ p[1] \in Segments /\ p[2] \in Nat /\ p = <<p[1], p[2]>>
        /\ path[p[1] - 1] \in Int /\ path[p[1]] \in Int /\ path[p[1] - 1] # path[p[1]]
        /\ Distance(path[p[1] - 1], path[p[1]]) <= MaxSegment
        /\ p[2] < Samples(Distance(path[p[1] - 1], path[p[1]]))
        /\ Weight[p] = SampleLength(path[p[1] - 1], path[p[1]])
        /\ Weight[p] \in Nat
<1>1. p[1] \in Segments /\ p[2] \in 0..MaxSegment /\ p = <<p[1], p[2]>>
      /\ path[p[1]] # path[p[1] - 1] /\ p[2] < Samples(Distance(path[p[1] - 1], path[p[1]]))
  BY DEF Sampled
<1>2. path[p[1] - 1] \in Int /\ path[p[1]] \in Int
  BY <1>1, GroundOfSegment
<1>3. Distance(path[p[1] - 1], path[p[1]]) <= MaxSegment
  BY <1>1 DEF StagesOK
<1>4. SampleLength(path[p[1] - 1], path[p[1]]) \in Nat
  BY <1>1, <1>2, <1>3, SegmentSampled
<1>5. Weight[p] = SampleLength(path[p[1] - 1], path[p[1]])
  BY DEF Weight
<1> QED BY <1>1, <1>2, <1>3, <1>4, <1>5, PathBudgetAssumption

\* A path has finitely many samples.
LEMMA SampledFinite ==
  ASSUME PlanTypeOK
  PROVE IsFiniteSet(Sampled) /\ \A T \in SUBSET Sampled: IsFiniteSet(T)
<1>1. Len(path) \in Int /\ MaxSegment \in Int
  BY PathBudgetAssumption DEF PlanTypeOK
<1>2. IsFiniteSet(Segments) /\ IsFiniteSet(0..MaxSegment)
  BY <1>1, FS_Interval DEF Segments
<1>3. IsFiniteSet(Segments \X (0..MaxSegment))
  BY <1>2, FS_Product
<1>4. Sampled \in SUBSET (Segments \X (0..MaxSegment))
  BY DEF Sampled
<1> QED BY <1>3, <1>4, FS_Subset

\* The length of samples grows by that of the one added.
LEMMA LengthAdd ==
  ASSUME PlanTypeOK, StagesOK, NEW T \in SUBSET Sampled, NEW z \in Sampled, z \notin T
  PROVE LengthOf(T) \in Int /\ LengthOf(T \cup {z}) = LengthOf(T) + Weight[z]
<1>1. IsFiniteSet(T) /\ \A x \in T \cup {z}: Weight[x] \in Int
  BY SampledFinite, SampledSegment
<1> QED BY <1>1, SumAdd DEF LengthOf

LEMMA LengthInt ==
  ASSUME PlanTypeOK, StagesOK, NEW T \in SUBSET Sampled
  PROVE LengthOf(T) \in Int
<1>1. IsFiniteSet(T) /\ \A x \in T: Weight[x] \in Int
  BY SampledFinite, SampledSegment
<1> QED BY <1>1, SumRemove DEF LengthOf

LEMMA LengthEmpty == LengthOf({}) = 0
BY SumEmpty DEF LengthOf

(***************************************************************************)
(* The invariant is inductive                                              *)
(***************************************************************************)
\* While path and costmap stay as they are, so does what they are measured by.
LEMMA SamePath ==
  ASSUME UNCHANGED <<unknown, path>>
  PROVE /\ Segments' = Segments /\ Sampled' = Sampled /\ Weight' = Weight
        /\ GroundLength' = GroundLength /\ UnknownGround' = UnknownGround
        /\ BorderCount' = BorderCount /\ Unexplored' = Unexplored
        /\ \A p: Gap(p)' <=> Gap(p)
        /\ \A p, q: Stretch(p, q)' = Stretch(p, q)
<1>1. \A c: IsUnknown(c)' <=> IsUnknown(c)
  BY DEF IsUnknown, InBounds
<1>2. Segments' = Segments
  BY DEF Segments
<1>3. Sampled' = Sampled
  BY <1>2 DEF Sampled
<1>4. Weight' = Weight
  BY <1>3 DEF Weight
<1>5. GroundLength' = GroundLength /\ UnknownGround' = UnknownGround /\ BorderCount' = BorderCount
  BY <1>1, <1>2 DEF GroundLength, UnknownGround, BorderCount, Ground, Borders
<1>6. Unexplored' = Unexplored
  BY <1>1 DEF Unexplored
<1>7. \A p: Gap(p)' <=> Gap(p)
  BY <1>1 DEF Gap
<1>8. \A p, q: Stretch(p, q)' = Stretch(p, q)
  BY <1>3 DEF Stretch
<1> QED BY <1>2, <1>3, <1>4, <1>5, <1>6, <1>7, <1>8

\* Where the loops stand when a sample is measured.
LEMMA CursorAtSample ==
  ASSUME PlanInv, MeasureSample
  PROVE LET a == path[i - 1]
            b == path[i]
            z == <<i, sample>>
        IN /\ i \in Segments /\ a \in Int /\ b \in Int /\ a # b /\ Distance(a, b) <= MaxSegment
           /\ Distance(a, b) \in Nat \ {0} /\ Samples(Distance(a, b)) \in Nat \ {0}
           /\ sample < Samples(Distance(a, b))
           /\ z \in Sampled /\ z \notin Passed /\ Weight[z] = SampleLength(a, b)
           /\ SampleLength(a, b) \in Nat
           /\ Gap(z) <=> IsUnknown(SampleCell(a, b, sample))
<1> DEFINE a == path[i - 1]
           b == path[i]
           L == Distance(a, b)
           z == <<i, sample>>
<1>1. i \in Segments /\ a # b
  BY DEF MeasureSample, PlanInv, PlanTypeOK, CursorOK, Segments
<1>2. a \in Int /\ b \in Int
  BY <1>1, GroundOfSegment DEF PlanInv
<1>3. L <= MaxSegment
  BY <1>1 DEF PlanInv, StagesOK
<1>4. /\ L \in Nat \ {0} /\ Samples(L) \in Nat \ {0} /\ Samples(L) <= L
      /\ SampleLength(a, b) \in Nat
  BY <1>1, <1>2, <1>3, SegmentSampled
<1>5. sample \in Nat /\ sample < Samples(L)
  <2>1. sample \in Nat
    BY DEF PlanInv, PlanTypeOK
  <2>2. sample > 0 => sample < Samples(L)
    BY DEF MeasureSample, PlanInv, CursorOK
  <2> QED BY <1>4, <2>1, <2>2
<1>6. sample \in 0..MaxSegment
  BY <1>3, <1>4, <1>5, PathBudgetAssumption
<1>7. z \in Sampled
  BY <1>1, <1>5, <1>6 DEF Sampled
<1>8. z \notin Passed
  BY <1>1, <1>5 DEF Passed, Segments
<1>9. Weight[z] = SampleLength(a, b)
  BY <1>7 DEF Weight
<1>10. Gap(z) <=> IsUnknown(SampleCell(a, b, sample))
  BY DEF Gap
<1> QED BY <1>1, <1>2, <1>3, <1>4, <1>5, <1>7, <1>8, <1>9, <1>10

\* Measuring a sample passes it: it comes after every sample passed so far and
\* before all others.
LEMMA SamplePassed ==
  ASSUME PlanInv, MeasureSample
  PROVE LET z == <<i, sample>>
        IN /\ Passed' = Passed \cup {z} /\ Passed \subseteq Sampled
           /\ \A p \in Passed: Before(p, z) /\ ~Before(z, p)
           /\ Before(z, z)
           /\ \A r \in Sampled: Before(r, z) => r \in Passed \cup {z}
<1> DEFINE z == <<i, sample>>
           n == Samples(Distance(path[i - 1], path[i]))
<1>1. i \in Nat /\ sample \in Nat /\ n \in Nat /\ sample < n /\ z \in Sampled
  BY CursorAtSample DEF PlanInv, PlanTypeOK
<1>2. \A p \in Sampled: p[1] \in Int /\ p[2] \in Nat /\ p = <<p[1], p[2]>>
  <2> TAKE p \in Sampled
  <2>1. Len(path) \in Nat
    BY DEF PlanInv, PlanTypeOK
  <2>2. p \in (2..Len(path)) \X (0..MaxSegment)
    BY DEF Sampled, Segments
  <2> QED BY <2>1, <2>2, PathBudgetAssumption
<1>3. UNCHANGED <<unknown, path>>
  BY DEF MeasureSample
<1>4. Passed' = Passed \cup {z}
  <2>1. CASE sample + 1 = n
    <3>1. i' = i + 1 /\ sample' = 0
      BY <2>1 DEF MeasureSample, NextPose
    <3>2. \A p \in Sampled: p[1] = i => p[2] < n
      BY DEF Sampled
    <3>3. \A p \in Sampled: (p[1] < i + 1 \/ (p[1] = i + 1 /\ p[2] < 0))
                              <=> (p[1] < i \/ (p[1] = i /\ p[2] < sample) \/ p = z)
      BY <1>1, <1>2, <2>1, <3>2
    <3> QED BY <1>1, <1>3, <3>1, <3>3, SamePath DEF Passed
  <2>2. CASE sample + 1 # n
    <3>1. i' = i /\ sample' = sample + 1
      BY <2>2 DEF MeasureSample
    <3>2. \A p \in Sampled: (p[1] < i \/ (p[1] = i /\ p[2] < sample + 1))
                              <=> (p[1] < i \/ (p[1] = i /\ p[2] < sample) \/ p = z)
      BY <1>1, <1>2
    <3> QED BY <1>1, <1>3, <3>1, <3>2, SamePath DEF Passed
  <2> QED BY <2>1, <2>2
<1>5. \A p \in Passed: Before(p, z) /\ ~Before(z, p)
  BY <1>1, <1>2 DEF Passed, Before
<1>6. \A r \in Sampled: Before(r, z) => r \in Passed \cup {z}
  BY <1>1, <1>2 DEF Passed, Before
<1>7. Before(z, z)
  BY <1>1 DEF Before
<1>8. Passed \subseteq Sampled
  BY DEF Passed
<1> QED BY <1>4, <1>5, <1>6, <1>7, <1>8

\* A sample adds its segment's length once and its own where it is a gap.
LEMMA MeasureLengths ==
  ASSUME PlanInv, MeasureSample
  PROVE LengthsMeasured'
<1> DEFINE a == path[i - 1]
           b == path[i]
           z == <<i, sample>>
           G(S) == {p \in S: Gap(p)}
<1>1. UNCHANGED <<unknown, path>> /\ phase = "measure"
  BY DEF MeasureSample
<1>2. PlanTypeOK /\ StagesOK /\ LengthsMeasured
  BY DEF PlanInv
<1>3. /\ pathLength = Scale * SumTo(GroundLength, IF sample = 0 THEN i - 1 ELSE i)
      /\ unknownLength = LengthOf(G(Passed))
  BY <1>1, <1>2 DEF LengthsMeasured
<1>4. /\ i \in Segments /\ i \in Nat /\ Distance(a, b) \in Nat
      /\ z \in Sampled /\ z \notin Passed /\ Weight[z] = SampleLength(a, b)
      /\ Gap(z) <=> IsUnknown(SampleCell(a, b, sample))
  BY CursorAtSample, <1>2 DEF PlanTypeOK
<1>5. pathLength' = Scale * SumTo(GroundLength', IF sample' = 0 THEN i' - 1 ELSE i')
  <2>1. (IF sample' = 0 THEN i' - 1 ELSE i') = i
    BY <1>2, <1>4 DEF MeasureSample, NextPose, PlanTypeOK
  <2>2. pathLength' = pathLength + (IF sample = 0 THEN Scale * Distance(a, b) ELSE 0)
    BY DEF MeasureSample
  <2>3. /\ SumTo(GroundLength, i - 1) \in Int
        /\ SumTo(GroundLength, i) = SumTo(GroundLength, i - 1) + Distance(a, b)
    BY <1>2, <1>4, PathSums, GroundOfSegment
  <2>4. pathLength' = Scale * SumTo(GroundLength, i)
    BY <1>2, <1>3, <1>4, <2>2, <2>3, PathBudgetAssumption DEF PlanTypeOK
  <2> QED BY <1>1, <2>1, <2>4, SamePath
<1>6. unknownLength' = LengthOf(G(Passed \cup {z}))
  <2>1. unknownLength' = unknownLength + (IF Gap(z) THEN Weight[z] ELSE 0)
    BY <1>4 DEF MeasureSample
  <2>2. G(Passed \cup {z}) = IF Gap(z) THEN G(Passed) \cup {z} ELSE G(Passed)
    OBVIOUS
  <2>3. G(Passed) \in SUBSET Sampled /\ z \notin G(Passed)
    BY <1>4, SamplePassed
  <2> HIDE DEF G
  <2>4. LengthOf(G(Passed) \cup {z}) = LengthOf(G(Passed)) + Weight[z]
    BY <1>2, <1>4, <2>3, LengthAdd
  <2> QED BY <1>2, <1>3, <2>1, <2>2, <2>4 DEF PlanTypeOK
<1>7. G(Passed \cup {z}) = {p \in Passed': Gap(p)'}
  BY <1>1, SamplePassed, SamePath
<1> HIDE DEF G
<1>8. unknownLength' = SumFunctionOnSet(Weight', {p \in Passed': Gap(p)'})
  BY <1>1, <1>6, <1>7, SamePath DEF LengthOf
<1> QED BY <1>5, <1>8 DEF LengthsMeasured, SumTo, LengthOf

\* A gap extends every trail that is all gaps, another sample ends them.
LEMMA MeasureRuns ==
  ASSUME PlanInv, MeasureSample
  PROVE RunsMeasured'
<1> DEFINE z == <<i, sample>>
           P == Passed \cup {z}
           AllGaps(S) == \A r \in S: Gap(r)
           Rest(p) == {r \in P: Before(p, r)}
<1>1. UNCHANGED <<unknown, path>> /\ phase = "measure" /\ PlanTypeOK /\ StagesOK
  BY DEF MeasureSample, PlanInv
<1>2. /\ \A p, q \in Passed: AllGaps(Stretch(p, q)) => LengthOf(Stretch(p, q)) <= maxRun
      /\ \A p \in Passed: AllGaps(Trail(p)) => LengthOf(Trail(p)) <= run
  BY <1>1 DEF PlanInv, RunsMeasured
<1>3. /\ z \in Sampled /\ z \notin Passed /\ Weight[z] \in Nat
      /\ Gap(z) <=> IsUnknown(SampleCell(path[i - 1], path[i], sample))
      /\ Weight[z] = SampleLength(path[i - 1], path[i])
  BY CursorAtSample
<1>4. /\ run \in Nat /\ maxRun \in Nat
      /\ run' = IF Gap(z) THEN run + Weight[z] ELSE 0
      /\ maxRun' = Max({maxRun, run'})
  BY <1>1, <1>3 DEF MeasureSample, RunSoFar, PlanTypeOK
<1>5. run' \in Nat /\ maxRun' \in Nat /\ maxRun <= maxRun' /\ run' <= maxRun'
  <2> HIDE DEF z
  <2>1. run' \in Nat
    <3>1. run + Weight[z] \in Nat
      BY <1>3, <1>4
    <3> QED BY <1>4, <3>1
  <2>2. maxRun' = IF maxRun < run' THEN run' ELSE maxRun
    <3>1. maxRun \in Int /\ run' \in Int /\ maxRun' = Max({maxRun, run'})
      BY <1>4, <2>1
    <3> QED BY <3>1, MinMax
  <2> QED BY <1>4, <2>1, <2>2
<1>6. /\ Passed' = P /\ Passed \subseteq Sampled /\ Before(z, z)
      /\ \A p \in Passed: Before(p, z) /\ ~Before(z, p)
      /\ \A r \in Sampled: Before(r, z) => r \in P
  BY SamplePassed
<1>7. \A p \in Passed: /\ Rest(p) = Trail(p) \cup {z} /\ Stretch(p, z) = Trail(p) \cup {z}
                       /\ Trail(p) \in SUBSET Sampled /\ z \notin Trail(p)
  BY <1>3, <1>6 DEF Trail, Stretch
<1>8. Rest(z) = {z} /\ Stretch(z, z) = {z}
  <2>1. \A r \in Sampled: Before(z, r) /\ Before(r, z) => r = z
    BY <1>6
  <2> QED BY <1>3, <1>6, <2>1 DEF Stretch
<1>9. \A q \in Passed: Stretch(z, q) = {}
  <2> SUFFICES ASSUME NEW q \in Passed, NEW r \in Sampled, Before(z, r), Before(r, q) PROVE FALSE
    BY DEF Stretch
  <2>1. Before(r, z)
    <3>1. q[1] \in Int /\ q[2] \in Int /\ r[1] \in Int /\ r[2] \in Int /\ i \in Int /\ sample \in Int
      <4>1. Len(path) \in Nat /\ MaxSegment \in Nat /\ i \in Int /\ sample \in Int
        BY <1>1, PathBudgetAssumption DEF PlanTypeOK
      <4>2. q \in (2..Len(path)) \X (0..MaxSegment) /\ r \in (2..Len(path)) \X (0..MaxSegment)
        BY <1>6 DEF Sampled, Segments
      <4> QED BY <4>1, <4>2
    <3>2. Before(q, z)
      BY <1>6
    <3> QED BY <3>1, <3>2 DEF Before
  <2>2. r \in Passed \/ r = z
    BY <1>6, <2>1
  <2> QED BY <1>6, <2>2
<1>10. /\ LengthOf({z}) = Weight[z]
       /\ \A p \in Passed: LengthOf(Trail(p) \cup {z}) = LengthOf(Trail(p)) + Weight[z]
                           /\ LengthOf(Trail(p)) \in Int
  <2>1. LengthOf({} \cup {z}) = LengthOf({}) + Weight[z]
    BY <1>1, <1>3, LengthAdd
  <2>2. LengthOf({z}) = Weight[z]
    BY <1>3, <2>1, LengthEmpty
  <2> QED BY <1>1, <1>3, <1>7, <2>2, LengthAdd
<1> HIDE DEF Rest, AllGaps
\* A trail that is all gaps has grown by the sample; none is left after another one.
<1>11. ASSUME NEW p \in P, AllGaps(Rest(p)) PROVE LengthOf(Rest(p)) <= run'
  <2>1. CASE p = z
    <3>1. Rest(p) = {z}
      BY <1>8, <2>1
    <3>2. Gap(z)
      BY <1>11, <3>1 DEF AllGaps
    <3>3. LengthOf(Rest(p)) = Weight[z]
      BY <1>10, <3>1
    <3> QED BY <1>3, <1>4, <3>2, <3>3
  <2>2. CASE p \in Passed
    <3>1. Gap(z) /\ AllGaps(Trail(p))
      BY <1>7, <1>11, <2>2 DEF AllGaps
    <3>2. LengthOf(Trail(p)) <= run /\ LengthOf(Trail(p)) \in Int
      BY <1>2, <1>10, <2>2, <3>1
    <3>3. LengthOf(Rest(p)) = LengthOf(Trail(p)) + Weight[z]
      BY <1>7, <1>10, <2>2
    <3> QED BY <1>3, <1>4, <3>1, <3>2, <3>3
  <2> QED BY <2>1, <2>2
<1>12. ASSUME NEW p \in P, NEW q \in P, AllGaps(Stretch(p, q)) PROVE LengthOf(Stretch(p, q)) <= maxRun'
  <2>1. CASE q = z
    <3>1. Stretch(p, q) = Rest(p)
      BY <1>7, <1>8, <2>1
    <3>2. AllGaps(Rest(p))
      BY <1>12, <3>1 DEF AllGaps
    <3>3. LengthOf(Rest(p)) <= run'
      BY <1>11, <3>2
    <3>4. LengthOf(Rest(p)) \in Int
      <4>1. Rest(p) \in SUBSET Sampled
        BY <1>3, <1>6 DEF Rest
      <4> QED BY <1>1, <4>1, LengthInt
    <3> QED BY <1>5, <3>1, <3>3, <3>4
  <2>2. CASE q \in Passed /\ p = z
    BY <1>5, <1>9, <2>2, LengthEmpty
  <2>3. CASE q \in Passed /\ p \in Passed
    <3>1. LengthOf(Stretch(p, q)) <= maxRun
      BY <1>2, <1>12, <2>3 DEF AllGaps
    <3>2. LengthOf(Stretch(p, q)) \in Int
      <4>1. Stretch(p, q) \in SUBSET Sampled
        BY DEF Stretch
      <4> QED BY <1>1, <4>1, LengthInt
    <3> QED BY <1>4, <1>5, <3>1, <3>2
  <2> QED BY <2>1, <2>2, <2>3
<1>13. \A S: LengthOf(S)' = LengthOf(S)
  BY <1>1, SamePath DEF LengthOf
<1>14. \A p \in P: Trail(p)' = Rest(p)
  BY <1>6 DEF Trail, Before, Rest
<1> HIDE DEF P
<1>15. \A p, q \in P: (\A r \in Stretch(p, q)': Gap(r)') => SumFunctionOnSet(Weight', Stretch(p, q)') <= maxRun'
  BY <1>1, <1>12, SamePath DEF LengthOf, AllGaps
<1>16. \A p \in P: (\A r \in Trail(p)': Gap(r)') => SumFunctionOnSet(Weight', Trail(p)') <= run'
  BY <1>1, <1>11, <1>14, SamePath DEF LengthOf, AllGaps
<1> QED BY <1>6, <1>15, <1>16 DEF RunsMeasured, LengthOf

\* Errors of two lengths add up.
LEMMA NearGroundAdd ==
  ASSUME NEW x \in Int, NEW y \in Int, NEW u \in Int, NEW v \in Int, NEW p \in Int, NEW q \in Int,
         NEW s \in Int, NEW c \in Int,
         2 * Distance(x, s * u) <= c * p, 2 * Distance(y, s * v) <= c * q
  PROVE 2 * Distance(x + y, s * (u + v)) <= c * (p + q)
<1>1. s * u \in Int /\ s * v \in Int /\ s * (u + v) = s * u + s * v
  OBVIOUS
<1>2. c * p \in Int /\ c * q \in Int /\ c * (p + q) = c * p + c * q
  OBVIOUS
<1> QED BY <1>1, <1>2 DEF Distance

\* A sample keeps its segment close to the ground, the last one the path.
LEMMA MeasureGround ==
  ASSUME PlanInv, MeasureSample
  PROVE GroundMeasured'
<1> DEFINE a == path[i - 1]
           b == path[i]
           L == Distance(a, b)
           q == SampleLength(a, b)
           gap == IsUnknown(SampleCell(a, b, sample))
           U == SumTo(UnknownGround, i - 1)
           B == SumTo(BorderCount, i - 1)
           Near(len, u, c) == 2 * Distance(len, Scale * u) <= Scale * SampleStep * c
<1>1. UNCHANGED <<unknown, path>> /\ phase = "measure" /\ PlanTypeOK /\ StagesOK
  BY DEF MeasureSample, PlanInv
<1>2. /\ i \in Segments /\ a \in Int /\ b \in Int /\ a # b /\ L <= MaxSegment
      /\ L \in Nat \ {0} /\ Samples(L) \in Nat \ {0} /\ sample < Samples(L) /\ q \in Nat
  BY CursorAtSample
<1>3. i \in Nat /\ sample \in Nat /\ unknownLength \in Nat
  BY <1>1 DEF PlanTypeOK
<1>4. PICK g \in 0..sample:
        /\ unknownLength >= g * q /\ Near(unknownLength - g * q, U, B)
        /\ SamplesNear(Unexplored, a, b, sample, g)
  <2>1. CASE sample = 0
    <3>1. NearGround(unknownLength, i - 1)
      BY <1>1, <2>1 DEF PlanInv, GroundMeasured
    <3>2. SamplesNear(Unexplored, a, b, 0, 0)
      BY <1>2, SamplesNearStart
    <3>3. 0 * q = 0 /\ unknownLength - 0 * q = unknownLength
      BY <1>2, <1>3
    <3> QED BY <1>3, <2>1, <3>1, <3>2, <3>3 DEF NearGround
  <2>2. CASE sample > 0
    BY <1>1, <2>2 DEF PlanInv, GroundMeasured, NearGround
  <2> QED BY <1>3, <2>1, <2>2
<1> DEFINE h == IF gap THEN g + 1 ELSE g
<1>5. h \in 0..sample + 1 /\ g \in Nat /\ h \in Nat
  BY <1>3, <1>4
<1>6. SamplesNear(Unexplored, a, b, sample + 1, h)
  <2>1. SampleCell(a, b, sample) \in Unexplored <=> gap
    <3>1. SampleCell(a, b, sample) \in Int
      <4> DEFINE num == 2 * Samples(L) * a + (2 * sample + 1) * (b - a)
                 den == 2 * Samples(L) * CellWidth
      <4>1. num \in Int /\ den \in Nat \ {0}
        BY <1>2, <1>3, PathBudgetAssumption
      <4>2. SampleCell(a, b, sample) = num \div den
        BY DEF SampleCell
      <4> QED BY <4>1, <4>2, Quotient
    <3> QED BY <3>1 DEF Unexplored
  <2> QED BY <1>2, <1>3, <1>4, <1>5, <2>1, SamplesNearNext
<1>7. /\ unknownLength' = unknownLength + (IF gap THEN q ELSE 0)
      /\ unknownLength' \in Nat
      /\ unknownLength' - h * q = unknownLength - g * q
      /\ unknownLength' >= h * q
  <2>1. unknownLength' = unknownLength + (IF gap THEN q ELSE 0)
    BY DEF MeasureSample
  <2>2. g * q \in Nat /\ h * q = g * q + (IF gap THEN q ELSE 0)
    BY <1>2, <1>5
  <2> QED BY <1>2, <1>3, <1>4, <2>1, <2>2
<1>8. Near(unknownLength' - h * q, U, B)
  BY <1>4, <1>7
<1>9. /\ U \in Int /\ SumTo(UnknownGround, i) = U + UnknownGround[i] /\ UnknownGround[i] \in Nat
      /\ B \in Int /\ SumTo(BorderCount, i) = B + BorderCount[i] /\ BorderCount[i] \in Nat
  BY <1>1, <1>2, PathSums, GroundOfSegment
<1>10. CASE sample + 1 = Samples(L)
  <2>1. i' = i + 1 /\ sample' = 0
    BY <1>10 DEF MeasureSample, NextPose
  <2>2. 2 * Distance(h * q, Scale * UnknownGround[i]) <= Scale * SampleStep * BorderCount[i]
    <3>1. SamplesNear(Unexplored, a, b, Samples(L), h)
      BY <1>6, <1>10
    <3> DEFINE lo == IF a < b THEN a ELSE b
               hi == IF a < b THEN b ELSE a
    <3>2. 2 * Distance(h * q, Scale * Cardinality(Units(Unexplored, CellWidth, lo, hi)))
            <= Scale * SampleStep * Cardinality({x \in lo..hi: x % CellWidth = 0})
      BY <1>2, <1>5, <3>1, SegmentNear
    <3>3. /\ UnknownGround[i] = Cardinality(Units(Unexplored, CellWidth, lo, hi))
          /\ BorderCount[i] = Cardinality({x \in lo..hi: x % CellWidth = 0})
      BY <1>1, <1>2, GroundOfSegment
    <3> QED BY <3>2, <3>3
  <2>3. /\ h * q \in Int /\ unknownLength' - h * q \in Int
        /\ (unknownLength' - h * q) + h * q = unknownLength'
    BY <1>2, <1>5, <1>7
  <2>4. Scale \in Int /\ Scale * SampleStep \in Int
    BY PathBudgetAssumption
  <2> DEFINE x == unknownLength' - h * q
             y == h * q
             v == UnknownGround[i]
             c == BorderCount[i]
  <2>5. /\ x \in Int /\ y \in Int /\ U \in Int /\ v \in Int /\ B \in Int /\ c \in Int
        /\ 2 * Distance(x, Scale * U) <= Scale * SampleStep * B
        /\ 2 * Distance(y, Scale * v) <= Scale * SampleStep * c
    BY <1>8, <1>9, <2>2, <2>3
  <2> HIDE DEF x, y, v, c, U, B
  <2>6. 2 * Distance(x + y, Scale * (U + v)) <= Scale * SampleStep * (B + c)
    BY <2>4, <2>5, NearGroundAdd
  <2>7. 2 * Distance((unknownLength' - h * q) + h * q, Scale * (U + UnknownGround[i]))
          <= Scale * SampleStep * (B + BorderCount[i])
    BY <2>6 DEF x, y, v, c
  <2> HIDE DEF h, q
  <2>8. 2 * Distance(unknownLength', Scale * SumTo(UnknownGround', i' - 1))
          <= Scale * SampleStep * SumTo(BorderCount', i' - 1)
    <3>1. i' - 1 = i
      BY <1>3, <2>1
    <3> QED BY <1>1, <1>9, <2>3, <2>7, <3>1, SamePath
  <2> QED BY <2>1, <2>8 DEF GroundMeasured, NearGround, SumTo
<1>11. CASE sample + 1 # Samples(L)
  <2>1. i' = i /\ sample' = sample + 1
    BY <1>11 DEF MeasureSample
  <2>2. SamplesNear(Unexplored', path'[i' - 1], path'[i'], sample', h)
    BY <1>1, <1>6, <2>1, SamePath
  <2>3. SampleLength(path'[i' - 1], path'[i']) = q
    BY <1>1, <2>1
  <2>4. 2 * Distance(unknownLength' - h * q, Scale * SumTo(UnknownGround', i' - 1))
          <= Scale * SampleStep * SumTo(BorderCount', i' - 1)
    BY <1>1, <1>8, <2>1, SamePath
  <2>5. h \in 0..sample' /\ sample' # 0
    BY <1>3, <1>5, <2>1
  <2> HIDE DEF h, q
  <2> QED BY <1>7, <2>2, <2>3, <2>4, <2>5 DEF GroundMeasured, NearGround, SumTo, SamplesNear
<1> QED BY <1>10, <1>11

\* Nothing is measured at first.
LEMMA PlanInitInv == PlanInit => PlanInv
<1> SUFFICES ASSUME PlanInit PROVE PlanInv
  OBVIOUS
<1>1. PlanTypeOK
  BY PathBudgetAssumption DEF PlanInit, PlanTypeOK
<1>2. StagesOK
  BY DEF PlanInit, StagesOK, Segments, exposure
<1>3. CursorOK /\ LengthsMeasured /\ RunsMeasured /\ GroundMeasured /\ FallbackIsBounded
  BY DEF PlanInit, CursorOK, LengthsMeasured, RunsMeasured, GroundMeasured, FallbackIsBounded
<1> QED BY <1>1, <1>2, <1>3 DEF PlanInv

\* Every step keeps the types.
LEMMA PlanTypeStep ==
  ASSUME PlanInv, PlanNext
  PROVE PlanTypeOK'
<1>1. PlanTypeOK
  BY DEF PlanInv
<1>2. CASE RejectGoal \/ PlanToUnknown \/ PlanKnown \/ PlanFallback \/ FallbackPath \/ Decide
  BY <1>1, <1>2 DEF RejectGoal, PlanToUnknown, PlanKnown, PlanFallback, FallbackPath, Decide, Finish,
                    PlanTypeOK, exposure
<1>3. ASSUME NEW x \in Positions, NavfnPose(x) PROVE PlanTypeOK'
  <2>1. Append(path, x) \in Seq(Int)
    BY <1>1, PathBudgetAssumption DEF PlanTypeOK
  <2> QED BY <1>1, <1>3, <2>1 DEF NavfnPose, PlanTypeOK, exposure
<1>4. CASE SkipSegment
  BY <1>1, <1>4 DEF SkipSegment, NextPose, PlanTypeOK, exposure
<1>5. CASE MeasureSample
  <2> DEFINE w == SampleLength(path[i - 1], path[i])
             L == Distance(path[i - 1], path[i])
  <2>1. w \in Nat /\ L \in Nat
    BY <1>5, CursorAtSample
  <2>2. Scale * L \in Nat
    BY <2>1, PathBudgetAssumption
  <2>3. pathLength' \in Nat
    BY <1>1, <1>5, <2>2 DEF MeasureSample, PlanTypeOK
  <2>4. unknownLength' \in Nat
    BY <1>1, <1>5, <2>1 DEF MeasureSample, PlanTypeOK
  <2>5. run' \in Nat
    BY <1>1, <1>5, <2>1 DEF MeasureSample, RunSoFar, PlanTypeOK
  <2>6. maxRun' \in Nat
    <3>1. maxRun \in Nat /\ maxRun' = Max({maxRun, run'})
      BY <1>1, <1>5 DEF MeasureSample, PlanTypeOK
    <3>2. maxRun \in Int /\ run' \in Int
      BY <2>5, <3>1
    <3>3. maxRun' = IF maxRun < run' THEN run' ELSE maxRun
      BY <3>1, <3>2, MinMax
    <3> QED BY <2>5, <3>1, <3>3
  <2>7. i' \in Nat /\ sample' \in Nat
    BY <1>1, <1>5 DEF MeasureSample, NextPose, PlanTypeOK
  <2>8. UNCHANGED <<unknown, goal, phase, path, answer>>
    BY <1>5 DEF MeasureSample
  <2> QED BY <1>1, <2>3, <2>4, <2>5, <2>6, <2>7, <2>8 DEF PlanTypeOK
<1> QED BY <1>2, <1>3, <1>4, <1>5 DEF PlanNext

\* The steps before the measurement, and those that answer without it.
LEMMA PlanningStep ==
  ASSUME PlanInv,
         RejectGoal \/ PlanToUnknown \/ PlanKnown \/ PlanFallback \/ \E x \in Positions: NavfnPose(x)
  PROVE StagesOK' /\ phase' # "measure" /\ answer' # "fallback"
<1>1. PlanTypeOK /\ StagesOK
  BY DEF PlanInv
<1>2. CASE RejectGoal \/ PlanToUnknown \/ PlanKnown \/ PlanFallback
  BY <1>1, <1>2 DEF RejectGoal, PlanToUnknown, PlanKnown, PlanFallback, Finish, StagesOK, Segments,
                    exposure
<1>3. ASSUME NEW x \in Positions, NavfnPose(x)
      PROVE StagesOK' /\ phase' # "measure" /\ answer' # "fallback"
  <2>1. /\ Len(path') = Len(path) + 1 /\ Len(path) \in Nat
        /\ \A k \in 1..Len(path): path'[k] = path[k]
        /\ path'[Len(path) + 1] = x
    BY <1>1, <1>3, PathBudgetAssumption DEF NavfnPose, PlanTypeOK
  <2>2. ASSUME NEW k \in Segments' PROVE Distance(path'[k - 1], path'[k]) <= MaxSegment
    <3>1. k \in 2..Len(path) + 1
      BY <2>1 DEF Segments
    <3>2. CASE k \in 2..Len(path)
      <4>1. path'[k - 1] = path[k - 1] /\ path'[k] = path[k]
        BY <2>1, <3>2
      <4> QED BY <1>1, <3>2, <4>1 DEF StagesOK, Segments
    <3>3. CASE k = Len(path) + 1
      <4>1. k - 1 = Len(path) /\ path # <<>> /\ k - 1 \in 1..Len(path)
        BY <2>1, <3>1, <3>3
      <4>2. path'[k - 1] = path[Len(path)] /\ path'[k] = x
        BY <2>1, <3>3, <4>1
      <4> QED BY <1>3, <4>1, <4>2 DEF NavfnPose
    <3> QED BY <2>1, <3>1, <3>2, <3>3
  <2>3. phase' = "navfn" /\ phase = "navfn" /\ UNCHANGED <<i, sample, exposure, answer>>
    BY <1>3 DEF NavfnPose
  <2> QED BY <1>1, <2>2, <2>3 DEF StagesOK, exposure
<1> QED BY <1>2, <1>3

\* The measurement starts with no sample passed.
LEMMA FallbackPathStep ==
  ASSUME PlanInv, FallbackPath
  PROVE StagesOK' /\ CursorOK' /\ LengthsMeasured' /\ RunsMeasured' /\ GroundMeasured'
<1>1. PlanTypeOK /\ StagesOK /\ phase = "navfn" /\ UNCHANGED <<unknown, path, i, sample, exposure>>
  BY DEF PlanInv, FallbackPath
<1>2. /\ i = 2 /\ sample = 0 /\ pathLength = 0 /\ unknownLength = 0 /\ maxRun = 0 /\ run = 0
      /\ i' = 2 /\ sample' = 0 /\ pathLength' = 0 /\ unknownLength' = 0
  BY <1>1 DEF StagesOK, exposure
<1>3. StagesOK'
  BY <1>1 DEF FallbackPath, Finish, StagesOK, Segments, exposure
<1>4. SUFFICES ASSUME phase' = "measure"
               PROVE CursorOK' /\ LengthsMeasured' /\ RunsMeasured' /\ GroundMeasured'
  BY <1>3 DEF CursorOK, LengthsMeasured, RunsMeasured, GroundMeasured
<1>5. Passed' = {}
  <2>1. \A p \in Sampled: p[1] \in Nat /\ p[1] >= 2 /\ p[2] \in Nat
    <3> TAKE p \in Sampled
    <3>1. p \in (2..Len(path)) \X (0..MaxSegment) /\ Len(path) \in Nat
      BY <1>1 DEF Sampled, Segments, PlanTypeOK
    <3> QED BY <3>1, PathBudgetAssumption
  <2>2. \A p \in Sampled: ~(p[1] < 2 \/ (p[1] = 2 /\ p[2] < 0))
    BY <2>1
  <2> QED BY <1>1, <1>2, <2>2, SamePath DEF Passed
<1>6. CursorOK'
  <2>1. Len(path) \in Nat /\ path # <<>>
    BY <1>1, <1>4 DEF FallbackPath, Finish, PlanTypeOK
  <2>2. Len(path) >= 1
    BY <1>1, <2>1 DEF PlanTypeOK
  <2> QED BY <1>1, <1>2, <2>1, <2>2 DEF CursorOK
<1>7. \A w: SumTo(w, 2 - 1) = 0
  <2>1. 2..(2 - 1) = {}
    OBVIOUS
  <2> QED BY <2>1, SumEmpty DEF SumTo
<1>8. LengthsMeasured'
  <2>1. {p \in Passed': Gap(p)'} = {}
    BY <1>5
  <2>2. SumFunctionOnSet(Weight', {p \in Passed': Gap(p)'}) = 0
    BY <2>1, SumEmpty
  <2>3. SumFunctionOnSet(GroundLength', 2..(2 - 1)) = 0
    BY <1>7 DEF SumTo
  <2> QED BY <1>2, <2>2, <2>3, PathBudgetAssumption DEF LengthsMeasured, LengthOf, SumTo
<1>9. RunsMeasured'
  BY <1>5 DEF RunsMeasured
<1>10. GroundMeasured'
  <2>1. 2 * Distance(0, Scale * 0) <= Scale * SampleStep * 0
    BY PathBudgetAssumption DEF Distance
  <2>2. SumFunctionOnSet(UnknownGround', 2..(2 - 1)) = 0 /\ SumFunctionOnSet(BorderCount', 2..(2 - 1)) = 0
    BY <1>7 DEF SumTo
  <2> QED BY <1>2, <2>1, <2>2 DEF GroundMeasured, NearGround, SumTo
<1> QED BY <1>6, <1>8, <1>9, <1>10

\* A segment between poses at the same place has no ground and no samples.
LEMMA SkipSegmentStep ==
  ASSUME PlanInv, SkipSegment
  PROVE CursorOK' /\ LengthsMeasured' /\ RunsMeasured' /\ GroundMeasured'
<1>1. /\ PlanTypeOK /\ StagesOK /\ CursorOK /\ phase = "measure"
      /\ path[i] = path[i - 1] /\ i <= Len(path) /\ i' = i + 1
      /\ UNCHANGED <<unknown, path, sample, pathLength, unknownLength, maxRun, run, phase>>
  BY DEF PlanInv, SkipSegment, NextPose, exposure
<1>2. i \in Nat /\ i \in Segments /\ Len(path) \in Nat /\ sample = 0 /\ i' - 1 = i
  BY <1>1 DEF CursorOK, PlanTypeOK, Segments
<1>3. CursorOK'
  BY <1>1, <1>2 DEF CursorOK, Segments
<1>4. Passed' = Passed
  <2>1. \A p \in Sampled: p[1] \in Nat /\ p[2] \in Nat /\ p[1] # i
    <3> TAKE p \in Sampled
    <3>1. p \in (2..Len(path)) \X (0..MaxSegment) /\ path[p[1]] # path[p[1] - 1]
      BY DEF Sampled, Segments
    <3> QED BY <1>1, <1>2, <3>1, PathBudgetAssumption
  <2>2. \A p \in Sampled: (p[1] < i + 1 \/ (p[1] = i + 1 /\ p[2] < 0))
                            <=> (p[1] < i \/ (p[1] = i /\ p[2] < 0))
    BY <1>2, <2>1
  <2> QED BY <1>1, <1>2, <2>2, SamePath DEF Passed
<1>5. GroundLength[i] = 0 /\ UnknownGround[i] = 0 /\ BorderCount[i] \in Nat
  <2> DEFINE a == path[i]
  <2>1. /\ a \in Int /\ GroundLength[i] = Distance(a, a)
        /\ UnknownGround[i] = Cardinality(Units(Unexplored, CellWidth, a, a))
        /\ BorderCount[i] \in Nat
    BY <1>1, <1>2, GroundOfSegment
  <2> HIDE DEF a
  <2>2. Distance(a, a) = 0 /\ Units(Unexplored, CellWidth, a, a) = {}
    BY <2>1 DEF Distance, Units
  <2> QED BY <2>1, <2>2, FS_EmptySet
<1>6. /\ SumTo(GroundLength, i) = SumTo(GroundLength, i - 1)
      /\ SumTo(UnknownGround, i) = SumTo(UnknownGround, i - 1)
      /\ SumTo(UnknownGround, i) \in Int /\ SumTo(BorderCount, i - 1) \in Int
      /\ SumTo(BorderCount, i) = SumTo(BorderCount, i - 1) + BorderCount[i]
  BY <1>1, <1>2, <1>5, PathSums
<1>7. LengthsMeasured'
  <2>1. /\ pathLength = Scale * SumTo(GroundLength, i - 1)
        /\ unknownLength = LengthOf({p \in Passed: Gap(p)})
    BY <1>1, <1>2 DEF PlanInv, LengthsMeasured
  <2>2. pathLength' = Scale * SumTo(GroundLength', i' - 1)
    BY <1>1, <1>2, <1>6, <2>1, SamePath
  <2>3. {p \in Passed': Gap(p)'} = {p \in Passed: Gap(p)}
    BY <1>1, <1>4, SamePath
  <2>4. unknownLength' = SumFunctionOnSet(Weight', {p \in Passed': Gap(p)'})
    BY <1>1, <2>1, <2>3, SamePath DEF LengthOf
  <2> QED BY <1>1, <1>2, <2>2, <2>4 DEF LengthsMeasured, LengthOf, SumTo
<1>8. RunsMeasured'
  <2>1. \A S: LengthOf(S)' = LengthOf(S)
    BY <1>1, SamePath DEF LengthOf
  <2>2. \A p: Trail(p)' = Trail(p)
    BY <1>4 DEF Trail, Before
  <2>3. /\ \A p, q \in Passed:
             (\A r \in Stretch(p, q): Gap(r)) => LengthOf(Stretch(p, q)) <= maxRun
        /\ \A p \in Passed: (\A r \in Trail(p): Gap(r)) => LengthOf(Trail(p)) <= run
    BY <1>1 DEF PlanInv, RunsMeasured
  <2>4. \A p, q \in Passed: (\A r \in Stretch(p, q)': Gap(r)')
                               => SumFunctionOnSet(Weight', Stretch(p, q)') <= maxRun'
    BY <1>1, <2>3, SamePath DEF LengthOf
  <2>5. \A p \in Passed: (\A r \in Trail(p)': Gap(r)') => SumFunctionOnSet(Weight', Trail(p)') <= run'
    BY <1>1, <2>2, <2>3, SamePath DEF LengthOf
  <2> QED BY <1>4, <2>4, <2>5 DEF RunsMeasured, LengthOf
<1>9. GroundMeasured'
  <2> DEFINE B == SumTo(BorderCount, i - 1)
             c == BorderCount[i]
             D == Distance(unknownLength, Scale * SumTo(UnknownGround, i))
  <2>1. 2 * D <= Scale * SampleStep * B
    BY <1>1, <1>2, <1>6 DEF PlanInv, GroundMeasured, NearGround
  <2>2. unknownLength \in Nat /\ Scale * SumTo(UnknownGround, i) \in Int
    BY <1>1, <1>6, PathBudgetAssumption DEF PlanTypeOK
  <2>3. D \in Int
    BY <2>2 DEF Distance
  <2>4. B \in Int /\ c \in Nat
    BY <1>5, <1>6
  <2> HIDE DEF B, c, D
  <2>5. 2 * D <= Scale * SampleStep * (B + c)
    <3>1. Scale * SampleStep * (B + c) = Scale * SampleStep * B + Scale * SampleStep * c
          /\ Scale * SampleStep * c >= 0 /\ Scale * SampleStep * B \in Int /\ Scale * SampleStep * c \in Int
      BY <2>4, PathBudgetAssumption
    <3> QED BY <2>1, <2>3, <3>1
  <2>6. 2 * Distance(unknownLength', Scale * SumTo(UnknownGround', i' - 1))
          <= Scale * SampleStep * SumTo(BorderCount', i' - 1)
    BY <1>1, <1>2, <1>6, <2>5, SamePath DEF B, c, D
  <2> QED BY <1>1, <1>2, <2>6 DEF GroundMeasured, NearGround, SumTo
<1> QED BY <1>3, <1>7, <1>8, <1>9

\* The next sample is one of the segment, or of the next segment.
LEMMA MeasureSampleCursor ==
  ASSUME PlanInv, MeasureSample
  PROVE CursorOK'
<1> DEFINE n == Samples(Distance(path[i - 1], path[i]))
<1>1. /\ i \in Segments /\ sample < n /\ n \in Nat /\ path[i] # path[i - 1]
      /\ sample \in Nat /\ Len(path) \in Nat /\ i \in Nat /\ path' = path
  BY CursorAtSample DEF PlanInv, PlanTypeOK, MeasureSample
<1>2. CASE sample + 1 = n
  <2>1. i' = i + 1 /\ sample' = 0
    BY <1>2 DEF MeasureSample, NextPose
  <2> QED BY <1>1, <2>1 DEF CursorOK, Segments
<1>3. CASE sample + 1 # n
  <2>1. i' = i /\ sample' = sample + 1
    BY <1>3 DEF MeasureSample
  <2>2. sample' < n
    BY <1>1, <1>3, <2>1
  <2> QED BY <1>1, <2>1, <2>2 DEF CursorOK, Segments
<1> QED BY <1>2, <1>3

\* The sums over the ground are numbers.
LEMMA GroundSums ==
  ASSUME PlanTypeOK
  PROVE TrueLength \in Int /\ TrueUnknown \in Int /\ SumFunction(BorderCount) \in Int
<1>1. IsFiniteSet(Segments)
  BY FS_Interval DEF Segments, PlanTypeOK
<1>2. /\ DOMAIN GroundLength = Segments /\ DOMAIN UnknownGround = Segments
      /\ DOMAIN BorderCount = Segments
  BY DEF GroundLength, UnknownGround, BorderCount
<1>3. \A k \in Segments: GroundLength[k] \in Int /\ UnknownGround[k] \in Int /\ BorderCount[k] \in Int
  <2> TAKE k \in Segments
  <2>1. /\ GroundLength[k] = Distance(path[k - 1], path[k])
        /\ Distance(path[k - 1], path[k]) \in Nat
        /\ UnknownGround[k] \in Nat /\ BorderCount[k] \in Nat
    BY GroundOfSegment
  <2> QED BY <2>1
<1> QED BY <1>1, <1>2, <1>3, SumRemove DEF TrueLength, TrueUnknown, SumFunction

\* At the end of the path every sample has been passed.
LEMMA PathMeasured ==
  ASSUME PlanInv, phase = "measure", i > Len(path)
  PROVE /\ Passed = Sampled
        /\ pathLength = Scale * TrueLength
        /\ unknownLength = LengthOf({p \in Sampled: Gap(p)})
        /\ NearGround(unknownLength, Len(path)) /\ Segments = 2..Len(path)
<1>1. PlanTypeOK /\ CursorOK /\ LengthsMeasured /\ GroundMeasured
  BY DEF PlanInv
<1>2. Len(path) \in Nat /\ i = Len(path) + 1 /\ sample = 0 /\ i - 1 = Len(path)
  BY <1>1 DEF PlanTypeOK, CursorOK, Segments
<1>3. Passed = Sampled
  <2>1. \A p \in Sampled: p[1] < i
    <3> TAKE p \in Sampled
    <3>1. p \in (2..Len(path)) \X (0..MaxSegment)
      BY DEF Sampled, Segments
    <3> QED BY <1>2, <3>1
  <2> QED BY <2>1 DEF Passed
<1>4. DOMAIN GroundLength = 2..Len(path)
  BY DEF GroundLength, Segments
<1>5. pathLength = Scale * TrueLength
  BY <1>1, <1>2, <1>4 DEF LengthsMeasured, SumTo, TrueLength, SumFunction
<1> QED BY <1>1, <1>2, <1>3, <1>5 DEF LengthsMeasured, GroundMeasured, Segments

\* The path handed on is within the limits: all its samples have been passed.
LEMMA DecideBounded ==
  ASSUME PlanInv, Decide
  PROVE FallbackIsBounded'
<1>1. SUFFICES ASSUME answer' = "fallback" PROVE FallbackIsBounded'
  BY DEF FallbackIsBounded
<1>2. UNCHANGED <<unknown, path>> /\ phase = "measure" /\ i > Len(path) /\ PlanTypeOK
  BY DEF Decide, PlanInv
<1>3. /\ unknownLength <= MaxUnknownLength /\ maxRun <= MaxUnknownRun
      /\ 100 * unknownLength <= MaxRatioPercent * pathLength
  BY <1>1 DEF Decide, Finish, WithinUnknownBudget, WithinLengths
<1> DEFINE G == {p \in Sampled: Gap(p)}
<1>4. Passed = Sampled /\ pathLength = Scale * TrueLength /\ unknownLength = LengthOf(G)
  BY <1>2, PathMeasured
<1>5. \A p, q \in Sampled: (\A r \in Stretch(p, q): Gap(r)) => LengthOf(Stretch(p, q)) <= MaxUnknownRun
  <2> SUFFICES ASSUME NEW p \in Sampled, NEW q \in Sampled, \A r \in Stretch(p, q): Gap(r)
               PROVE LengthOf(Stretch(p, q)) <= MaxUnknownRun
    OBVIOUS
  <2>1. LengthOf(Stretch(p, q)) <= maxRun
    BY <1>2, <1>4 DEF PlanInv, RunsMeasured
  <2>2. LengthOf(Stretch(p, q)) \in Int
    <3>1. Stretch(p, q) \in SUBSET Sampled
      BY DEF Stretch
    <3> QED BY <3>1, LengthInt DEF PlanInv
  <2> QED BY <1>2, <1>3, <2>1, <2>2, PathBudgetAssumption DEF PlanTypeOK
<1>6. LengthOf(G) <= MaxUnknownLength
  BY <1>3, <1>4
<1>7. 100 * LengthOf(G) <= MaxRatioPercent * Scale * TrueLength
  <2>1. TrueLength \in Int
    BY <1>2, GroundSums
  <2>2. MaxRatioPercent * (Scale * TrueLength) = MaxRatioPercent * Scale * TrueLength
    BY <2>1, PathBudgetAssumption
  <2> QED BY <1>3, <1>4, <2>2
<1>8. {p \in Sampled': Gap(p)'} = G
  BY <1>2, SamePath
<1>9. TrueLength' = TrueLength
  BY <1>2, SamePath DEF TrueLength
<1> HIDE DEF G
<1>10. \A p, q \in Sampled': (\A r \in Stretch(p, q)': Gap(r)')
                               => SumFunctionOnSet(Weight', Stretch(p, q)') <= MaxUnknownRun
  BY <1>2, <1>5, SamePath DEF LengthOf
<1>11. /\ SumFunctionOnSet(Weight', {p \in Sampled': Gap(p)'}) <= MaxUnknownLength
       /\ 100 * SumFunctionOnSet(Weight', {p \in Sampled': Gap(p)'}) <= MaxRatioPercent * Scale * TrueLength'
  BY <1>2, <1>6, <1>7, <1>8, <1>9, SamePath DEF LengthOf
<1> QED BY <1>10, <1>11 DEF FallbackIsBounded, LengthOf

\* Every step keeps the invariant.
LEMMA PlanStep == PlanInv /\ [PlanNext]_planVars => PlanInv'
<1> SUFFICES ASSUME PlanInv, [PlanNext]_planVars PROVE PlanInv'
  OBVIOUS
<1>1. CASE RejectGoal \/ PlanToUnknown \/ PlanKnown \/ PlanFallback \/ \E x \in Positions: NavfnPose(x)
  <2>1. PlanTypeOK'
    BY <1>1, PlanTypeStep DEF PlanNext
  <2>2. StagesOK' /\ phase' # "measure" /\ answer' # "fallback"
    BY <1>1, PlanningStep
  <2> QED BY <2>1, <2>2 DEF PlanInv, CursorOK, LengthsMeasured, RunsMeasured, GroundMeasured,
                            FallbackIsBounded
<1>2. CASE FallbackPath
  <2>1. PlanTypeOK'
    BY <1>2, PlanTypeStep DEF PlanNext
  <2>2. StagesOK' /\ CursorOK' /\ LengthsMeasured' /\ RunsMeasured' /\ GroundMeasured'
    BY <1>2, FallbackPathStep
  <2>3. answer' # "fallback"
    BY <1>2 DEF FallbackPath, Finish, PlanInv, StagesOK
  <2> QED BY <2>1, <2>2, <2>3 DEF PlanInv, FallbackIsBounded
<1>3. CASE SkipSegment
  <2>1. PlanTypeOK'
    BY <1>3, PlanTypeStep DEF PlanNext
  <2>2. CursorOK' /\ LengthsMeasured' /\ RunsMeasured' /\ GroundMeasured'
    BY <1>3, SkipSegmentStep
  <2>3. StagesOK' /\ answer' # "fallback"
    BY <1>3 DEF SkipSegment, PlanInv, StagesOK, Segments
  <2> QED BY <2>1, <2>2, <2>3 DEF PlanInv, FallbackIsBounded
<1>4. CASE MeasureSample
  <2>1. PlanTypeOK'
    BY <1>4, PlanTypeStep DEF PlanNext
  <2>2. CursorOK' /\ LengthsMeasured' /\ RunsMeasured' /\ GroundMeasured'
    BY <1>4, MeasureSampleCursor, MeasureLengths, MeasureRuns, MeasureGround
  <2>3. StagesOK' /\ answer' # "fallback"
    BY <1>4 DEF MeasureSample, PlanInv, StagesOK, Segments
  <2> QED BY <2>1, <2>2, <2>3 DEF PlanInv, FallbackIsBounded
<1>5. CASE Decide
  <2>1. PlanTypeOK'
    BY <1>5, PlanTypeStep DEF PlanNext
  <2>2. phase' = "done" /\ StagesOK'
    BY <1>5 DEF Decide, Finish, PlanInv, StagesOK, Segments
  <2>3. FallbackIsBounded'
    BY <1>5, DecideBounded
  <2> QED BY <2>1, <2>2, <2>3 DEF PlanInv, CursorOK, LengthsMeasured, RunsMeasured, GroundMeasured
<1>6. CASE UNCHANGED planVars
  <2>1. /\ UNCHANGED <<unknown, goal, phase, path, answer, i, sample>>
        /\ UNCHANGED <<pathLength, unknownLength, maxRun, run>>
    BY <1>6 DEF planVars, exposure
  <2>2. Passed' = Passed /\ \A p: Trail(p)' = Trail(p)
    BY <2>1, SamePath DEF Passed, Trail, Before
  <2>3. PlanTypeOK' /\ StagesOK' /\ CursorOK'
    BY <2>1 DEF PlanInv, PlanTypeOK, StagesOK, CursorOK, Segments, exposure
  <2>4. {p \in Passed': Gap(p)'} = {p \in Passed: Gap(p)}
        /\ {p \in Sampled': Gap(p)'} = {p \in Sampled: Gap(p)}
    BY <2>1, <2>2, SamePath
  <2>5. LengthsMeasured'
    BY <2>1, <2>2, <2>4, SamePath DEF PlanInv, LengthsMeasured, LengthOf, SumTo
  <2>6. RunsMeasured'
    BY <2>1, <2>2, SamePath DEF PlanInv, RunsMeasured, LengthOf
  <2>7. GroundMeasured'
    BY <2>1, SamePath DEF PlanInv, GroundMeasured, NearGround, SumTo, SamplesNear
  <2>8. FallbackIsBounded'
    <3>1. TrueLength' = TrueLength
      BY <2>1, SamePath DEF TrueLength
    <3> QED BY <2>1, <2>4, <3>1, SamePath DEF PlanInv, FallbackIsBounded, LengthOf
  <2> QED BY <2>3, <2>5, <2>6, <2>7, <2>8 DEF PlanInv
<1> QED BY <1>1, <1>2, <1>3, <1>4, <1>5, <1>6 DEF PlanNext

\* What createPlan and measureUnknownExposure know of the path at every step of
\* their loops: the sums over the samples passed, and how far they are from the
\* ground under them.
THEOREM PlanCorrect == PlanSpec => []PlanInv
<1>1. PlanInit => PlanInv
  BY PlanInitInv
<1>2. PlanInv /\ [PlanNext]_planVars => PlanInv'
  BY PlanStep
<1> QED BY <1>1, <1>2, PTL DEF PlanSpec

\* Whatever the path, the costmap and the sampling: a fallback path is handed on
\* only when its unknown stretches and their sum are within the limits.
THEOREM FallbackBounded == PlanSpec => []FallbackIsBounded
<1>1. PlanInv => FallbackIsBounded
  BY DEF PlanInv
<1> QED BY <1>1, PlanCorrect, PTL

\* The invariant at the end of the path.
LEMMA GroundAtTheEnd == PlanInv => MeasuresTheGround
<1> SUFFICES ASSUME PlanInv, phase = "measure", i > Len(path)
             PROVE /\ pathLength = Scale * TrueLength
                   /\ 2 * Distance(unknownLength, Scale * TrueUnknown)
                        <= Scale * SampleStep * SumFunction(BorderCount)
  BY DEF MeasuresTheGround
<1>1. /\ pathLength = Scale * TrueLength
      /\ NearGround(unknownLength, Len(path)) /\ Segments = 2..Len(path)
  BY PathMeasured
<1>2. DOMAIN UnknownGround = 2..Len(path) /\ DOMAIN BorderCount = 2..Len(path)
  BY <1>1 DEF UnknownGround, BorderCount
<1> QED BY <1>1, <1>2 DEF NearGround, SumTo, TrueUnknown, SumFunction

\* Whatever the path, the costmap and the sampling: what the loop has added up
\* at the end of the path is its length, and its unknown length but for half a
\* sample step at each border of cells.
THEOREM GroundIsMeasured == PlanSpec => []MeasuresTheGround
BY GroundAtTheEnd, PlanCorrect, PTL

\* So no fallback path crosses more unknown ground than the budgets allow and
\* the error above: what max_unknown_length and max_unknown_ratio promise is about
\* the ground, not about samples.
UnknownGroundIsBounded ==
  answer = "fallback" =>
    LET error == Scale * SampleStep * SumFunction(BorderCount) IN
    /\ 2 * Scale * TrueUnknown <= 2 * MaxUnknownLength + error
    /\ 200 * Scale * TrueUnknown <= 2 * MaxRatioPercent * Scale * TrueLength + 100 * error

\* At the end of the path, half a sample step at each border is all that the
\* budgets can miss.
LEMMA DecideOnGround ==
  ASSUME PlanInv, Decide, answer' = "fallback"
  PROVE  UnknownGroundIsBounded'
<1> DEFINE u == unknownLength
           t == Scale * TrueUnknown
           p == Scale * TrueLength
           e == Scale * SampleStep * SumFunction(BorderCount)
<1>1. /\ PlanTypeOK /\ UNCHANGED <<unknown, path>>
      /\ phase = "measure" /\ i > Len(path) /\ WithinUnknownBudget
  BY DEF Decide, Finish, PlanInv
<1>2. u \in Int /\ t \in Int /\ p \in Int /\ e \in Int
  <2>1. Scale \in Int /\ SampleStep \in Int
    BY PathBudgetAssumption
  <2> QED BY <1>1, <2>1, GroundSums DEF PlanTypeOK
<1>3. pathLength = p /\ 2 * Distance(u, t) <= e
  BY <1>1, GroundAtTheEnd DEF MeasuresTheGround
<1>4. u <= MaxUnknownLength /\ 100 * u <= MaxRatioPercent * p
  BY <1>1, <1>3 DEF WithinUnknownBudget, WithinLengths
<1> HIDE DEF u, t, p, e
<1>5. 2 * t <= 2 * u + e
  BY <1>2, <1>3 DEF Distance
<1>6. 2 * t <= 2 * MaxUnknownLength + e
  BY <1>2, <1>4, <1>5, PathBudgetAssumption
<1>7. 200 * t <= 2 * (MaxRatioPercent * p) + 100 * e
  <2>1. MaxRatioPercent * p \in Int
    BY <1>2, PathBudgetAssumption
  <2> QED BY <1>2, <1>4, <1>5, <2>1
<1>8. /\ 2 * t = 2 * Scale * TrueUnknown /\ 200 * t = 200 * Scale * TrueUnknown
      /\ 2 * (MaxRatioPercent * p) = 2 * MaxRatioPercent * Scale * TrueLength
  BY <1>1, GroundSums, PathBudgetAssumption DEF t, p
<1>9. /\ TrueUnknown' = TrueUnknown /\ TrueLength' = TrueLength
      /\ SumFunction(BorderCount)' = SumFunction(BorderCount)
  BY <1>1, SamePath DEF TrueUnknown, TrueLength
<1> QED BY <1>6, <1>7, <1>8, <1>9 DEF UnknownGroundIsBounded, e

\* Whatever the path, the costmap and the sampling: the controller gets no
\* fallback path over more unknown ground than the budgets and that error allow.
THEOREM UnknownGroundBounded == PlanSpec => []UnknownGroundIsBounded
<1>1. PlanInit => UnknownGroundIsBounded
  BY DEF PlanInit, UnknownGroundIsBounded
<1>2. PlanInv /\ UnknownGroundIsBounded /\ [PlanNext]_planVars => UnknownGroundIsBounded'
  <2> SUFFICES ASSUME PlanInv, UnknownGroundIsBounded, [PlanNext]_planVars, answer' = "fallback"
               PROVE  UnknownGroundIsBounded'
    BY DEF UnknownGroundIsBounded
  <2>1. CASE Decide
    BY <2>1, DecideOnGround
  <2>2. CASE UNCHANGED planVars
    <3>1. UNCHANGED <<unknown, path>> /\ answer = "fallback"
      BY <2>2 DEF planVars
    <3>2. /\ TrueUnknown' = TrueUnknown /\ TrueLength' = TrueLength
          /\ SumFunction(BorderCount)' = SumFunction(BorderCount)
      BY <3>1, SamePath DEF TrueUnknown, TrueLength
    <3> QED BY <3>1, <3>2 DEF UnknownGroundIsBounded
  <2>3. CASE PlanNext /\ ~Decide
    <3>1. phase # "done" => answer # "fallback"
      BY DEF PlanInv, StagesOK
    <3> QED BY <2>3, <3>1 DEF PlanNext, RejectGoal, PlanToUnknown, PlanKnown, PlanFallback, NavfnPose,
                              FallbackPath, SkipSegment, MeasureSample, Finish
  <2> QED BY <2>1, <2>2, <2>3
<1> QED BY <1>1, <1>2, PlanCorrect, PTL DEF PlanSpec
=============================================================================
