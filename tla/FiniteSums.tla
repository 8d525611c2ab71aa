------------------------------ MODULE FiniteSums ------------------------------
(***************************************************************************)
(* Lemmas about SumFunction of the community modules, which adds up the    *)
(* values of a function in an unspecified order: it is linear, and the     *)
(* squares of the distances of numbers from one of them add up to a        *)
(* positive number.  The library's induction theorems take a predicate as  *)
(* a parameter; here an induction is over the set of the numbers, or of    *)
(* the sets, of which something holds.                                     *)
(***************************************************************************)
EXTENDS FiniteSetsExt, FiniteSetTheorems, WellFoundedInduction, TLAPS

(***************************************************************************)
(* Induction.                                                              *)
(***************************************************************************)

(* Of some subsets of a finite set, one contains no other. *)
LEMMA Smallest ==
    ASSUME NEW S, IsFiniteSet(S), NEW Bad \in SUBSET SUBSET S, Bad # {}
    PROVE  \E T \in Bad : \A U \in Bad : U \subseteq T => U = T
<1>1. IsWellFoundedOn(StrictSubsetOrdering(S), SUBSET S)
  BY FS_StrictSubsetOrderingWellFounded, FS_FiniteSubsetsOfFinite
<1>2. \E T \in Bad : \A U \in Bad : ~ (<<U, T>> \in StrictSubsetOrdering(S))
  BY <1>1, WFMin
<1> QED
  BY <1>2 DEF StrictSubsetOrdering

(* The member that a sum takes first. *)
First(T) == CHOOSE x \in T : TRUE

LEMMA FirstIn ==
    ASSUME NEW T, T # {}
    PROVE  First(T) \in T
BY DEF First

(* What holds of the empty set, and of a set if of the set without its     *)
(* first member, holds of every subset of a finite set.                    *)
LEMMA Sets ==
    ASSUME NEW S, IsFiniteSet(S), NEW Good \in SUBSET SUBSET S, {} \in Good,
           \A T \in SUBSET S : T # {} /\ T \ {First(T)} \in Good => T \in Good
    PROVE  Good = SUBSET S
<1> DEFINE Bad == (SUBSET S) \ Good
<1> SUFFICES ASSUME Bad # {} PROVE FALSE
  OBVIOUS
<1>1. PICK T \in Bad : \A U \in Bad : U \subseteq T => U = T
  <2> HIDE DEF Bad
  <2>1. Bad \in SUBSET SUBSET S
    BY DEF Bad
  <2> QED
    BY <2>1, Smallest
<1>2. T # {} /\ First(T) \in T
  BY FirstIn
<1>3. T \ {First(T)} \in SUBSET S /\ T \ {First(T)} # T
  BY <1>2
<1>4. T \ {First(T)} \in Good
  BY <1>1, <1>3
<1> QED
  BY <1>2, <1>4

(* What holds of 0, and of n + 1 if of n, holds of all natural numbers. *)
LEMMA Numbers ==
    ASSUME NEW Good \in SUBSET Nat, 0 \in Good, \A n \in Good : n + 1 \in Good
    PROVE  Good = Nat
<1> SUFFICES ASSUME NEW m \in Nat, m \notin Good PROVE FALSE
  OBVIOUS
<1> DEFINE Bad == {0..k : k \in (0..m) \ Good}
<1>1. PICK T \in Bad : \A U \in Bad : U \subseteq T => U = T
  <2>1. Bad \in SUBSET SUBSET (0..m) /\ Bad # {}
    <3>1. \A k \in 0..m : 0..k \in SUBSET (0..m)
      OBVIOUS
    <3>2. m \in (0..m) \ Good
      OBVIOUS
    <3> QED
      BY <3>1, <3>2
  <2> DEFINE M == 0..m
  <2>2. IsFiniteSet(M) /\ Bad \in SUBSET SUBSET M /\ Bad # {}
    BY <2>1, FS_Interval
  <2> HIDE DEF Bad, M
  <2> QED
    BY <2>2, Smallest
<1>2. PICK k \in (0..m) \ Good : T = 0..k
  OBVIOUS
<1>3. k # 0 /\ k - 1 \in 0..m /\ k - 1 \notin Good
  BY <1>2
<1>4. 0..(k - 1) \in Bad /\ 0..(k - 1) \subseteq T
  BY <1>2, <1>3
<1>5. k \in 0..k /\ k \notin 0..(k - 1)
  OBVIOUS
<1> QED
  BY <1>1, <1>2, <1>4, <1>5

(***************************************************************************)
(* The partial sums of f, as FoldFunctionOnSet has them.                   *)
(***************************************************************************)
Step(f, g, T) == IF T = {} THEN 0 ELSE f[First(T)] + g[T \ {First(T)}]

Partial(f, S) == CHOOSE g : g = [T \in SUBSET S |-> Step(f, g, T)]

LEMMA SumIsPartial ==
    ASSUME NEW f
    PROVE  SumFunction(f) = Partial(f, DOMAIN f)[DOMAIN f]
BY DEF SumFunction, SumFunctionOnSet, FoldFunctionOnSet, MapThenFoldSet, Partial, Step, First

(* There is a function of the partial sums. *)
LEMMA PartialExists ==
    ASSUME NEW S, IsFiniteSet(S), NEW f
    PROVE  \E g : g = [T \in SUBSET S |-> Step(f, g, T)]
<1> DEFINE Upto(n) == {T \in SUBSET S : Cardinality(T) <= n}
           Good == {n \in Nat : \E g : g = [T \in Upto(n) |-> Step(f, g, T)]}
<1>1. ASSUME NEW T \in SUBSET S
      PROVE  /\ Cardinality(T) \in Nat /\ (Cardinality(T) = 0 <=> T = {})
             /\ Cardinality(T) <= Cardinality(S)
             /\ T # {} => /\ T \ {First(T)} \in SUBSET S
                          /\ Cardinality(T \ {First(T)}) = Cardinality(T) - 1
  <2>1. IsFiniteSet(T)
    BY FS_Subset
  <2>2. Cardinality(T) \in Nat /\ (Cardinality(T) = 0 <=> T = {})
    BY <2>1, FS_CardinalityType, FS_EmptySet
  <2>3. T # {} => Cardinality(T \ {First(T)}) = Cardinality(T) - 1
    BY <2>1, FirstIn, FS_RemoveElement
  <2> QED
    BY <2>2, <2>3, FS_Subset
<1>2. 0 \in Good
  <2> DEFINE g == [T \in Upto(0) |-> 0]
  <2>1. g = [T \in Upto(0) |-> Step(f, g, T)]
    <3>1. \A T \in Upto(0) : Step(f, g, T) = 0
      BY <1>1 DEF Step
    <3> QED
      BY <3>1
  <2> QED
    BY <2>1
<1>3. ASSUME NEW n \in Good PROVE n + 1 \in Good
  <2>1. PICK g : g = [T \in Upto(n) |-> Step(f, g, T)]
    OBVIOUS
  <2> DEFINE h == [T \in Upto(n + 1) |-> Step(f, g, T)]
  <2>2. ASSUME NEW T \in Upto(n + 1) PROVE Step(f, h, T) = Step(f, g, T)
    <3>1. CASE T = {}
      BY <3>1 DEF Step
    <3>2. CASE T # {}
      <4>1. T \ {First(T)} \in Upto(n) /\ T \ {First(T)} \in Upto(n + 1)
        BY <1>1, <3>2
      <4>2. h[T \ {First(T)}] = g[T \ {First(T)}]
        BY <2>1, <4>1
      <4> QED
        BY <3>2, <4>2 DEF Step
    <3> QED
      BY <3>1, <3>2
  <2>3. h = [T \in Upto(n + 1) |-> Step(f, h, T)]
    BY <2>2
  <2> HIDE DEF h, Upto
  <2>4. \E e : e = [T \in Upto(n + 1) |-> Step(f, e, T)]
    BY <2>3
  <2> QED
    BY <2>4
<1>4. Good = Nat
  <2> HIDE DEF Good
  <2>1. Good \in SUBSET Nat
    BY DEF Good
  <2> QED
    BY <1>2, <1>3, <2>1, Numbers
<1>5. Cardinality(S) \in Nat
  BY FS_CardinalityType
<1>6. Upto(Cardinality(S)) = SUBSET S
  BY <1>1
<1>7. PICK g : g = [T \in Upto(Cardinality(S)) |-> Step(f, g, T)]
  BY <1>4, <1>5
<1>8. g = [T \in SUBSET S |-> Step(f, g, T)]
  BY <1>6, <1>7
<1> HIDE DEF Upto
<1> QED
  BY <1>8

LEMMA PartialUnfolds ==
    ASSUME NEW S, IsFiniteSet(S), NEW f, NEW T \in SUBSET S
    PROVE  Partial(f, S)[T] = Step(f, Partial(f, S), T)
<1>1. Partial(f, S) = [U \in SUBSET S |-> Step(f, Partial(f, S), U)]
  BY PartialExists DEF Partial
<1> QED
  BY <1>1

LEMMA PartialOfNone ==
    ASSUME NEW S, IsFiniteSet(S), NEW f
    PROVE  Partial(f, S)[{}] = 0
BY PartialUnfolds DEF Step

LEMMA PartialOfMore ==
    ASSUME NEW S, IsFiniteSet(S), NEW f, NEW T \in SUBSET S, T # {}
    PROVE  /\ First(T) \in S /\ T \ {First(T)} \in SUBSET S
           /\ Partial(f, S)[T] = f[First(T)] + Partial(f, S)[T \ {First(T)}]
<1>1. First(T) \in S
  BY FirstIn
<1>2. Partial(f, S)[T] = Step(f, Partial(f, S), T)
  BY PartialUnfolds
<1> QED
  BY <1>1, <1>2 DEF Step

(***************************************************************************)
(* Sums of integers.                                                       *)
(***************************************************************************)
LEMMA PartialType ==
    ASSUME NEW S, IsFiniteSet(S), NEW f \in [S -> Int], NEW T \in SUBSET S
    PROVE  Partial(f, S)[T] \in Int
<1> DEFINE Good == {U \in SUBSET S : Partial(f, S)[U] \in Int}
<1>1. {} \in Good
  BY PartialOfNone
<1>2. ASSUME NEW U \in SUBSET S, U # {}, U \ {First(U)} \in Good PROVE U \in Good
  <2>1. First(U) \in S
    BY <1>2, FirstIn
  <2>2. f[First(U)] \in Int /\ Partial(f, S)[U \ {First(U)}] \in Int
    BY <1>2, <2>1
  <2>3. ASSUME NEW e PROVE Partial(e, S)[U] = e[First(U)] + Partial(e, S)[U \ {First(U)}]
    BY <1>2, PartialOfMore
  <2>4. Partial(f, S)[U] = f[First(U)] + Partial(f, S)[U \ {First(U)}]
    BY <2>3
  <2> QED
    BY <2>2, <2>4
<1>3. Good = SUBSET S
  <2> HIDE DEF Good
  <2>1. Good \in SUBSET SUBSET S
    BY DEF Good
  <2> QED
    BY <1>1, <1>2, <2>1, Sets
<1> QED
  BY <1>3

LEMMA SumType ==
    ASSUME NEW S, IsFiniteSet(S), NEW f \in [S -> Int]
    PROVE  SumFunction(f) \in Int
BY SumIsPartial, PartialType

LEMMA Distribute ==
    ASSUME NEW a \in Int, NEW b \in Int, NEW c \in Int,
           NEW u \in Int, NEW v \in Int, NEW w \in Int,
           NEW p \in Int, NEW q \in Int, NEW r \in Int
    PROVE  (a * u + b * v + c * w) + (a * p + b * q + c * r)
              = a * (u + p) + b * (v + q) + c * (w + r)
OBVIOUS

(* On a finite set, h is a linear combination of f, g and k. *)
Combines(S, h, a, f, b, g, c, k) ==
    /\ IsFiniteSet(S) /\ a \in Int /\ b \in Int /\ c \in Int
    /\ f \in [S -> Int] /\ g \in [S -> Int] /\ k \in [S -> Int] /\ h \in [S -> Int]
    /\ \A i \in S : h[i] = a * f[i] + b * g[i] + c * k[i]

(* A sum is linear. *)
LEMMA PartialLinear ==
    ASSUME NEW S, NEW h, NEW a, NEW f, NEW b, NEW g, NEW c, NEW k,
           Combines(S, h, a, f, b, g, c, k), NEW T \in SUBSET S
    PROVE  Partial(h, S)[T]
              = a * Partial(f, S)[T] + b * Partial(g, S)[T] + c * Partial(k, S)[T]
<1> DEFINE Linear(U) ==
      Partial(h, S)[U] = a * Partial(f, S)[U] + b * Partial(g, S)[U] + c * Partial(k, S)[U]
           Good == {U \in SUBSET S : Linear(U)}
<1>0. /\ IsFiniteSet(S) /\ a \in Int /\ b \in Int /\ c \in Int
      /\ f \in [S -> Int] /\ g \in [S -> Int] /\ k \in [S -> Int] /\ h \in [S -> Int]
  BY DEF Combines
<1>1. {} \in Good
  <2>1. \A e : Partial(e, S)[{}] = 0
    BY <1>0, PartialOfNone
  <2> QED
    BY <1>0, <2>1
<1>2. ASSUME NEW U \in SUBSET S, U # {}, U \ {First(U)} \in Good PROVE U \in Good
  <2> DEFINE i == First(U)
             V == U \ {i}
  <2>1. i \in S /\ V \in SUBSET S
    BY <1>0, <1>2, PartialOfMore
  <2>2. ASSUME NEW e PROVE Partial(e, S)[U] = e[i] + Partial(e, S)[V]
    BY <1>0, <1>2, PartialOfMore
  <2>3. /\ f[i] \in Int /\ g[i] \in Int /\ k[i] \in Int
        /\ Partial(f, S)[V] \in Int /\ Partial(g, S)[V] \in Int /\ Partial(k, S)[V] \in Int
    BY <1>0, <2>1, PartialType
  <2>4. h[i] = a * f[i] + b * g[i] + c * k[i] /\ Linear(V)
    BY <1>2, <2>1 DEF Combines
  <2> HIDE DEF i, V
  <2>5. Linear(U)
    BY <1>0, <2>2, <2>3, <2>4, Distribute
  <2> QED
    BY <2>5
<1>3. Good = SUBSET S
  <2> HIDE DEF Good
  <2>1. Good \in SUBSET SUBSET S
    BY DEF Good
  <2> QED
    BY <1>0, <1>1, <1>2, <2>1, Sets
<1> QED
  BY <1>3

LEMMA SumLinear ==
    ASSUME NEW S, NEW h, NEW a, NEW f, NEW b, NEW g, NEW c, NEW k,
           Combines(S, h, a, f, b, g, c, k)
    PROVE  SumFunction(h) = a * SumFunction(f) + b * SumFunction(g) + c * SumFunction(k)
<1>1. ASSUME NEW T \in SUBSET S
      PROVE  Partial(h, S)[T]
                = a * Partial(f, S)[T] + b * Partial(g, S)[T] + c * Partial(k, S)[T]
  BY PartialLinear
<1>2. DOMAIN f = S /\ DOMAIN g = S /\ DOMAIN k = S /\ DOMAIN h = S
  BY DEF Combines
<1> QED
  BY <1>1, <1>2, SumIsPartial

(* A sum of ones counts. *)
LEMMA PartialOfOnes ==
    ASSUME NEW S, IsFiniteSet(S), NEW T \in SUBSET S
    PROVE  Partial([i \in S |-> 1], S)[T] = Cardinality(T)
<1> DEFINE one == [i \in S |-> 1]
           Good == {U \in SUBSET S : Partial(one, S)[U] = Cardinality(U)}
<1>1. {} \in Good
  BY PartialOfNone, FS_EmptySet
<1>2. ASSUME NEW U \in SUBSET S, U # {}, U \ {First(U)} \in Good PROVE U \in Good
  <2>1. IsFiniteSet(U) /\ Cardinality(U) \in Nat
    BY FS_Subset, FS_CardinalityType
  <2>2. Cardinality(U \ {First(U)}) = Cardinality(U) - 1
    BY <1>2, <2>1, FirstIn, FS_RemoveElement
  <2>3. Partial(one, S)[U] = one[First(U)] + Partial(one, S)[U \ {First(U)}]
    <3> HIDE DEF one
    <3> QED
      BY <1>2, PartialOfMore
  <2>4. one[First(U)] = 1
    BY <1>2, PartialOfMore
  <2> HIDE DEF one
  <2> QED
    BY <1>2, <2>1, <2>2, <2>3, <2>4
<1>3. Good = SUBSET S
  <2> HIDE DEF Good
  <2>1. Good \in SUBSET SUBSET S
    BY DEF Good
  <2> QED
    BY <1>1, <1>2, <2>1, Sets
<1> HIDE DEF one
<1>4. Partial(one, S)[T] = Cardinality(T)
  BY <1>3
<1> QED
  BY <1>4 DEF one

(***************************************************************************)
(* How far numbers are spread.                                             *)
(***************************************************************************)

(* A sum of positive numbers is positive. *)
LEMMA PartialPositive ==
    ASSUME NEW S, IsFiniteSet(S), NEW f \in [S -> Int], NEW T \in SUBSET S, T # {},
           \A i \in T : f[i] > 0
    PROVE  Partial(f, S)[T] > 0
<1> DEFINE Good == {U \in SUBSET S : (\A i \in U : f[i] > 0) /\ U # {} => Partial(f, S)[U] > 0}
<1>1. {} \in Good
  OBVIOUS
<1>2. ASSUME NEW U \in SUBSET S, U # {}, U \ {First(U)} \in Good, \A i \in U : f[i] > 0
      PROVE  Partial(f, S)[U] > 0
  <2> DEFINE V == U \ {First(U)}
  <2>1. First(U) \in U /\ V \in SUBSET S
    BY <1>2, FirstIn
  <2>2. ASSUME NEW e PROVE Partial(e, S)[U] = e[First(U)] + Partial(e, S)[V]
    BY <1>2, PartialOfMore
  <2>3. Partial(f, S)[U] = f[First(U)] + Partial(f, S)[V]
    BY <2>2
  <2>4. f[First(U)] \in Int /\ f[First(U)] > 0
    BY <1>2, <2>1
  <2>5. Partial(f, S)[V] \in Int /\ Partial(f, S)[V] >= 0
    <3>1. CASE V = {}
      BY <3>1, PartialOfNone
    <3>2. CASE V # {}
      BY <1>2, <2>1, <3>2, PartialType
    <3> QED
      BY <3>1, <3>2
  <2> QED
    BY <2>3, <2>4, <2>5
<1>3. Good = SUBSET S
  <2>1. \A U \in SUBSET S : U # {} /\ U \ {First(U)} \in Good => U \in Good
    BY <1>2
  <2> HIDE DEF Good
  <2>2. Good \in SUBSET SUBSET S
    BY DEF Good
  <2> QED
    BY <1>1, <2>1, <2>2, Sets
<1> QED
  BY <1>3

LEMMA SquarePositive ==
    ASSUME NEW d \in Int, d # 0
    PROVE  d * d > 0
OBVIOUS

(* x and its squares. *)
Squares(S, x, q) ==
    /\ IsFiniteSet(S) /\ x \in [S -> Int] /\ q \in [S -> Int]
    /\ \A i \in S : q[i] = x[i] * x[i]

(* The squares of the distances from a number that is none of them. *)
LEMMA Distances ==
    ASSUME NEW S, NEW x, NEW q, Squares(S, x, q), NEW T \in SUBSET S, T # {},
           NEW z \in Int, \A i \in T : x[i] # z
    PROVE  Partial(q, S)[T] - (2 * z) * Partial(x, S)[T] + (z * z) * Cardinality(T) > 0
<1> DEFINE one == [i \in S |-> 1]
           far == [i \in S |-> (x[i] - z) * (x[i] - z)]
<1>0. IsFiniteSet(S) /\ x \in [S -> Int] /\ q \in [S -> Int]
  BY DEF Squares
<1>1. one \in [S -> Int] /\ far \in [S -> Int]
  BY <1>0
<1>2. ASSUME NEW i \in S PROVE far[i] = 1 * q[i] + (-(2 * z)) * x[i] + (z * z) * one[i]
  <2>1. q[i] = x[i] * x[i] /\ x[i] \in Int
    BY <1>0 DEF Squares
  <2>2. ASSUME NEW y \in Int
        PROVE  (y - z) * (y - z) = 1 * (y * y) + (-(2 * z)) * y + (z * z) * 1
    OBVIOUS
  <2> QED
    BY <2>1, <2>2
<1>3. ASSUME NEW i \in T PROVE far[i] > 0
  <2>1. x[i] - z \in Int /\ x[i] - z # 0
    BY <1>0
  <2> QED
    BY <2>1, SquarePositive
<1>4. Partial(one, S)[T] = Cardinality(T)
  BY <1>0, PartialOfOnes
<1> HIDE DEF one, far
<1>5. Combines(S, far, 1, q, -(2 * z), x, z * z, one)
  BY <1>0, <1>1, <1>2 DEF Combines
<1>6. Partial(far, S)[T]
         = 1 * Partial(q, S)[T] + (-(2 * z)) * Partial(x, S)[T] + (z * z) * Partial(one, S)[T]
  BY <1>5, PartialLinear
<1>7. Partial(far, S)[T] > 0
  BY <1>0, <1>1, <1>3, PartialPositive
<1>8. /\ Partial(q, S)[T] \in Int /\ Partial(x, S)[T] \in Int /\ Cardinality(T) \in Int
  <2>1. IsFiniteSet(T)
    BY <1>0, FS_Subset
  <2> QED
    BY <1>0, <2>1, PartialType, FS_CardinalityType
<1> QED
  BY <1>4, <1>6, <1>7, <1>8

LEMMA OneMore ==
    ASSUME NEW n \in Int, NEW q \in Int, NEW p \in Int, NEW z \in Int
    PROVE  (n + 1) * (z * z + q) - (z + p) * (z + p)
              = (n * q - p * p) + (q - (2 * z) * p + (z * z) * n)
OBVIOUS

(* Different numbers are spread: n times the sum of their squares is more  *)
(* than the square of their sum, when there are at least two.              *)
LEMMA PartialSpread ==
    ASSUME NEW S, NEW x, NEW q, Squares(S, x, q), NEW T \in SUBSET S,
           \A i, j \in S : i # j => x[i] # x[j]
    PROVE  LET spread == Cardinality(T) * Partial(q, S)[T] - Partial(x, S)[T] * Partial(x, S)[T]
           IN  spread >= 0 /\ (Cardinality(T) >= 2 => spread > 0)
<1> DEFINE Spread(U) ==
      Cardinality(U) * Partial(q, S)[U] - Partial(x, S)[U] * Partial(x, S)[U]
           Spreads(U) == Spread(U) >= 0 /\ (Cardinality(U) >= 2 => Spread(U) > 0)
           Good == {U \in SUBSET S : Spreads(U)}
<1>0. IsFiniteSet(S) /\ x \in [S -> Int] /\ q \in [S -> Int]
  BY DEF Squares
<1>1. {} \in Good
  <2>1. Partial(q, S)[{}] = 0 /\ Partial(x, S)[{}] = 0 /\ Cardinality({}) = 0
    BY <1>0, PartialOfNone, FS_EmptySet
  <2>2. Spread({}) = 0
    BY <2>1
  <2> QED
    BY <2>1, <2>2
<1>2. ASSUME NEW U \in SUBSET S, U # {}, U \ {First(U)} \in Good PROVE U \in Good
  <2> DEFINE i == First(U)
             V == U \ {i}
             z == x[i]
             n == Cardinality(V)
             p == Partial(x, S)[V]
             r == Partial(q, S)[V]
  <2>1. i \in U /\ i \in S /\ V \in SUBSET S
    BY <1>2, FirstIn
  <2>2. ASSUME NEW e PROVE Partial(e, S)[U] = e[i] + Partial(e, S)[V]
    BY <1>0, <1>2, PartialOfMore
  <2>3. z \in Int /\ q[i] = z * z
    BY <1>0, <2>1 DEF Squares
  <2>4. n \in Nat /\ Cardinality(U) = n + 1 /\ (n = 0 => V = {})
    <3>1. IsFiniteSet(U) /\ IsFiniteSet(V)
      BY <1>0, <2>1, FS_Subset
    <3>2. Cardinality(V) \in Nat /\ Cardinality(U) \in Nat /\ (Cardinality(V) = 0 => V = {})
      BY <3>1, FS_CardinalityType, FS_EmptySet
    <3>3. Cardinality(V) = Cardinality(U) - 1
      BY <2>1, <3>1, FS_RemoveElement
    <3> QED
      BY <3>2, <3>3
  <2>5. p \in Int /\ r \in Int
    BY <1>0, <2>1, PartialType
  <2>6. Partial(x, S)[U] = z + p /\ Partial(q, S)[U] = z * z + r
    BY <2>2, <2>3
  <2>7. n * r - p * p >= 0
    BY <1>2
  <2>8. V # {} => r - (2 * z) * p + (z * z) * n > 0
    <3>1. \A j \in V : x[j] # z
      BY <2>1
    <3> HIDE DEF z, V
    <3> QED
      BY <2>1, <2>3, <3>1, Distances
  <2>9. V = {} => r = 0 /\ p = 0 /\ n = 0
    BY <1>0, PartialOfNone, FS_EmptySet
  <2> HIDE DEF i, V, z, n, p, r
  <2>10. Spread(U) = (n * r - p * p) + (r - (2 * z) * p + (z * z) * n)
    BY <2>3, <2>4, <2>5, <2>6, OneMore
  <2> DEFINE before == n * r - p * p
             more == r - (2 * z) * p + (z * z) * n
  <2>11. before \in Int /\ more \in Int
    BY <2>3, <2>4, <2>5
  <2>12. before >= 0 /\ (V # {} => more > 0) /\ (V = {} => more = 0 /\ n = 0)
    BY <2>3, <2>7, <2>8, <2>9
  <2>13. Spread(U) = before + more
    BY <2>10
  <2> HIDE DEF before, more, Spread
  <2>14. Spreads(U)
    BY <2>4, <2>11, <2>12, <2>13
  <2> QED
    BY <2>14
<1>3. Good = SUBSET S
  <2> HIDE DEF Good
  <2>1. Good \in SUBSET SUBSET S
    BY DEF Good
  <2> QED
    BY <1>0, <1>1, <1>2, <2>1, Sets
<1> HIDE DEF Spread
<1>4. Spreads(T)
  BY <1>3
<1> QED
  BY <1>4 DEF Spread

LEMMA SumSpread ==
    ASSUME NEW S, NEW x, NEW q, Squares(S, x, q), Cardinality(S) >= 2,
           \A i, j \in S : i # j => x[i] # x[j]
    PROVE  Cardinality(S) * SumFunction(q) - SumFunction(x) * SumFunction(x) > 0
<1>1. DOMAIN x = S /\ DOMAIN q = S
  BY DEF Squares
<1>2. ASSUME NEW T \in SUBSET S, Cardinality(T) >= 2
      PROVE  Cardinality(T) * Partial(q, S)[T] - Partial(x, S)[T] * Partial(x, S)[T] > 0
  BY <1>2, PartialSpread
<1>3. Cardinality(S) * Partial(q, S)[S] - Partial(x, S)[S] * Partial(x, S)[S] > 0
  BY <1>2
<1> QED
  BY <1>1, <1>3, SumIsPartial

LEMMA SumOfOnes ==
    ASSUME NEW S, IsFiniteSet(S)
    PROVE  SumFunction([i \in S |-> 1]) = Cardinality(S)
<1> DEFINE one == [i \in S |-> 1]
<1>1. DOMAIN one = S
  OBVIOUS
<1>2. Partial(one, S)[S] = Cardinality(S)
  BY PartialOfOnes
<1> HIDE DEF one
<1>3. SumFunction(one) = Cardinality(S)
  BY <1>1, <1>2, SumIsPartial
<1> QED
  BY <1>3 DEF one

(* A sum of zeros is zero. *)
LEMMA SumOfZeros ==
    ASSUME NEW S, IsFiniteSet(S), NEW f \in [S -> Int], \A i \in S : f[i] = 0
    PROVE  SumFunction(f) = 0
<1>1. Combines(S, f, 0, f, 0, f, 0, f)
  BY DEF Combines
<1>2. SumFunction(f) = 0 * SumFunction(f) + 0 * SumFunction(f) + 0 * SumFunction(f)
  BY <1>1, SumLinear
<1>3. SumFunction(f) \in Int
  BY SumType
<1> HIDE DEF Combines
<1> QED
  BY <1>2, <1>3

(* Two functions that differ at t only. *)
LEMMA PartialDiffers ==
    ASSUME NEW S, IsFiniteSet(S), NEW f \in [S -> Int], NEW g \in [S -> Int], NEW t \in S,
           \A i \in S \ {t} : g[i] = f[i], NEW T \in SUBSET S
    PROVE  Partial(g, S)[T] = Partial(f, S)[T] + (IF t \in T THEN g[t] - f[t] ELSE 0)
<1> DEFINE Good == {U \in SUBSET S :
                      Partial(g, S)[U] = Partial(f, S)[U] + (IF t \in U THEN g[t] - f[t] ELSE 0)}
<1>1. {} \in Good
  BY PartialOfNone
<1>2. ASSUME NEW U \in SUBSET S, U # {}, U \ {First(U)} \in Good PROVE U \in Good
  <2> DEFINE i == First(U)
             V == U \ {i}
  <2>1. i \in S /\ V \in SUBSET S /\ (t \in V <=> t \in U /\ t # i) /\ i \in U
    BY <1>2, PartialOfMore, FirstIn
  <2>2. ASSUME NEW e PROVE Partial(e, S)[U] = e[i] + Partial(e, S)[V]
    BY <1>2, PartialOfMore
  <2>3. f[i] \in Int /\ g[i] \in Int /\ f[t] \in Int /\ g[t] \in Int
    BY <2>1
  <2>4. Partial(f, S)[V] \in Int /\ Partial(g, S)[V] \in Int
    BY <2>1, PartialType
  <2>5. Partial(g, S)[V] = Partial(f, S)[V] + (IF t \in V THEN g[t] - f[t] ELSE 0)
    BY <1>2
  <2>6. i # t => g[i] = f[i]
    BY <2>1
  <2> HIDE DEF i, V
  <2>7. Partial(g, S)[U] = Partial(f, S)[U] + (IF t \in U THEN g[t] - f[t] ELSE 0)
    BY <2>1, <2>2, <2>3, <2>4, <2>5, <2>6
  <2> QED
    BY <2>7
<1>3. Good = SUBSET S
  <2> HIDE DEF Good
  <2>1. Good \in SUBSET SUBSET S
    BY DEF Good
  <2> QED
    BY <1>1, <1>2, <2>1, Sets
<1> QED
  BY <1>3

LEMMA SumDiffers ==
    ASSUME NEW S, IsFiniteSet(S), NEW f \in [S -> Int], NEW g \in [S -> Int], NEW t \in S,
           \A i \in S \ {t} : g[i] = f[i]
    PROVE  SumFunction(g) = SumFunction(f) + g[t] - f[t]
<1>1. Partial(g, S)[S] = Partial(f, S)[S] + (IF t \in S THEN g[t] - f[t] ELSE 0)
  BY PartialDiffers
<1>2. SumFunction(f) = Partial(f, S)[S] /\ SumFunction(g) = Partial(g, S)[S]
  BY SumIsPartial
<1>3. Partial(f, S)[S] \in Int /\ f[t] \in Int /\ g[t] \in Int
  BY PartialType
<1> QED
  BY <1>1, <1>2, <1>3

(* A sum of natural numbers is one. *)
LEMMA SumNatural ==
    ASSUME NEW S, IsFiniteSet(S), NEW f \in [S -> Int], \A i \in S : f[i] >= 0
    PROVE  SumFunction(f) \in Nat
<1> DEFINE Good == {U \in SUBSET S : Partial(f, S)[U] \in Nat}
<1>1. {} \in Good
  BY PartialOfNone
<1>2. ASSUME NEW U \in SUBSET S, U # {}, U \ {First(U)} \in Good PROVE U \in Good
  <2>1. First(U) \in S
    BY <1>2, FirstIn
  <2>2. f[First(U)] \in Nat /\ Partial(f, S)[U \ {First(U)}] \in Nat
    BY <1>2, <2>1
  <2>3. ASSUME NEW e PROVE Partial(e, S)[U] = e[First(U)] + Partial(e, S)[U \ {First(U)}]
    BY <1>2, PartialOfMore
  <2>4. Partial(f, S)[U] = f[First(U)] + Partial(f, S)[U \ {First(U)}]
    BY <2>3
  <2> QED
    BY <2>2, <2>4
<1>3. Good = SUBSET S
  <2> HIDE DEF Good
  <2>1. Good \in SUBSET SUBSET S
    BY DEF Good
  <2> QED
    BY <1>1, <1>2, <2>1, Sets
<1> QED
  BY <1>3, SumIsPartial
=============================================================================
