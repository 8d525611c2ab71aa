-------------------------- MODULE AutoscalingProofs --------------------------
(***************************************************************************)
(* Theorems about Autoscaling, for every set of configuration files, every *)
(* load and every size of the history.                                     *)
(***************************************************************************)
EXTENDS Autoscaling, FiniteSums, SequenceTheorems

(* What the validation has let through, and a count of replicas.           *)
Policies == [replicas : Nat, min : Nat, max : Int, window : Int, cpu : Int, mem : Int]
Inv ==
    /\ policy \in Policies
    /\ policy.max > 0 => policy.min <= policy.max
    /\ replicas \in Nat /\ cooling \in BOOLEAN

LEMMA LoadedSound ==
    ASSUME NEW p \in Loaded(Files)
    PROVE  p \in Policies /\ (p.max > 0 => p.min <= p.max)
<1> DEFINE Raw == [replicas : Int, min : Int, max : Int, window : Int, cpu : Int, mem : Int]
<1>1. PICK f \in Files : p = applyPredictiveScalingDefaults(applyScalePolicyDefaults(f))
  BY DEF Loaded
<1>2. f \in Raw
  BY FilesAssumption
<1>3. applyScalePolicyDefaults(f) \in Raw
  <2> DEFINE least == IF f.min < 0 THEN 1 ELSE f.min
             most == IF f.max = 0 THEN least ELSE f.max
  <2>1. applyScalePolicyDefaults(f) = [f EXCEPT !.min = least, !.max = most]
    BY DEF applyScalePolicyDefaults
  <2>2. least \in Int /\ most \in Int
    BY <1>2
  <2> HIDE DEF least, most
  <2> QED
    BY <1>2, <2>1, <2>2
<1>4. p \in Raw
  <2> DEFINE g == applyScalePolicyDefaults(f)
             window == IF g.window = 0 THEN 60 ELSE g.window
             cpu == IF g.cpu = 0 THEN 70 ELSE g.cpu
             mem == IF g.mem = 0 THEN 80 ELSE g.mem
  <2>1. p = [g EXCEPT !.window = window, !.cpu = cpu, !.mem = mem]
    BY <1>1 DEF applyPredictiveScalingDefaults
  <2>2. window \in Int /\ cpu \in Int /\ mem \in Int
    BY <1>3
  <2>3. g \in Raw
    BY <1>3
  <2> HIDE DEF g, window, cpu, mem
  <2> QED
    BY <2>1, <2>2, <2>3
<1>5. validateConfig(p)
  BY DEF Loaded
<1> QED
  BY <1>4, <1>5 DEF validateConfig, Policies

LEMMA FactorBounded == calculateScaleFactor \in 1..3
BY DEF calculateScaleFactor

LEMMA InitInv == Init => Inv
<1> SUFFICES ASSUME Init PROVE Inv
  OBVIOUS
<1>1. policy \in Policies /\ (policy.max > 0 => policy.min <= policy.max)
  BY LoadedSound DEF Init
<1> QED
  BY <1>1 DEF Init, Inv, Policies

(* Steps that leave the replica count and the cooldown alone. *)
Aside == UNCHANGED <<policy, replicas, cooling>>

LEMMA AsideSteps ==
    (StartPass \/ CollectMetrics \/ CollectFails \/ ReconcileReplicas \/ NoScaling \/ DemandChanges
        \/ UNCHANGED vars) => Aside
BY DEF StartPass, CollectMetrics, CollectFails, Asked, ReconcileReplicas, NoScaling, DemandChanges,
       vars, Aside

(* Every step is one of ReplicaScaling or leaves its variables alone. *)
LEMMA StepRefines ==
    ASSUME Inv, [Next]_vars
    PROVE  /\ policy' = policy
           /\ Aside \/ Allowed!CooldownEnds \/ Allowed!ScaleDown
                 \/ \E factor \in 1..3 : Allowed!ScaleUp(factor)
<1>1. CASE performScaleUp
  <2>1. /\ policy' = policy /\ replicas < policy.max /\ cooling = FALSE /\ cooling' = TRUE
        /\ replicas' = IF replicas + calculateScaleFactor > policy.max
                       THEN policy.max ELSE replicas + calculateScaleFactor
    BY <1>1 DEF performScaleUp, checkScaleUpConditions, Enough, Inv
  <2> DEFINE factor == calculateScaleFactor
  <2>2. factor \in 1..3
    BY FactorBounded
  <2>3. policy.max \in Int /\ replicas \in Nat
    BY DEF Inv, Policies
  <2>4. replicas' = IF replicas + factor < policy.max THEN replicas + factor ELSE policy.max
    <3> HIDE DEF factor
    <3> QED
      BY <2>1, <2>2, <2>3 DEF factor
  <2>5. Allowed!ScaleUp(factor)
    BY <2>1, <2>4 DEF Allowed!ScaleUp, Allowed!AtMost
  <2> QED
    BY <2>1, <2>2, <2>5
<1>2. CASE performScaleDown
  BY <1>2 DEF performScaleDown, checkScaleDownConditions, Enough, Inv, Allowed!ScaleDown
<1>3. CASE CooldownEnds
  BY <1>3 DEF CooldownEnds, Allowed!CooldownEnds
<1>4. CASE ~(performScaleUp \/ performScaleDown \/ CooldownEnds)
  <2>1. Aside
    BY <1>4, AsideSteps DEF Next, Pass
  <2> QED
    BY <2>1 DEF Aside
<1> QED
  BY <1>1, <1>2, <1>3, <1>4

LEMMA NextInv == Inv /\ [Next]_vars => Inv'
<1> SUFFICES ASSUME Inv, [Next]_vars PROVE Inv'
  OBVIOUS
<1>1. policy' = policy /\ policy.min \in Nat /\ policy.max \in Int /\ replicas \in Nat
  BY StepRefines DEF Inv, Policies
<1>2. replicas' \in Nat /\ cooling' \in BOOLEAN
  <2>1. CASE Aside
    BY <2>1 DEF Aside, Inv
  <2>2. CASE Allowed!CooldownEnds
    BY <2>2 DEF Allowed!CooldownEnds, Inv
  <2>3. CASE Allowed!ScaleDown
    BY <1>1, <2>3 DEF Allowed!ScaleDown
  <2>4. ASSUME NEW factor \in 1..3, Allowed!ScaleUp(factor)
        PROVE  replicas' \in Nat /\ cooling' \in BOOLEAN
    BY <1>1, <2>4 DEF Allowed!ScaleUp, Allowed!AtMost
  <2> QED
    BY StepRefines, <2>1, <2>2, <2>3, <2>4
<1> QED
  BY <1>1, <1>2 DEF Inv

(* What a policy that gets through LoadConfig and calculateDesiredReplicas *)
(* make of any replica count is within the policy.                         *)
THEOREM DesiredReplicasInPolicy == Spec => []DesiredIsInPolicy
<1>1. Inv => DesiredIsInPolicy
  BY DEF Inv, Policies, DesiredIsInPolicy, calculateDesiredReplicas
<1> QED
  BY <1>1, InitInv, NextInv, PTL DEF Spec

(* Predictive scaling never takes the replica count further away from the  *)
(* policy, also when the configuration starts outside of it.               *)
THEOREM PolicyIsApproached == Spec => ScalingApproachesPolicy
<1> DEFINE Approaches == /\ replicas' > replicas => replicas' <= policy.max
                         /\ replicas' < replicas => replicas' >= policy.min
<1>1. ASSUME Inv, [Next]_vars PROVE [Approaches]_vars
  <2>1. policy.min \in Nat /\ policy.max \in Int /\ replicas \in Nat
    BY <1>1 DEF Inv, Policies
  <2>2. CASE Aside \/ Allowed!CooldownEnds
    <3>1. replicas' = replicas
      BY <2>2 DEF Aside, Allowed!CooldownEnds
    <3> QED
      BY <2>1, <3>1
  <2>3. CASE Allowed!ScaleDown
    BY <2>1, <2>3 DEF Allowed!ScaleDown
  <2>4. ASSUME NEW factor \in 1..3, Allowed!ScaleUp(factor) PROVE Approaches
    BY <2>1, <2>4 DEF Allowed!ScaleUp, Allowed!AtMost
  <2> QED
    BY <1>1, StepRefines, <2>2, <2>3, <2>4
<1> QED
  BY <1>1, InitInv, NextInv, PTL DEF Spec, ScalingApproachesPolicy

(* Samples and forecasts only choose among the scalings of ReplicaScaling. *)
THEOREM ScalingRefinement == Spec => ImplementsReplicaScaling
<1>1. Init => Allowed!Init
  <2> SUFFICES ASSUME Init PROVE Allowed!Init
    OBVIOUS
  <2>1. Inv
    BY InitInv
  <2> QED
    BY <2>1 DEF Init, Inv, Policies, Allowed!Init
<1>2. ASSUME Inv, [Next]_vars PROVE [Allowed!Next]_Allowed!vars
  <2>1. Aside => UNCHANGED Allowed!vars
    BY DEF Aside, Allowed!vars
  <2> QED
    BY <1>2, <2>1, StepRefines DEF Allowed!Next
<1> QED
  BY <1>1, <1>2, InitInv, NextInv, PTL DEF Spec, ImplementsReplicaScaling, Allowed!Spec
(***************************************************************************)
(* The history and the forecast.                                           *)
(***************************************************************************)
LEMMA NewestSound ==
    ASSUME NEW D, NEW s \in Seq(D), NEW n \in Nat
    PROVE  /\ Newest(s, n) \in Seq(D)
           /\ Len(Newest(s, n)) = IF Len(s) > n THEN n ELSE Len(s)
<1>1. CASE Len(s) > n
  <2>1. Len(s) - n + 1 \in 1..Len(s) + 1 /\ Len(s) \in Nat
    BY <1>1
  <2>2. \A i \in Len(s) - n + 1 .. Len(s) : s[i] \in D
    BY <2>1
  <2>3. SubSeq(s, Len(s) - n + 1, Len(s)) \in Seq(D)
    BY <2>1, <2>2, SubSeqProperties
  <2>4. Len(SubSeq(s, Len(s) - n + 1, Len(s))) = n
    BY <1>1, <2>1
  <2> QED
    BY <1>1, <2>3, <2>4 DEF Newest
<1>2. CASE ~(Len(s) > n)
  BY <1>2 DEF Newest
<1> QED
  BY <1>1, <1>2

(* A natural number is shared by a positive one. *)
LEMMA Quotient ==
    ASSUME NEW x \in Nat, NEW k \in Nat \ {0}
    PROVE  x \div k \in Nat /\ k * (x \div k) <= x /\ x < k * (x \div k) + k
OBVIOUS

(* A sample is of natural numbers. *)
LEMMA SampleType ==
    ASSUME NEW d \in Demands, NEW k \in Nat \ {0}
    PROVE  Sample(d, k) \in [Measures -> Nat]
<1>1. ASSUME NEW m \in Measures PROVE d[m].each + d[m].shared \div k \in Nat
  <2>1. d[m].each \in Nat /\ d[m].shared \in Nat
    BY DemandsAssumption
  <2>2. d[m].shared \div k \in Nat
    BY <2>1, Quotient
  <2> DEFINE part == d[m].shared \div k
  <2> HIDE DEF part
  <2>3. d[m].each + part \in Nat
    BY <2>1, <2>2 DEF part
  <2> QED
    BY <2>3 DEF part
<1> QED
  BY <1>1 DEF Sample

LEMMA PointsAreNumbers == Points \subseteq [Measures -> Nat]
BY SampleType, RoomAssumption DEF Points

(* The containers that run, and those that collectMetrics has still to     *)
(* ask.                                                                    *)
CountsOK ==
    /\ containers \in 0..Room /\ toCollect \in 0..containers
    /\ step \in {"idle", "collect", "predict"}
    /\ step # "collect" => toCollect = 0

(* Half of a positive number, rounded up, is positive and not more.        *)
LEMMA Halves ==
    ASSUME NEW k \in Nat, k > 0
    PROVE  (k + 1) \div 2 \in 1..k
OBVIOUS

(* Stopping ends before no container is left to stop.                      *)
LEMMA StoppingBounded ==
    ASSUME Inv, CountsOK, NEW n \in Nat
    PROVE  /\ scaleDownService(n) \in 0..containers
           /\ n = 1 /\ containers > policy.min => scaleDownService(n) = containers - 1
<1> DEFINE spare == containers - policy.min
           half == (spare + 1) \div 2
           stopped == IF n < half THEN n ELSE half
<1>1. policy.min \in Nat /\ containers \in Nat /\ spare \in Int
  BY DEF Inv, Policies, CountsOK
<1>2. scaleDownService(n) = IF spare > 0 THEN containers - stopped ELSE containers
  BY DEF scaleDownService
<1>3. spare > 0 => half \in 1..spare
  BY <1>1, Halves
<1>4. spare <= containers /\ (containers > policy.min <=> spare > 0)
  BY <1>1
<1> HIDE DEF spare, half
<1> QED
  BY <1>1, <1>2, <1>3, <1>4

LEMMA CountsKept == ASSUME Inv, CountsOK, [Next]_vars PROVE CountsOK'
<1>1. policy.min \in Nat /\ policy.max \in Int /\ replicas \in Nat
  BY DEF Inv, Policies
<1>2. CASE ReconcileReplicas
  <2> DEFINE desired == calculateDesiredReplicas
  <2>1. desired \in Nat
    BY <1>1 DEF calculateDesiredReplicas
  <2>2. containers' \in IF containers < desired THEN Started(desired - containers) \ {0}
                        ELSE {scaleDownService(containers - desired)}
    BY <1>2 DEF ReconcileReplicas
  <2> HIDE DEF desired
  <2>3. containers' \in 0..Room
    <3>1. CASE containers < desired
      BY <2>2, <3>1, RoomAssumption DEF Started, CountsOK
    <3>2. CASE ~(containers < desired)
      <4>1. containers - desired \in Nat
        BY <2>1, <3>2 DEF CountsOK
      <4>2. containers' \in 0..containers
        BY <2>2, <3>2, <4>1, StoppingBounded
      <4> QED
        BY <4>2, RoomAssumption DEF CountsOK
    <3> QED
      BY <3>1, <3>2
  <2> QED
    BY <1>2, <2>3 DEF ReconcileReplicas, metricsVars, CountsOK
<1>3. CASE performScaleUp
  <2>1. containers' \in Started(calculateScaleFactor)
    BY <1>3 DEF performScaleUp
  <2>2. containers' \in 0..Room
    BY <2>1, RoomAssumption DEF Started, CountsOK
  <2> QED
    BY <1>3, <2>2 DEF performScaleUp, metricsVars, CountsOK
<1>4. CASE performScaleDown
  <2>1. containers' \in 0..containers
    BY <1>4, StoppingBounded DEF performScaleDown
  <2>2. containers' \in 0..Room
    BY <2>1, RoomAssumption DEF CountsOK
  <2> QED
    BY <1>4, <2>2 DEF performScaleDown, metricsVars, CountsOK
<1>5. CASE StartPass \/ CollectMetrics \/ CollectFails
  BY <1>5 DEF StartPass, CollectMetrics, CollectFails, Asked, CountsOK
<1>6. CASE NoScaling \/ CooldownEnds \/ DemandChanges \/ UNCHANGED vars
  BY <1>6 DEF NoScaling, CooldownEnds, DemandChanges, metricsVars, vars, CountsOK
<1> QED
  BY <1>2, <1>3, <1>4, <1>5, <1>6 DEF Next, Pass

(* What MetricsStore keeps, and how many of its points are fresh. *)
HistoryOK ==
    /\ history \in Seq(Points) /\ Len(history) <= MaxSize
    /\ fresh \in 0..Len(history) /\ demand \in Demands

LEMMA HistoryKept == ASSUME HistoryOK, CountsOK, [Next]_vars PROVE HistoryOK'
<1>1. CASE CollectMetrics
  <2> DEFINE longer == Append(history, Sample(demand, containers))
  <2>0. Sample(demand, containers) \in Points
    <3>1. containers \in 1..Room
      BY <1>1, RoomAssumption DEF CollectMetrics, Asked, CountsOK
    <3> QED
      BY <3>1 DEF Points, HistoryOK
  <2>1. longer \in Seq(Points) /\ Len(longer) = Len(history) + 1 /\ Len(history) \in Nat
    BY <2>0 DEF HistoryOK
  <2>2. history' = Newest(longer, MaxSize) /\ demand' = demand
    BY <1>1 DEF CollectMetrics, Asked, StoreMetrics
  <2> HIDE DEF longer
  <2>3. /\ history' \in Seq(Points)
        /\ Len(history') = IF Len(history) + 1 > MaxSize THEN MaxSize ELSE Len(history) + 1
    BY <2>1, <2>2, NewestSound, SizesAssumption
  <2>4. fresh' = IF fresh < MaxSize THEN fresh + 1 ELSE fresh
    BY <1>1 DEF CollectMetrics
  <2> QED
    BY <2>1, <2>2, <2>3, <2>4, SizesAssumption DEF HistoryOK
<1>2. CASE StartPass
  BY <1>2 DEF StartPass, HistoryOK
<1>3. CASE ~CollectMetrics /\ ~StartPass
  <2>1. UNCHANGED <<history, fresh>>
    BY <1>3 DEF Next, Pass, CollectFails, ReconcileReplicas, performScaleUp, performScaleDown,
                NoScaling, CooldownEnds, DemandChanges, metricsVars, vars
  <2>2. demand' = demand \/ demand' \in Demands
    BY <1>3 DEF Next, Pass, CollectFails, Asked, ReconcileReplicas, performScaleUp,
                performScaleDown, NoScaling, CooldownEnds, DemandChanges, vars
  <2> QED
    BY <2>1, <2>2 DEF HistoryOK
<1> QED
  BY <1>1, <1>2, <1>3

(* The normal equations: what is chosen as slope and as axis intercept     *)
(* makes both sums of the distances vanish.                                *)
LEMMA NormalEquations ==
    ASSUME NEW n \in Int, NEW x \in Int, NEW y \in Int, NEW xy \in Int, NEW x2 \in Int,
           NEW slope, slope = n * xy - x * y, NEW spread, spread = n * x2 - x * x,
           NEW a, a = y * spread - slope * x
    PROVE  /\ (n * spread) * y + (-(n * slope)) * x + (-a) * n = 0
           /\ (n * spread) * xy + (-(n * slope)) * x2 + (-a) * x = 0
<1>1. slope \in Int /\ spread \in Int /\ a \in Int
  OBVIOUS
<1>2. (n * spread) * y + (-(n * slope)) * x + (-a) * n
         = n * (y * spread - slope * x - a)
  BY <1>1
<1>3. (n * spread) * xy + (-(n * slope)) * x2 + (-a) * x
         = spread * (n * xy) - slope * (n * x2) - a * x
  BY <1>1
<1>4. n * xy = slope + x * y /\ n * x2 = spread + x * x
  BY <1>1
<1>5. spread * (slope + x * y) - slope * (spread + x * x) - a * x
         = x * (y * spread - slope * x - a)
  BY <1>1
<1>6. y * spread - slope * x - a = 0
  BY <1>1
<1> QED
  BY <1>2, <1>3, <1>4, <1>5, <1>6

LEMMA WeightedDistance ==
    ASSUME NEW d \in Int, NEW a \in Int, NEW b \in Int, NEW u \in Int, NEW v \in Int
    PROVE  /\ d * u - a - b * v \in Int
           /\ d * u - a - b * v = d * u + (-b) * v + (-a) * 1
           /\ v * (d * u - a - b * v) = d * (v * u) + (-b) * (v * v) + (-a) * v
           /\ (v + 1) * u = 1 * (v * u) + 1 * u + 0 * u
<1>1. v * (d * u - a - b * v) = v * (d * u) - v * a - v * (b * v)
  OBVIOUS
<1>2. v * (d * u) = d * (v * u) /\ v * a = -((-a) * v) /\ v * (b * v) = -((-b) * (v * v))
  OBVIOUS
<1> QED
  BY <1>1, <1>2

(* The line of Regression is the one of least squares. *)
LEMMA RegressionIsLeastSquares ==
    ASSUME NEW s \in Seq(Points), Len(s) >= 2, NEW m \in Measures
    PROVE  LET line == Regression(s, m)
               off == [i \in DOMAIN s |-> line.d * s[i][m] - line.a - line.b * (i - 1)]
           IN  /\ line.d > 0
               /\ SumFunction(off) = 0
               /\ SumFunction([i \in DOMAIN s |-> i * off[i]]) = 0
<1> DEFINE n == Len(s)
           S == 1..n
           x == [i \in S |-> X(i)]
           y == [i \in S |-> s[i][m]]
           xy == [i \in S |-> X(i) * s[i][m]]
           x2 == [i \in S |-> X(i) * X(i)]
           one == [i \in S |-> 1]
           sumX == SumFunction(x)
           sumY == SumFunction(y)
           sumXY == SumFunction(xy)
           sumX2 == SumFunction(x2)
           slope == n * sumXY - sumX * sumY
           spread == n * sumX2 - sumX * sumX
           a == sumY * spread - slope * sumX
           b == n * slope
           d == n * spread
           off == [i \in S |-> d * s[i][m] - a - b * (i - 1)]
           weighted == [i \in S |-> X(i) * off[i]]
           placed == [i \in S |-> i * off[i]]
<1>1. Regression(s, m) = [b |-> b, a |-> a, d |-> d]
  BY DEF Regression
<1>2. DOMAIN s = S /\ n \in Nat /\ n >= 2 /\ IsFiniteSet(S) /\ Cardinality(S) = n
  BY FS_Interval
<1>3. ASSUME NEW i \in S PROVE i \in Int /\ X(i) \in Int /\ X(i) = i - 1 /\ s[i][m] \in Int
  BY <1>2, PointsAreNumbers DEF X
<1>4. /\ x \in [S -> Int] /\ y \in [S -> Int] /\ xy \in [S -> Int] /\ x2 \in [S -> Int]
      /\ one \in [S -> Int]
  BY <1>3
<1>5. /\ sumX \in Int /\ sumY \in Int /\ sumXY \in Int /\ sumX2 \in Int
      /\ SumFunction(one) = n
  <2>1. SumFunction(one) = n
    BY <1>2, SumOfOnes
  <2> HIDE DEF S, x, y, xy, x2
  <2> QED
    BY <1>2, <1>4, <2>1, SumType
<1>6. spread > 0
  <2>1. \A i, j \in S : i # j => x[i] # x[j]
    BY <1>3
  <2>2. Squares(S, x, x2)
    BY <1>2, <1>4 DEF Squares
  <2> HIDE DEF S, x, x2
  <2> QED
    BY <1>2, <2>1, <2>2, SumSpread
<1>7. d \in Int /\ b \in Int /\ a \in Int /\ d > 0
  <2> HIDE DEF n, sumX, sumY, sumXY, sumX2
  <2>1. slope \in Int /\ spread \in Int
    BY <1>2, <1>5
  <2> HIDE DEF slope, spread
  <2> QED
    BY <1>2, <1>5, <1>6, <2>1
<1>8. off \in [S -> Int] /\ weighted \in [S -> Int] /\ placed \in [S -> Int]
  <2> HIDE DEF S, d, a, b
  <2>1. ASSUME NEW i \in S PROVE d * s[i][m] - a - b * (i - 1) \in Int
    <3> DEFINE u == s[i][m]
               v == i - 1
    <3>1. u \in Int /\ v \in Int
      BY <1>3
    <3> HIDE DEF u, v
    <3>2. d * u - a - b * v \in Int
      BY <1>7, <3>1, WeightedDistance
    <3> QED
      BY <3>2 DEF u, v
  <2>2. off \in [S -> Int]
    BY <2>1
  <2> HIDE DEF off
  <2> QED
    BY <1>3, <2>2
<1>9. Combines(S, off, d, y, -b, x, -a, one)
  <2>1. ASSUME NEW i \in S PROVE off[i] = d * y[i] + (-b) * x[i] + (-a) * one[i]
    <3> DEFINE u == s[i][m]
               v == i - 1
    <3>1. y[i] = u /\ x[i] = v /\ one[i] = 1 /\ u \in Int /\ v \in Int
      BY <1>3
    <3>2. off[i] = d * u - a - b * v
      OBVIOUS
    <3> HIDE DEF S, d, a, b, x, y, one, off, u, v
    <3> QED
      BY <1>7, <3>1, <3>2, WeightedDistance
  <2> HIDE DEF S, d, a, b, x, y, one, off
  <2>2. d \in Int /\ -b \in Int /\ -a \in Int
    BY <1>7
  <2> QED
    BY <1>2, <1>4, <1>8, <2>1, <2>2 DEF Combines
<1>10. Combines(S, weighted, d, xy, -b, x2, -a, x)
  <2>1. ASSUME NEW i \in S PROVE weighted[i] = d * xy[i] + (-b) * x2[i] + (-a) * x[i]
    <3> DEFINE u == s[i][m]
               v == i - 1
    <3>1. /\ xy[i] = v * u /\ x2[i] = v * v /\ x[i] = v /\ weighted[i] = v * off[i]
          /\ u \in Int /\ v \in Int
      BY <1>3
    <3>2. off[i] = d * u - a - b * v
      OBVIOUS
    <3> HIDE DEF S, d, a, b, x, xy, x2, off, weighted, u, v
    <3> QED
      BY <1>7, <3>1, <3>2, WeightedDistance
  <2> HIDE DEF S, d, a, b, x, xy, x2, weighted
  <2>2. d \in Int /\ -b \in Int /\ -a \in Int
    BY <1>7
  <2> QED
    BY <1>2, <1>4, <1>8, <2>1, <2>2 DEF Combines
<1>11. Combines(S, placed, 1, weighted, 1, off, 0, off)
  <2>1. ASSUME NEW i \in S PROVE placed[i] = 1 * weighted[i] + 1 * off[i] + 0 * off[i]
    <3> DEFINE v == i - 1
               w == off[i]
    <3>1. weighted[i] = v * w /\ placed[i] = (v + 1) * w /\ v \in Int
      BY <1>3
    <3>2. w \in Int
      BY <1>8
    <3> HIDE DEF S, off, weighted, placed, v
    <3>3. placed[i] = 1 * (v * w) + 1 * w + 0 * w
      <4> HIDE DEF w
      <4> QED
        BY <1>7, <3>1, <3>2, WeightedDistance
    <3> QED
      BY <3>1, <3>3
  <2> HIDE DEF S, off, weighted, placed
  <2>2. 1 \in Int /\ 0 \in Int
    OBVIOUS
  <2> QED
    BY <1>2, <1>8, <2>1, <2>2, Zenon DEF Combines
<1>12. SumFunction(off) = 0 /\ SumFunction(weighted) = 0
  <2>1. SumFunction(off) = d * sumY + (-b) * sumX + (-a) * n
    <3> HIDE DEF S, d, a, b, x, y, one, off, n
    <3> QED
      BY <1>5, <1>9, SumLinear
  <2>2. SumFunction(weighted) = d * sumXY + (-b) * sumX2 + (-a) * sumX
    <3> HIDE DEF S, d, a, b, x, xy, x2, weighted
    <3> QED
      BY <1>10, SumLinear
  <2>3. /\ d * sumY + (-b) * sumX + (-a) * n = 0
        /\ d * sumXY + (-b) * sumX2 + (-a) * sumX = 0
    <3> HIDE DEF n, sumX, sumY, sumXY, sumX2
    <3> QED
      BY <1>2, <1>5, NormalEquations
  <2> QED
    BY <2>1, <2>2, <2>3
<1>13. SumFunction(placed) = 0
  <2> HIDE DEF S, off, weighted, placed
  <2>1. SumFunction(placed) = 1 * SumFunction(weighted) + 1 * SumFunction(off) + 0 * SumFunction(off)
    BY <1>11, SumLinear
  <2> QED
    BY <1>12, <2>1
<1> HIDE DEF a, b, d
<1>14. Regression(s, m).d = d /\ Regression(s, m).a = a /\ Regression(s, m).b = b
  BY <1>1
<1> HIDE DEF S
<1> QED
  BY <1>2, <1>7, <1>12, <1>13, <1>14

(* What is known of the history holds together with what is known of the   *)
(* policy and of the containers.                                           *)
LEMMA HistoryInductive == Spec => [](Inv /\ HistoryOK /\ CountsOK)
<1> DEFINE All == Inv /\ HistoryOK /\ CountsOK
<1>1. Init => All
  <2> SUFFICES ASSUME Init PROVE HistoryOK /\ CountsOK
    BY InitInv
  <2>1. HistoryOK
    BY SizesAssumption DEF Init, HistoryOK
  <2>2. CountsOK
    BY RoomAssumption DEF Init, CountsOK
  <2> QED
    BY <2>1, <2>2
<1>2. All /\ [Next]_vars => All'
  BY NextInv, HistoryKept, CountsKept
<1> QED
  BY <1>1, <1>2, PTL DEF Spec

(* Whatever samples there are, the forecast extrapolates the line of least *)
(* squares through the newest of them.                                     *)
THEOREM ForecastsAreLeastSquares == Spec => []ForecastIsLeastSquares
<1>1. ASSUME HistoryOK, Len(history) >= 2
      PROVE  Newest(history, Recent) \in Seq(Points) /\ Len(Newest(history, Recent)) >= 2
  BY <1>1, NewestSound, SizesAssumption DEF HistoryOK
<1>2. HistoryOK => ForecastIsLeastSquares
  <2> DEFINE s == Newest(history, Recent)
  <2> SUFFICES ASSUME HistoryOK, Len(history) >= 2 PROVE ForecastIsLeastSquares
    BY DEF ForecastIsLeastSquares
  <2>1. s \in Seq(Points) /\ Len(s) >= 2
    BY <1>1
  <2> HIDE DEF s
  <2>2. \A m \in Measures :
           LET line == Regression(s, m)
               off == [i \in DOMAIN s |-> line.d * s[i][m] - line.a - line.b * (i - 1)]
           IN  /\ line.d > 0
               /\ SumFunction(off) = 0
               /\ SumFunction([i \in DOMAIN s |-> i * off[i]]) = 0
    BY <2>1, RegressionIsLeastSquares
  <2>3. Len(s) \in 0..Recent
    BY NewestSound, SizesAssumption DEF HistoryOK, s
  <2>4. s \in [1..Len(s) -> Points]
    BY <2>1
  <2>5. s \in UNION {[1..n -> Points] : n \in 0..Recent}
    BY <2>3, <2>4
  <2>6. \A m \in Measures : Lines[s][m] = Regression(s, m)
    BY <2>5 DEF Lines
  <2> QED
    BY <2>2, <2>6 DEF ForecastIsLeastSquares, s
<1> QED
  BY <1>2, HistoryInductive, PTL

(* Type correctness: the history stays within its size, and no more of its *)
(* points are taken to be fresh than there are.                            *)
THEOREM TypeCorrect == Spec => []TypeOK
<1> DEFINE PolicyOK == policy \in Loaded(Files)
<1>1. Init => PolicyOK
  BY DEF Init
<1>2. Inv /\ PolicyOK /\ [Next]_vars => PolicyOK'
  <2> SUFFICES ASSUME Inv, PolicyOK, [Next]_vars
               PROVE  policy' = policy
    OBVIOUS
  <2> QED
    BY StepRefines
<1>3. Inv /\ HistoryOK /\ CountsOK /\ PolicyOK => TypeOK
  BY DEF Inv, HistoryOK, CountsOK, TypeOK
<1> HIDE DEF PolicyOK
<1> QED
  BY <1>1, <1>2, <1>3, HistoryInductive, PTL DEF Spec
(***************************************************************************)
(* Scaling down leaves room.                                               *)
(***************************************************************************)
(* Numbers that are all at least q add up to at least q times as many.     *)
LEMMA SumAtLeast ==
    ASSUME NEW S, IsFiniteSet(S), NEW f \in [S -> Int], NEW q \in Nat, \A i \in S : f[i] >= q
    PROVE  SumFunction(f) \in Int /\ SumFunction(f) >= q * Cardinality(S)
<1> DEFINE one == [i \in S |-> 1]
           over == [i \in S |-> f[i] - q]
<1>1. over \in [S -> Int] /\ one \in [S -> Int] /\ \A i \in S : over[i] >= 0
  OBVIOUS
<1>2. Combines(S, over, 1, f, -q, one, 0, one)
  <2>1. \A i \in S : over[i] = 1 * f[i] + (-q) * one[i] + 0 * one[i]
    OBVIOUS
  <2> HIDE DEF one, over
  <2> QED
    BY <1>1, <2>1 DEF Combines
<1>3. SumFunction(one) = Cardinality(S) /\ Cardinality(S) \in Nat
  BY SumOfOnes, FS_CardinalityType
<1> HIDE DEF one, over
<1>4. SumFunction(over) = 1 * SumFunction(f) + (-q) * SumFunction(one) + 0 * SumFunction(one)
  BY <1>2, SumLinear
<1>5. SumFunction(over) \in Nat
  BY <1>1, SumNatural
<1>6. SumFunction(f) \in Int
  BY SumType
<1> DEFINE n == Cardinality(S)
           sum == SumFunction(f)
<1>7. sum - q * n \in Nat /\ sum \in Int /\ n \in Nat
  BY <1>3, <1>4, <1>5, <1>6
<1> HIDE DEF n, sum
<1>8. sum >= q * n
  BY <1>7
<1> QED
  BY <1>7, <1>8 DEF n, sum

(* What k share is at most as much for each as what fewer share.           *)
LEMMA FewerGetMore ==
    ASSUME NEW x \in Nat, NEW j \in Nat \ {0}, NEW k \in Nat, j <= k
    PROVE  x \div k <= x \div j
<1> DEFINE p == x \div j
           q == x \div k
<1>1. /\ p \in Nat /\ q \in Nat
      /\ k * q <= x /\ x < j * p + j
  BY Quotient
<1> HIDE DEF p, q
<1>2. j * q <= k * q
  BY <1>1
<1>3. j * q < j * (p + 1)
  BY <1>1, <1>2
<1>4. q < p + 1
  BY <1>1, <1>3
<1> QED
  BY <1>1, <1>4 DEF p, q

(* Without one of at least two, each of the others gets at most twice as   *)
(* much and one.                                                           *)
LEMMA OneFewer ==
    ASSUME NEW x \in Nat, NEW k \in Nat, k >= 2
    PROVE  x \div (k - 1) <= 2 * (x \div k) + 1
<1> DEFINE p == x \div (k - 1)
           q == x \div k
           j == k - 1
<1>1. j \in Nat \ {0}
  OBVIOUS
<1>2. p \in Nat /\ j * p <= x
  BY <1>1, Quotient
<1>3. q \in Nat /\ x < k * q + k
  BY Quotient
<1>4. k = j + 1
  OBVIOUS
<1> HIDE DEF p, q, j
<1>5. j * p < (j + 1) * q + (j + 1)
  <2>1. x < (j + 1) * q + (j + 1)
    BY <1>3, <1>4
  <2>2. j * p \in Int /\ (j + 1) * q + (j + 1) \in Int
    BY <1>1, <1>2, <1>3
  <2> QED
    BY <1>2, <2>1, <2>2
<1>6. SUFFICES ASSUME p >= 2 * q + 2 PROVE FALSE
  BY <1>2, <1>3 DEF p, q
<1>7. j * p >= j * (2 * q + 2)
  BY <1>1, <1>2, <1>3, <1>6
<1>8. j * (2 * q + 2) = 2 * (j * q) + 2 * j /\ (j + 1) * q + (j + 1) = j * q + q + j + 1
  BY <1>1, <1>3
<1>9. j * q >= q
  BY <1>1, <1>3
<1>10. j * q \in Nat /\ j * p \in Nat
  BY <1>1, <1>2, <1>3
<1> DEFINE jq == j * q
           jp == j * p
<1>11. /\ jp \in Nat /\ jq \in Nat /\ jq >= q
       /\ jp >= 2 * jq + 2 * j /\ jp < jq + q + j + 1
  BY <1>5, <1>7, <1>8, <1>9, <1>10
<1> HIDE DEF jp, jq
<1> QED
  BY <1>1, <1>3, <1>11

(* One container at most is stopped, and at least one remains: what each   *)
(* of those that remain shows is at most twice what it was, and one.       *)
LEMMA LessThanTwice ==
    ASSUME NEW d \in Demands, NEW m \in Measures, NEW k \in Nat, NEW j \in Nat \ {0},
           j \in {k - 1, k}
    PROVE  Sample(d, j)[m] <= 2 * Sample(d, k)[m] + 1
<1> DEFINE each == d[m].each
           shared == d[m].shared
           few == shared \div j
           many == shared \div k
<1>1. each \in Nat /\ shared \in Nat
  BY DemandsAssumption
<1>2. Sample(d, j)[m] = each + few /\ Sample(d, k)[m] = each + many
  BY DEF Sample
<1>3. few \in Nat /\ many \in Nat
  <2> HIDE DEF shared
  <2> QED
    BY <1>1, Quotient
<1>4. few <= 2 * many + 1
  <2> HIDE DEF shared
  <2>1. CASE j = k
    BY <1>3, <2>1
  <2>2. CASE j = k - 1
    <3>1. k >= 2
      BY <2>2
    <3>2. shared \div (k - 1) <= 2 * (shared \div k) + 1
      BY <1>1, <3>1, OneFewer
    <3> QED
      BY <2>2, <3>2
  <2> QED
    BY <2>1, <2>2
<1> HIDE DEF each, few, many
<1>5. each + few <= 2 * (each + many) + 1
  BY <1>1, <1>3, <1>4
<1> QED
  BY <1>2, <1>5

(* No current sample shows less than the containers show now, so half the  *)
(* threshold, which the average is below, is more than that.               *)
LEMMA AverageIsCurrent ==
    ASSUME NEW m \in Measures, HistoryOK, CountsOK, fresh > 0, SamplesAreCurrent,
           NEW threshold \in Int, Below(Current(m), m, 1, 2), policy[m] = threshold
    PROVE  containers > 0 /\ 2 * Sample(demand, containers)[m] < threshold
<1> DEFINE points == Len(history) - fresh + 1 .. Len(history)
           f == [i \in points |-> history[i][m]]
           q == Sample(demand, containers)[m]
<1>1. /\ Len(history) \in Nat /\ fresh \in Nat /\ fresh <= Len(history)
      /\ demand \in Demands /\ containers \in Nat /\ points \subseteq 1..Len(history)
      /\ Len(history) \in points
  BY RoomAssumption DEF HistoryOK, CountsOK
<1>2. \A i \in points : \E k \in 1..containers : history[i] = Sample(demand, k)
  BY DEF SamplesAreCurrent
<1>3. containers \in Nat \ {0} /\ q \in Nat
  <2>1. containers \in Nat \ {0}
    BY <1>1, <1>2
  <2> QED
    BY <1>1, <2>1, SampleType
<1>4. \A i \in points : f[i] \in Int /\ f[i] >= q
  <2> SUFFICES ASSUME NEW i \in points PROVE f[i] \in Int /\ f[i] >= q
    OBVIOUS
  <2>1. PICK k \in 1..containers : history[i] = Sample(demand, k)
    BY <1>2
  <2> DEFINE each == demand[m].each
             shared == demand[m].shared
             mine == shared \div k
             now == shared \div containers
  <2>2. each \in Nat /\ shared \in Nat
    BY <1>1, DemandsAssumption
  <2>3. f[i] = each + mine /\ q = each + now
    BY <2>1 DEF Sample
  <2>4. mine \in Nat /\ now \in Nat /\ now <= mine
    <3> HIDE DEF shared
    <3>1. k \in Nat \ {0} /\ k <= containers
      BY <1>3
    <3>2. mine \in Nat /\ now \in Nat
      BY <1>3, <2>2, <3>1, Quotient
    <3>3. now <= mine
      BY <1>3, <2>2, <3>1, FewerGetMore
    <3> QED
      BY <3>2, <3>3
  <2> HIDE DEF each, mine, now, f, q
  <2> QED
    BY <2>2, <2>3, <2>4
<1>5. IsFiniteSet(points) /\ Cardinality(points) = fresh
  BY <1>1, FS_Interval
<1>6. SumFunction(f) \in Int /\ SumFunction(f) >= q * fresh
  <2>1. f \in [points -> Int]
    BY <1>4
  <2> HIDE DEF f, q, points
  <2> QED
    BY <1>3, <1>4, <1>5, <2>1, SumAtLeast
<1>7. 2 * SumFunction(f) < 1 * threshold * fresh
  BY DEF Below, Current
<1> DEFINE sum == SumFunction(f)
<1>8. sum \in Int /\ sum >= q * fresh /\ 2 * sum < threshold * fresh
  BY <1>1, <1>6, <1>7
<1> HIDE DEF f, q, points, sum
<1>9. (2 * q) * fresh < threshold * fresh
  <2>1. (2 * q) * fresh = 2 * (q * fresh) /\ q * fresh \in Int /\ threshold * fresh \in Int
    BY <1>1, <1>3
  <2> QED
    BY <1>8, <2>1
<1>10. 2 * q < threshold
  BY <1>1, <1>3, <1>9
<1> QED
  BY <1>3, <1>10 DEF q

(* Scaling down never overloads those that remain, whatever the demand,    *)
(* the thresholds and the samples: when the samples of the last minute are *)
(* current, half of each threshold is room enough for one container less.  *)
THEOREM ScalingDownLeavesRoom == Spec => ScaleDownLeavesRoom
<1> DEFINE Known == Inv /\ HistoryOK /\ CountsOK
           LeavesRoom == replicas' < replicas /\ SamplesAreCurrent /\ containers' > 0 =>
                       \A m \in Measures : Sample(demand, containers')[m] <= policy[m]
<1>1. Known /\ [Next]_vars => LeavesRoom
  <2> SUFFICES ASSUME Known, [Next]_vars, replicas' < replicas, SamplesAreCurrent,
                      containers' > 0, NEW m \in Measures
               PROVE  Sample(demand, containers')[m] <= policy[m]
    OBVIOUS
  <2>1. replicas \in Nat /\ policy.max \in Int /\ policy.min \in Nat
    BY DEF Inv, Policies
  <2>2. performScaleDown
    <3>1. CASE performScaleUp
      <4>1. calculateScaleFactor \in Nat
        BY FactorBounded
      <4>2. /\ replicas < policy.max
            /\ replicas' = IF replicas + calculateScaleFactor > policy.max
                           THEN policy.max ELSE replicas + calculateScaleFactor
        BY <3>1 DEF performScaleUp, checkScaleUpConditions
      <4> DEFINE factor == calculateScaleFactor
      <4>3. factor \in Nat /\ replicas < policy.max
            /\ replicas' = IF replicas + factor > policy.max THEN policy.max ELSE replicas + factor
        BY <4>1, <4>2
      <4> HIDE DEF factor
      <4> QED
        BY <2>1, <4>3
    <3>2. CASE CooldownEnds
      BY <2>1, <3>2 DEF CooldownEnds
    <3>3. CASE ~(performScaleUp \/ performScaleDown \/ CooldownEnds)
      BY <2>1, <3>3, AsideSteps DEF Next, Pass, Aside
    <3> QED
      BY <3>1, <3>2, <3>3
  <2>3. policy[m] \in Int
    BY DEF Inv, Policies, Measures
  <2>4. fresh > 0 /\ Below(Current(m), m, 1, 2)
    BY <2>2 DEF performScaleDown, Enough, checkScaleDownConditions, Underloaded, Values
  <2>5. containers > 0 /\ 2 * Sample(demand, containers)[m] < policy[m]
    BY <2>3, <2>4, AverageIsCurrent
  <2>6. containers' \in {containers - 1, containers}
    <3>1. containers' = scaleDownService(1) /\ containers \in Nat
      BY <2>2, RoomAssumption DEF performScaleDown, CountsOK
    <3>2. CASE containers > policy.min
      BY <3>1, <3>2, StoppingBounded
    <3>3. CASE ~(containers > policy.min)
      BY <2>1, <3>1, <3>3 DEF scaleDownService
    <3> QED
      BY <3>2, <3>3
  <2>7. demand \in Demands /\ containers \in Nat \ {0} /\ containers' \in Nat \ {0}
    BY <2>5, <2>6, RoomAssumption DEF HistoryOK, CountsOK
  <2> DEFINE new == Sample(demand, containers')[m]
             old == Sample(demand, containers)[m]
  <2>8. new <= 2 * old + 1
    BY <2>6, <2>7, LessThanTwice
  <2>9. new \in Nat /\ old \in Nat
    BY <2>7, SampleType
  <2>10. 2 * old < policy[m]
    BY <2>5
  <2> HIDE DEF new, old
  <2>11. new <= policy[m]
    BY <2>3, <2>8, <2>9, <2>10
  <2> QED
    BY <2>11 DEF new
<1>2. Known /\ [Next]_vars => [LeavesRoom]_vars
  BY <1>1
<1> QED
  BY <1>2, HistoryInductive, PTL DEF Spec, ScaleDownLeavesRoom
=============================================================================
