----------------------------- MODULE Autoscaling -----------------------------
(***************************************************************************)
(* Predictive scaling of one service, from the samples of its containers   *)
(* to its replica count: collectMetrics and the history that MetricsStore  *)
(* keeps (metrics/collector.go), the linear forecast, the conditions and   *)
(* the scale factor (core/orchestrator.go), under a policy that            *)
(* Configuration lets through.  Services are scaled one by one and share   *)
(* nothing here.                                                           *)
(*                                                                         *)
(* Averages and forecasts are compared as fractions, which abstracts from  *)
(* the rounding of float64.  The work of reconcile on the tasks is cut     *)
(* down to how many containers of a stateless service run; Orchestrator    *)
(* has its steps.  What the service has to do is shared by its containers, *)
(* so scaling changes the load that the next samples show.                 *)
(***************************************************************************)
EXTENDS Configuration, Sequences, FiniteSetsExt

CONSTANTS Files,        \* scale policies as they are in configuration files
          Demands,      \* what the service has to do: of cpu and of mem, in percent of a
                        \* container, what each container needs and what they share
          Room,         \* containers that the nodes have the resources for
          MaxSize,      \* points that MetricsStore keeps of a service; 1000 in the code
          MinHistory,   \* points a forecast needs; 5 in the code
          Recent        \* points a forecast looks at; 10 in the code

Measures == {"cpu", "mem"}

ASSUME DemandsAssumption == Demands \subseteq [Measures -> [each : Nat, shared : Nat]]
ASSUME RoomAssumption == Room \in Nat \ {0}
ASSUME SizesAssumption ==
    /\ MaxSize \in Nat \ {0} /\ MinHistory \in Nat /\ MinHistory >= 2
    /\ Recent \in Nat /\ Recent >= 2
ASSUME FilesAssumption ==
    Files \subseteq [replicas : Int, min : Int, max : Int, window : Int, cpu : Int, mem : Int]

VARIABLES
    policy,         \* the loaded policy
    replicas,       \* service.Replicas
    cooling,        \* the cooldown of the last scaling is not over
    containers,     \* how many containers of the service run
    demand,         \* what they have to do
    history,        \* MetricsStore.metrics of the service, the newest point last
    fresh,          \* how many of its points are less than a minute old
    step,           \* where the pass is
    toCollect       \* running containers that collectMetrics has still to ask

metricsVars == <<history, fresh, toCollect>>
vars == <<policy, replicas, cooling, containers, demand, metricsVars, step>>

Init ==
    /\ policy \in Loaded(Files)
    /\ replicas = policy.replicas
    /\ cooling = FALSE /\ containers = 0 /\ demand \in Demands
    /\ history = <<>> /\ fresh = 0
    /\ step = "idle" /\ toCollect = 0

(***************************************************************************)
(* The metrics.                                                            *)
(***************************************************************************)

(* What the statistics of one of k containers show, in whole percent. *)
Sample(d, k) == [m \in Measures |-> d[m].each + d[m].shared \div k]

(* All that may be in the history. *)
Points == {Sample(d, k) : d \in Demands, k \in 1..Room}

(* The points of s from the n-th newest on. *)
Newest(s, n) == IF Len(s) > n THEN SubSeq(s, Len(s) - n + 1, Len(s)) ELSE s

StoreMetrics(point) == history' = Newest(Append(history, point), MaxSize)

(* GetServiceMetrics: the average of a measure over the last minute, which *)
(* is an error when there is no point.  A fraction.                        *)
Current(m) ==
    LET points == Len(history) - fresh + 1 .. Len(history)
    IN  [num |-> SumFunction([i \in points |-> history[i][m]]), den |-> fresh]

(***************************************************************************)
(* The forecast.                                                           *)
(***************************************************************************)

(* Mutant: the points are counted from one. *)
FromOne(i) == i

(* The points are 0, 1, ... *)
X(i) == i - 1

(* The line y = (a + b*x) / d of least squares through a sequence of at    *)
(* least two points.                                                       *)
Regression(s, m) ==
    LET n == Len(s)
        sumX == SumFunction([i \in 1..n |-> X(i)])
        sumY == SumFunction([i \in 1..n |-> s[i][m]])
        sumXY == SumFunction([i \in 1..n |-> X(i) * s[i][m]])
        sumX2 == SumFunction([i \in 1..n |-> X(i) * X(i)])
        slope == n * sumXY - sumX * sumY
        spread == n * sumX2 - sumX * sumX
    IN  [b |-> n * slope, a |-> sumY * spread - slope * sumX, d |-> n * spread]

(* The lines through all that a forecast may look at. *)
Lines ==
    [s \in UNION {[1..n -> Points] : n \in 0..Recent} |-> [m \in Measures |-> Regression(s, m)]]

(* predictCPU and predictMemory: where the line is after the window, a     *)
(* point for each ten seconds, cut to a percentage.  A fraction.           *)
Predicted(m) ==
    LET s == Newest(history, Recent)
        line == Lines[s][m]
        num == 10 * line.a + line.b * (10 * Len(s) + policy.window)
        den == 10 * line.d
    IN  CASE Len(history) < 2 -> [num |-> 0, den |-> 1]
          [] Len(history) >= 2 /\ num < 0 -> [num |-> 0, den |-> 1]
          [] Len(history) >= 2 /\ num > 100 * den -> [num |-> 100, den |-> 1]
          [] OTHER -> [num |-> num, den |-> den]

(***************************************************************************)
(* Conditions, and how far to scale.                                       *)
(***************************************************************************)

(* A measure, now or forecast, is above or below p/q of its threshold. *)
Values(m) == {Current(m), Predicted(m)}
Above(v, m, p, q) == q * v.num > p * policy[m] * v.den
Below(v, m, p, q) == q * v.num < p * policy[m] * v.den

(* The mean of cpu and memory, each as a part of its threshold, is above   *)
(* nine tenths.                                                            *)
NearThreshold ==
    10 * (Current("cpu").num * policy["mem"] + Current("mem").num * policy["cpu"])
        > 18 * fresh * policy["cpu"] * policy["mem"]

Overloaded == NearThreshold \/ \E m \in Measures : \E v \in Values(m) : Above(v, m, 1, 1)

calculateScaleFactor ==
    LET Far(p, q) == \E m \in Measures : \E v \in Values(m) : Above(v, m, p, q)
    IN  IF Far(2, 1) THEN 3 ELSE IF Far(3, 2) THEN 2 ELSE 1

(* Mutant: no scaling up unless the whole factor fits below the maximum. *)
WholeFactorFits == replicas + calculateScaleFactor <= policy.max /\ Overloaded

checkScaleUpConditions == replicas < policy.max /\ Overloaded

Idle == \A v \in Values("cpu") : v.num < v.den

(* Mutant: scale down starts right below the thresholds. *)
NoMargin == \A m \in Measures : \A v \in Values(m) : Below(v, m, 1, 1)

Underloaded == \A m \in Measures : \A v \in Values(m) : Below(v, m, 1, 2)

(* Mutant: the minimum is not looked at. *)
BelowMinimum == ~Idle /\ Underloaded

checkScaleDownConditions == replicas > policy.min /\ ~Idle /\ Underloaded

(***************************************************************************)
(* A pass of reconcile.                                                    *)
(***************************************************************************)
(* The older points may be more than a minute old by now.  (That a pass    *)
(* takes longer than a minute between its metrics and its decision is left *)
(* out.)                                                                   *)
StartPass ==
    /\ step = "idle" /\ step' = "collect"
    /\ toCollect' = containers
    /\ fresh' \in 0..fresh
    /\ UNCHANGED <<policy, replicas, cooling, containers, demand, history>>

Asked ==
    /\ step = "collect" /\ toCollect > 0 /\ toCollect' = toCollect - 1
    /\ UNCHANGED <<policy, replicas, cooling, containers, demand, step>>

CollectMetrics ==
    /\ Asked /\ StoreMetrics(Sample(demand, containers))
    /\ fresh' = IF fresh < MaxSize THEN fresh + 1 ELSE fresh

(* The daemon does not give the statistics of the container. *)
CollectFails == Asked /\ UNCHANGED <<history, fresh>>

calculateDesiredReplicas ==
    LET raised == IF replicas < policy.min THEN policy.min ELSE replicas
    IN  IF policy.max > 0 /\ raised > policy.max THEN policy.max ELSE raised

(* How many containers there may be after n more were asked for: creation  *)
(* ends when there is no room.                                             *)
Started(n) == {c \in containers .. Room : c <= containers + n}

(* How many are left after n too many were to be stopped.  canStopTask     *)
(* keeps the minimum, and subtracts the tasks already stopped from a count *)
(* in which they are stopped already, so it may keep more.                 *)
scaleDownService(n) ==
    LET spare == containers - policy.min
        stopped == IF n < (spare + 1) \div 2 THEN n ELSE (spare + 1) \div 2
    IN  IF spare > 0 THEN containers - stopped ELSE containers

(* What is missing is created (one there always is the room for), and what *)
(* is too much is stopped.                                                 *)
ReconcileReplicas ==
    /\ step = "collect" /\ toCollect = 0 /\ step' = "predict"
    /\ containers' \in IF containers < calculateDesiredReplicas
                       THEN Started(calculateDesiredReplicas - containers) \ {0}
                       ELSE {scaleDownService(containers - calculateDesiredReplicas)}
    /\ UNCHANGED <<policy, replicas, cooling, demand, metricsVars>>

(* There are the metrics, and the last scaling is not too recent.  (The    *)
(* code looks at the cooldown last.)                                       *)
Enough == Len(history) >= MinHistory /\ fresh > 0 /\ ~cooling

(* Mutant: the wanted replicas are not cut to the maximum. *)
PastMaximum ==
    /\ step = "predict" /\ Enough /\ checkScaleUpConditions
    /\ cooling' = TRUE /\ step' = "idle"
    /\ replicas' = replicas + calculateScaleFactor
    /\ containers' \in Started(calculateScaleFactor)
    /\ UNCHANGED <<policy, demand, metricsVars>>

performScaleUp ==
    /\ step = "predict" /\ Enough /\ checkScaleUpConditions
    /\ cooling' = TRUE /\ step' = "idle"
    /\ replicas' = IF replicas + calculateScaleFactor > policy.max
                   THEN policy.max ELSE replicas + calculateScaleFactor
    /\ containers' \in Started(calculateScaleFactor)
    /\ UNCHANGED <<policy, demand, metricsVars>>

performScaleDown ==
    /\ step = "predict" /\ Enough /\ checkScaleDownConditions /\ ~checkScaleUpConditions
    /\ cooling' = TRUE /\ step' = "idle"
    /\ replicas' = replicas - 1
    /\ containers' = scaleDownService(1)
    /\ UNCHANGED <<policy, demand, metricsVars>>

NoScaling ==
    /\ step = "predict" /\ step' = "idle"
    /\ Enough => ~checkScaleUpConditions /\ ~checkScaleDownConditions
    /\ UNCHANGED <<policy, replicas, cooling, containers, demand, metricsVars>>

CooldownEnds ==
    /\ cooling /\ cooling' = FALSE
    /\ UNCHANGED <<policy, replicas, containers, demand, metricsVars, step>>

DemandChanges ==
    /\ demand' \in Demands \ {demand}
    /\ UNCHANGED <<policy, replicas, cooling, containers, metricsVars, step>>

Pass ==
    \/ StartPass \/ CollectMetrics \/ CollectFails \/ ReconcileReplicas
    \/ performScaleUp \/ performScaleDown \/ NoScaling

Next == Pass \/ CooldownEnds \/ DemandChanges

Spec == Init /\ [][Next]_vars

(* The ticker keeps the passes coming, a cooldown is time, and statistics  *)
(* that are asked for again and again are given again.                     *)
Fairness == WF_vars(Pass) /\ WF_vars(CooldownEnds) /\ SF_vars(CollectMetrics)

FairSpec == Spec /\ Fairness

(***************************************************************************)
(* Properties.                                                             *)
(***************************************************************************)
TypeOK ==
    /\ policy \in Loaded(Files) /\ replicas \in Nat /\ cooling \in BOOLEAN
    /\ containers \in 0..Room /\ demand \in Demands
    /\ history \in Seq(Points) /\ Len(history) <= MaxSize
    /\ fresh \in 0..Len(history) /\ toCollect \in 0..containers
    /\ step \in {"idle", "collect", "predict"}

(* The forecast line is the one of least squares: the distances of the     *)
(* points from it add up to nothing, also when weighted with their place.  *)
ForecastIsLeastSquares ==
    Len(history) >= 2 =>
       \A m \in Measures :
          LET s == Newest(history, Recent)
              line == Lines[s][m]
              off == [i \in DOMAIN s |-> line.d * s[i][m] - line.a - line.b * (i - 1)]
          IN  /\ line.d > 0
              /\ SumFunction(off) = 0
              /\ SumFunction([i \in DOMAIN s |-> i * off[i]]) = 0

(* Whatever policy gets through the validation, reconcile never wants      *)
(* fewer replicas than its minimum nor more than its maximum, where zero   *)
(* and less mean that there is none.                                       *)
DesiredIsInPolicy ==
    /\ calculateDesiredReplicas >= policy.min
    /\ policy.max > 0 => calculateDesiredReplicas <= policy.max

(* A configuration may start outside of its own policy.  Scaling brings    *)
(* the replica count nearer to it and never further away.                  *)
ScalingApproachesPolicy ==
    [][/\ replicas' > replicas => replicas' <= policy.max
       /\ replicas' < replicas => replicas' >= policy.min]_vars

(* Whatever the samples are, they only choose among what ReplicaScaling    *)
(* allows.                                                                 *)
Allowed == INSTANCE ReplicaScaling
             WITH min <- policy.min, max <- policy.max, replicas <- replicas, cooling <- cooling
ImplementsReplicaScaling == Allowed!Spec

(* The samples of the last minute are of what the service has to do now,   *)
(* and of no more containers than it has now.                              *)
SamplesAreCurrent ==
    \A i \in Len(history) - fresh + 1 .. Len(history) :
       \E k \in 1..containers : history[i] = Sample(demand, k)

(* Scaling down does not overload the containers that remain, which share  *)
(* what the one that goes had to do: no measure gets above its threshold.  *)
(* It may when the demand has changed or when the service had more         *)
(* containers within the last minute, for which the average stands.        *)
ScaleDownLeavesRoom ==
    [][replicas' < replicas /\ SamplesAreCurrent /\ containers' > 0 =>
          \A m \in Measures : Sample(demand, containers')[m] <= policy[m]]_vars

(* A service that is overloaded for good, however many containers share    *)
(* what it has to do, gets all the replicas that its policy allows, if the *)
(* policy keeps one replica to take samples from.                          *)
Hot(d) == \E m \in Measures : Sample(d, Room)[m] > policy[m]
OverloadIsAnswered ==
    policy.min > 0 => (<>[]Hot(demand) => <>[](replicas >= policy.max))
==============================================================================
