------------------------- MODULE NodeRegistryProofs -------------------------
(***************************************************************************)
(* Theorems about NodeRegistry, for every finite set of nodes and tasks,   *)
(* every timeout and every bound.                                          *)
(***************************************************************************)
EXTENDS NodeRegistry, FiniteSetTheorems, TLAPS

(* A node that is not registered has been, and has left. *)
AbsentHaveLeft == Nodes \ registered \subseteq left

(* If a goroutine is about to stop the worker of a registered node, then   *)
(* the node came back before it ran.                                       *)
AboutToStopIsHasty ==
    scheduler = "running" => \A n \in registered : toStop[n] > 0 => n \in hasty

(* A node that its worker speaks for is not silent for long. *)
Punctual == \A n \in registered : Beats(n) /\ n \notin overdue => silence[n] <= MaxSilence

WorkersInv == NoWorkerIsForgotten /\ AboutToStopIsHasty /\ OnlyHastyNodesLoseTheirWorker

Inv == TypeOK /\ AbsentHaveLeft /\ CountsAreSafe /\ WorkersInv /\ Punctual

LEMMA InitInv == Init => Inv
<1> SUFFICES ASSUME Init PROVE Inv
  OBVIOUS
<1>1. TypeOK
  BY RegistryBounds, TimeAssumption DEF Init, TypeOK, Zeros
<1>2. CountsAreSafe
  <2>1. \A n \in Nodes : PlacedOn(n) = {}
    BY DEF Init, PlacedOn
  <2>2. \A n \in Nodes : Cardinality(PlacedOn(n)) = 0
    BY <2>1, FS_EmptySet
  <2> QED
    BY <2>2 DEF Init, CountsAreSafe, Zeros
<1>3. AbsentHaveLeft /\ WorkersInv
  BY DEF Init, AbsentHaveLeft, WorkersInv, NoWorkerIsForgotten, AboutToStopIsHasty,
         OnlyHastyNodesLoseTheirWorker, Zeros
<1>4. Punctual
  BY TimeAssumption DEF Init, Punctual, Zeros
<1> QED
  BY <1>1, <1>2, <1>3, <1>4 DEF Inv

(***************************************************************************)
(* Types.                                                                  *)
(***************************************************************************)
LEMMA WorkerTypes ==
    ASSUME TypeOK, NEW n \in Nodes,
           Heartbeat(n) \/ WorkerReturns(n) \/ StopOldWorker(n) \/ RegisterNode(n)
             \/ UnregisterNode(n) \/ UpdateNodeStatus(n)
    PROVE  TypeOK'
<1> USE RegistryBounds, TimeAssumption DEF TypeOK, boundVars, workerVars, stopVars, taskVars, nodeVars
<1>1. CASE Heartbeat(n) \/ UpdateNodeStatus(n)
  BY <1>1 DEF Heartbeat, UpdateNodeStatus, sendHeartbeat, HeardOf
<1>2. CASE WorkerReturns(n)
  BY <1>2 DEF WorkerReturns
<1>3. CASE StopOldWorker(n)
  BY <1>3 DEF StopOldWorker, stopHeartbeatWorker
<1>4. CASE RegisterNode(n)
  BY <1>4 DEF RegisterNode, AddNode, HeardOf, startHeartbeatWorker
<1>5. CASE UnregisterNode(n)
  BY <1>5 DEF UnregisterNode, stopHeartbeatWorker
<1> QED
  BY <1>1, <1>2, <1>3, <1>4, <1>5

LEMMA TaskTypes ==
    ASSUME TypeOK, NEW t \in Tasks,
           Reserve(t) \/ ReleaseNodeResources(t) \/ Forget(t) \/ \E n \in Nodes : ChooseNode(t, n)
    PROVE  TypeOK'
<1> USE RegistryBounds, TimeAssumption DEF TypeOK, boundVars, workerVars, stopVars, taskVars, nodeVars
<1>1. CASE Reserve(t)
  <2>1. /\ stage' = [stage EXCEPT ![t] = "placed"] /\ UNCHANGED <<registered, left, doubled, place>>
        /\ UNCHANGED <<workerVars, stopVars, boundVars>>
    BY <1>1 DEF Reserve
  <2>2. /\ taskCount' \in [Nodes -> Nat] /\ silence' \in [Nodes -> 0..HeartbeatTimeout + 1]
        /\ overdue' \subseteq Nodes
    <3>1. CASE place[t] \in registered
      <4>1. /\ taskCount' = [taskCount EXCEPT ![place[t]] = @ + 1]
            /\ silence' = [silence EXCEPT ![place[t]] = 0] /\ overdue' = overdue \ {place[t]}
        BY <1>1, <3>1 DEF Reserve, HeardOf
      <4>2. 0 \in 0..HeartbeatTimeout + 1
        BY TimeAssumption
      <4>3. place[t] \in Nodes /\ taskCount[place[t]] + 1 \in Nat
        BY <3>1
      <4>4. taskCount' \in [Nodes -> Nat]
        BY <4>1, <4>3
      <4>5. silence' \in [Nodes -> 0..HeartbeatTimeout + 1] /\ overdue' \subseteq Nodes
        BY <4>1, <4>2
      <4> QED
        BY <4>4, <4>5
    <3>2. CASE place[t] \notin registered
      BY <1>1, <3>2 DEF Reserve
    <3> QED
      BY <3>1, <3>2
  <2>3. /\ stage' \in [Tasks -> {"none", "chosen", "placed", "released"}]
        /\ \A u \in Tasks : stage'[u] # "none" => place'[u] \in Nodes
    BY <1>1, <2>1 DEF Reserve
  <2> HIDE <1>1
  <2> QED
    BY <2>1, <2>2, <2>3
<1>2. CASE ReleaseNodeResources(t)
  <2> DEFINE m == place[t]
             less == IF m \in registered /\ taskCount[m] > 0 THEN taskCount[m] - 1 ELSE taskCount[m]
  <2>1. /\ stage' = [stage EXCEPT ![t] = "released"]
        /\ taskCount' = [taskCount EXCEPT ![m] = less]
        /\ UNCHANGED <<registered, silence, left, overdue, place, workerVars, stopVars, boundVars>>
    BY <1>2 DEF ReleaseNodeResources, GiveBack
  <2>2. m \in Nodes => less \in Nat
    OBVIOUS
  <2> HIDE DEF m, less
  <2>3. taskCount' \in [Nodes -> Nat]
    BY <2>1, <2>2
  <2>4. stage' \in [Tasks -> {"none", "chosen", "placed", "released"}]
    BY <2>1
  <2>5. stage[t] \in {"placed", "released"} /\ place[t] \in Nodes
    BY <1>2 DEF ReleaseNodeResources
  <2>6. doubled' \subseteq Nodes
    BY <1>2, <2>5 DEF ReleaseNodeResources
  <2> QED
    BY <2>1, <2>3, <2>4, <2>5, <2>6
<1>3. CASE \E n \in Nodes : ChooseNode(t, n)
  BY <1>3 DEF ChooseNode
<1>4. CASE Forget(t)
  BY <1>4 DEF Forget
<1> QED
  BY <1>1, <1>2, <1>3, <1>4

LEMMA SystemTypes ==
    ASSUME TypeOK,
           Tick \/ Suspended \/ cleanupInactiveNodes \/ CleanerReturns
             \/ StopClears \/ StopCancels \/ StopReturns \/ StopAgain
    PROVE  TypeOK'
<1> USE RegistryBounds, TimeAssumption DEF TypeOK, boundVars, workerVars, stopVars, taskVars, nodeVars
<1>1. CASE Tick
  BY <1>1 DEF Tick
<1>2. CASE Suspended
  BY <1>2 DEF Suspended
<1>3. CASE cleanupInactiveNodes
  BY <1>3 DEF cleanupInactiveNodes, Inactive
<1>4. CASE CleanerReturns \/ StopReturns \/ StopAgain
  BY <1>4 DEF CleanerReturns, StopReturns, StopAgain
<1>5. CASE StopClears \/ StopCancels
  BY <1>5 DEF StopClears, StopCancels
<1> QED
  BY <1>1, <1>2, <1>3, <1>4, <1>5

LEMMA TypesKept == TypeOK /\ [Next]_vars => TypeOK'
<1>1. ASSUME TypeOK, UNCHANGED vars PROVE TypeOK'
  BY <1>1 DEF TypeOK, vars
<1> QED
  BY <1>1, WorkerTypes, TaskTypes, SystemTypes DEF Next

(***************************************************************************)
(* Who is absent, and what the nodes count.                                *)
(***************************************************************************)
LEMMA AbsentKept == TypeOK /\ AbsentHaveLeft /\ [Next]_vars => AbsentHaveLeft'
<1> SUFFICES ASSUME TypeOK, AbsentHaveLeft, [Next]_vars PROVE AbsentHaveLeft'
  OBVIOUS
<1>1. CASE UNCHANGED <<registered, left>>
  BY <1>1 DEF AbsentHaveLeft
<1>2. CASE cleanupInactiveNodes
  BY <1>2 DEF cleanupInactiveNodes, AbsentHaveLeft
<1>3. ASSUME NEW n \in Nodes, RegisterNode(n) \/ UnregisterNode(n) PROVE AbsentHaveLeft'
  BY <1>3 DEF RegisterNode, AddNode, UnregisterNode, AbsentHaveLeft
<1> QED
  BY <1>1, <1>2, <1>3
     DEF Next, vars, Tick, Suspended, CleanerReturns, StopClears, StopCancels, StopReturns, StopAgain,
         Heartbeat, sendHeartbeat, WorkerReturns, StopOldWorker, UpdateNodeStatus, Reserve,
         ReleaseNodeResources, Forget, ChooseNode, nodeVars

LEMMA PlacedFinite ==
    ASSUME NEW n \in Nodes
    PROVE  IsFiniteSet(PlacedOn(n)) /\ Cardinality(PlacedOn(n)) \in Nat
<1>1. PlacedOn(n) \subseteq Tasks
  BY DEF PlacedOn
<1> QED
  BY <1>1, FiniteRegistry, FS_Subset, FS_CardinalityType

(* A placement is counted if its node is there. *)
LEMMA ReserveCounts ==
    ASSUME TypeOK, AbsentHaveLeft, CountsAreSafe, NEW t \in Tasks, Reserve(t)
    PROVE  CountsAreSafe'
<1> SUFFICES ASSUME NEW n \in Nodes
             PROVE  /\ n \in registered' => taskCount'[n] <= Cardinality(PlacedOn(n)')
                    /\ n \notin left' \cup doubled' => taskCount'[n] = Cardinality(PlacedOn(n)')
  BY DEF CountsAreSafe
<1>1. /\ IsFiniteSet(PlacedOn(n)) /\ Cardinality(PlacedOn(n)) \in Nat /\ taskCount[n] \in Nat
      /\ registered' = registered /\ left' = left /\ doubled' = doubled
  BY PlacedFinite DEF Reserve, TypeOK
<1>2. CASE place[t] = n
  <2>1. PlacedOn(n)' = PlacedOn(n) \cup {t} /\ t \notin PlacedOn(n)
    BY <1>2 DEF Reserve, TypeOK, PlacedOn
  <2>2. Cardinality(PlacedOn(n)') = Cardinality(PlacedOn(n)) + 1
    BY <1>1, <2>1, FS_AddElement
  <2>3. CASE n \in registered
    <3>1. taskCount'[n] = taskCount[n] + 1
      BY <1>2, <2>3 DEF Reserve, TypeOK
    <3> QED
      BY <1>1, <2>2, <2>3, <3>1 DEF CountsAreSafe
  <2>4. CASE n \notin registered
    BY <1>1, <2>4 DEF AbsentHaveLeft
  <2> QED
    BY <2>3, <2>4
<1>3. CASE place[t] # n
  <2>1. PlacedOn(n)' = PlacedOn(n)
    BY <1>3 DEF Reserve, TypeOK, PlacedOn
  <2>2. taskCount'[n] = taskCount[n]
    BY <1>3 DEF Reserve, TypeOK
  <2> QED
    BY <1>1, <2>1, <2>2 DEF CountsAreSafe
<1> QED
  BY <1>2, <1>3

(* The first release takes the placement away and one off the count; a     *)
(* further one takes one off the count if it can, and is remembered.       *)
LEMMA ReleaseCounts ==
    ASSUME TypeOK, AbsentHaveLeft, CountsAreSafe, NEW t \in Tasks, ReleaseNodeResources(t)
    PROVE  CountsAreSafe'
<1> SUFFICES ASSUME NEW n \in Nodes
             PROVE  /\ n \in registered' => taskCount'[n] <= Cardinality(PlacedOn(n)')
                    /\ n \notin left' \cup doubled' => taskCount'[n] = Cardinality(PlacedOn(n)')
  BY DEF CountsAreSafe
<1>1. /\ IsFiniteSet(PlacedOn(n)) /\ Cardinality(PlacedOn(n)) \in Nat /\ taskCount[n] \in Nat
      /\ registered' = registered /\ left' = left /\ doubled \subseteq doubled'
  BY PlacedFinite DEF ReleaseNodeResources, TypeOK
<1>2. CASE place[t] = n /\ stage[t] = "placed"
  <2>1. PlacedOn(n)' = PlacedOn(n) \ {t} /\ t \in PlacedOn(n)
    BY <1>2 DEF ReleaseNodeResources, TypeOK, PlacedOn
  <2>2. Cardinality(PlacedOn(n)') = Cardinality(PlacedOn(n)) - 1 /\ Cardinality(PlacedOn(n)') \in Nat
    BY <1>1, <2>1, FS_RemoveElement, FS_CardinalityType
  <2>3. CASE n \in registered
    <3>1. taskCount'[n] = IF taskCount[n] > 0 THEN taskCount[n] - 1 ELSE taskCount[n]
      BY <1>2, <2>3 DEF ReleaseNodeResources, GiveBack, TypeOK
    <3> QED
      BY <1>1, <2>2, <2>3, <3>1 DEF CountsAreSafe
  <2>4. CASE n \notin registered
    BY <1>1, <2>4 DEF AbsentHaveLeft
  <2> QED
    BY <2>3, <2>4
<1>3. CASE place[t] = n /\ stage[t] = "released"
  <2>1. PlacedOn(n)' = PlacedOn(n) /\ n \in doubled'
    BY <1>3 DEF ReleaseNodeResources, TypeOK, PlacedOn
  <2>2. taskCount'[n] <= taskCount[n]
    BY <1>1, <1>3 DEF ReleaseNodeResources, GiveBack, TypeOK
  <2>3. taskCount'[n] \in Nat
    BY <1>1, <1>3 DEF ReleaseNodeResources, GiveBack, TypeOK
  <2> QED
    BY <1>1, <2>1, <2>2, <2>3 DEF CountsAreSafe
<1>4. CASE place[t] # n
  <2>1. PlacedOn(n)' = PlacedOn(n)
    BY <1>4 DEF ReleaseNodeResources, TypeOK, PlacedOn
  <2>2. taskCount'[n] = taskCount[n]
    BY <1>4 DEF ReleaseNodeResources, GiveBack, TypeOK
  <2> QED
    BY <1>1, <2>1, <2>2 DEF CountsAreSafe
<1> QED
  BY <1>2, <1>3, <1>4 DEF ReleaseNodeResources

LEMMA CountsKept ==
    TypeOK /\ AbsentHaveLeft /\ CountsAreSafe /\ [Next]_vars => CountsAreSafe'
<1> SUFFICES ASSUME TypeOK, AbsentHaveLeft, CountsAreSafe, [Next]_vars PROVE CountsAreSafe'
  OBVIOUS
(* Nodes leave, and nothing else is done to counts and placements. *)
<1>1. ASSUME UNCHANGED <<taskCount, doubled, taskVars>>, registered' \subseteq registered, left \subseteq left'
      PROVE  CountsAreSafe'
  <2>1. \A n \in Nodes : PlacedOn(n)' = PlacedOn(n)
    BY <1>1 DEF taskVars, PlacedOn
  <2> QED
    BY <1>1, <2>1 DEF CountsAreSafe
<1>2. ASSUME NEW t \in Tasks, NEW n \in Nodes, ChooseNode(t, n) PROVE CountsAreSafe'
  <2>1. \A m \in Nodes : PlacedOn(m)' = PlacedOn(m)
    BY <1>2 DEF ChooseNode, TypeOK, PlacedOn
  <2> QED
    BY <1>2, <2>1 DEF ChooseNode, nodeVars, CountsAreSafe
<1>3. ASSUME NEW n \in Nodes, RegisterNode(n) PROVE CountsAreSafe'
  <2>1. \A m \in Nodes : PlacedOn(m)' = PlacedOn(m)
    BY <1>3 DEF RegisterNode, taskVars, PlacedOn
  <2>2. \A m \in Nodes : Cardinality(PlacedOn(m)) \in Nat
    BY PlacedFinite
  <2>3. /\ n \in left /\ left' = left /\ doubled' = doubled /\ registered' = registered \cup {n}
        /\ taskCount' = [taskCount EXCEPT ![n] = 0]
    BY <1>3 DEF RegisterNode, AddNode, AbsentHaveLeft
  <2> QED
    BY <2>1, <2>2, <2>3 DEF CountsAreSafe, TypeOK
<1>4. ASSUME NEW n \in Nodes, UnregisterNode(n) PROVE CountsAreSafe'
  BY <1>1, <1>4 DEF UnregisterNode
<1>5. CASE cleanupInactiveNodes
  BY <1>1, <1>5 DEF cleanupInactiveNodes
<1>6. CASE UNCHANGED <<registered, left, doubled, taskCount, taskVars>>
  BY <1>1, <1>6
<1>7. ASSUME NEW t \in Tasks, Forget(t) PROVE CountsAreSafe'
  <2>1. \A m \in Nodes : PlacedOn(m)' = PlacedOn(m)
    BY <1>7 DEF Forget, TypeOK, PlacedOn
  <2> QED
    BY <1>7, <2>1 DEF Forget, nodeVars, CountsAreSafe
<1> QED
  BY <1>2, <1>3, <1>4, <1>5, <1>6, <1>7, ReserveCounts, ReleaseCounts
     DEF Next, vars, Tick, Suspended, CleanerReturns, StopClears, StopCancels, StopReturns, StopAgain,
         Heartbeat, sendHeartbeat, WorkerReturns, StopOldWorker, UpdateNodeStatus, nodeVars, taskVars

(***************************************************************************)
(* The workers.                                                            *)
(***************************************************************************)
LEMMA RegistrationsKeepWorkers ==
    ASSUME TypeOK, WorkersInv, NEW n \in Nodes, RegisterNode(n) \/ UnregisterNode(n)
    PROVE  WorkersInv'
<1> USE DEF WorkersInv, NoWorkerIsForgotten, AboutToStopIsHasty, OnlyHastyNodesLoseTheirWorker
<1>1. CASE RegisterNode(n)
  <2>1. /\ registered' = registered \cup {n} /\ workers' = workers \cup {n}
        /\ beating' = IF n \in workers THEN beating ELSE beating \cup {n}
        /\ hasty' = IF toStop[n] > 0 THEN hasty \cup {n} ELSE hasty \ {n}
        /\ toStop' = toStop /\ scheduler' = scheduler /\ n \notin registered
    BY <1>1 DEF RegisterNode, AddNode, startHeartbeatWorker, stopVars
  <2> QED
    BY <2>1
<1>2. CASE UnregisterNode(n)
  <2>1. /\ registered' = registered \ {n} /\ workers' = workers \ {n} /\ beating' = beating \ {n}
        /\ UNCHANGED <<hasty, toStop, scheduler>>
    BY <1>2 DEF UnregisterNode, stopHeartbeatWorker, stopVars
  <2> QED
    BY <2>1
<1> QED
  BY <1>1, <1>2

LEMMA StoppingKeepsWorkers ==
    ASSUME TypeOK, WorkersInv,
           cleanupInactiveNodes \/ \E n \in Nodes : StopOldWorker(n) \/ WorkerReturns(n)
    PROVE  WorkersInv'
<1> USE DEF WorkersInv, NoWorkerIsForgotten, AboutToStopIsHasty, OnlyHastyNodesLoseTheirWorker
<1>1. CASE cleanupInactiveNodes
  <2>1. /\ registered' = registered \ Inactive /\ Inactive \subseteq Nodes
        /\ toStop' = [n \in Nodes |-> IF n \in Inactive THEN toStop[n] + 1 ELSE toStop[n]]
        /\ UNCHANGED <<workers, beating, hasty, scheduler>>
    BY <1>1 DEF cleanupInactiveNodes, Inactive, stopVars, TypeOK
  <2> QED
    BY <2>1 DEF TypeOK
<1>2. ASSUME NEW n \in Nodes, StopOldWorker(n) PROVE WorkersInv'
  <2>1. /\ toStop[n] > 0 /\ toStop' = [toStop EXCEPT ![n] = @ - 1]
        /\ workers' = workers \ {n} /\ beating' = beating \ {n}
        /\ UNCHANGED <<registered, hasty, scheduler>>
    BY <1>2 DEF StopOldWorker, stopHeartbeatWorker, nodeVars, stopVars
  <2> QED
    BY <2>1 DEF TypeOK
<1>3. ASSUME NEW n \in Nodes, WorkerReturns(n) PROVE WorkersInv'
  <2>1. /\ UNCHANGED <<registered, workers, toStop, hasty, scheduler>>
        /\ scheduler = "running" => beating' = beating
    BY <1>3 DEF WorkerReturns, ContextDone, nodeVars, stopVars
  <2> QED
    BY <2>1
<1> QED
  BY <1>1, <1>2, <1>3

LEMMA WorkersKept == TypeOK /\ WorkersInv /\ [Next]_vars => WorkersInv'
<1> SUFFICES ASSUME TypeOK, WorkersInv, [Next]_vars PROVE WorkersInv'
  OBVIOUS
<1>1. CASE UNCHANGED <<registered, workerVars, scheduler>>
  BY <1>1 DEF WorkersInv, NoWorkerIsForgotten, AboutToStopIsHasty, OnlyHastyNodesLoseTheirWorker,
              workerVars
<1>2. CASE StopClears \/ StopCancels \/ StopReturns \/ StopAgain
  <2>1. scheduler' # "running"
    BY <1>2 DEF StopClears, StopCancels, StopReturns, StopAgain
  <2> QED
    BY <2>1 DEF WorkersInv, NoWorkerIsForgotten, AboutToStopIsHasty, OnlyHastyNodesLoseTheirWorker
<1> QED
  BY <1>1, <1>2, RegistrationsKeepWorkers, StoppingKeepsWorkers
     DEF Next, vars, Tick, Suspended, CleanerReturns, Heartbeat, sendHeartbeat, UpdateNodeStatus,
         Reserve, ReleaseNodeResources, Forget, ChooseNode, nodeVars, stopVars, workerVars

(***************************************************************************)
(* Heartbeats in time.                                                     *)
(***************************************************************************)

(* A step after which nobody beats who did not before, and in which        *)
(* silence and overdue do not change but for nodes that are heard of.      *)
Quiet ==
    \A n \in registered' :
       \/ silence'[n] = 0
       \/ /\ n \in registered /\ silence'[n] = silence[n]
          /\ Beats(n)' => Beats(n)
          /\ n \in overdue => n \in overdue'

LEMMA QuietSteps == TypeOK /\ Punctual /\ Quiet => Punctual'
BY TimeAssumption DEF Punctual, Quiet, TypeOK

LEMMA PunctualKept == TypeOK /\ Punctual /\ [Next]_vars => Punctual'
<1> SUFFICES ASSUME TypeOK, Punctual, [Next]_vars PROVE Punctual'
  OBVIOUS
<1> USE DEF Beats, ContextDone
<1>1. CASE Tick
  <2>1. ASSUME NEW n \in registered', Beats(n)', n \notin overdue' PROVE silence'[n] <= MaxSilence
    <3>1. n \in registered /\ Beats(n) /\ n \notin overdue
      BY <1>1, <2>1 DEF Tick, workerVars, stopVars
    <3>2. silence[n] < MaxSilence /\ silence[n] \in Nat /\ n \in Nodes
      BY <1>1, <3>1 DEF Tick, TypeOK
    <3>3. silence'[n] = silence[n] + 1
      BY <1>1, <3>1, <3>2, TimeAssumption DEF Tick
    <3> QED
      BY <3>2, <3>3, TimeAssumption
  <2> QED
    BY <2>1 DEF Punctual
<1>2. CASE Suspended
  <2>1. registered' = registered /\ overdue' = registered
    BY <1>2 DEF Suspended
  <2> QED
    BY <2>1 DEF Punctual
<1>3. CASE cleanupInactiveNodes
  BY <1>3, QuietSteps DEF cleanupInactiveNodes, Quiet, stopVars
<1>4. CASE CleanerReturns \/ StopClears \/ StopCancels \/ StopReturns \/ StopAgain
  <2>1. UNCHANGED <<registered, silence, overdue>> /\ \A n \in Nodes : Beats(n)' => Beats(n)
    BY <1>4 DEF CleanerReturns, StopClears, StopCancels, StopReturns, StopAgain, nodeVars, workerVars,
                stopVars
  <2> QED
    BY <2>1, QuietSteps DEF Quiet, TypeOK
<1>5. ASSUME NEW n \in Nodes, Heartbeat(n) \/ UpdateNodeStatus(n) PROVE Punctual'
  <2>1. /\ UNCHANGED <<registered, beating, collected, scheduler>>
        /\ silence' = [silence EXCEPT ![n] = 0] /\ overdue' = overdue \ {n}
    BY <1>5 DEF Heartbeat, UpdateNodeStatus, sendHeartbeat, HeardOf, workerVars, stopVars
  <2> QED
    BY <2>1, QuietSteps DEF Quiet, TypeOK
<1>6. ASSUME NEW n \in Nodes, WorkerReturns(n) \/ StopOldWorker(n) \/ UnregisterNode(n)
      PROVE  Punctual'
  <2>1. /\ registered' \subseteq registered /\ UNCHANGED <<silence, overdue, collected, scheduler>>
        /\ beating' \subseteq beating
    BY <1>6 DEF WorkerReturns, StopOldWorker, UnregisterNode, stopHeartbeatWorker, nodeVars, stopVars
  <2> QED
    BY <2>1, QuietSteps DEF Quiet
<1>7. ASSUME NEW n \in Nodes, RegisterNode(n) PROVE Punctual'
  <2>1. /\ registered' = registered \cup {n} /\ UNCHANGED <<collected, scheduler>>
        /\ silence' = [silence EXCEPT ![n] = 0] /\ overdue' = overdue \ {n}
        /\ beating' \subseteq beating \cup {n}
    BY <1>7 DEF RegisterNode, AddNode, HeardOf, startHeartbeatWorker, stopVars
  <2> QED
    BY <2>1, QuietSteps DEF Quiet, TypeOK
<1>8. ASSUME NEW t \in Tasks, Reserve(t) PROVE Punctual'
  <2>1. UNCHANGED <<registered, beating, collected, scheduler>>
    BY <1>8 DEF Reserve, workerVars, stopVars
  <2>2. \/ UNCHANGED <<silence, overdue>>
        \/ silence' = [silence EXCEPT ![place[t]] = 0] /\ overdue' = overdue \ {place[t]}
    BY <1>8 DEF Reserve, HeardOf
  <2> QED
    BY <2>1, <2>2, QuietSteps DEF Quiet, TypeOK
<1>9. ASSUME UNCHANGED <<registered, silence, overdue, beating, collected, scheduler>>
      PROVE  Punctual'
  BY <1>9, QuietSteps DEF Quiet
<1>10. ASSUME NEW t \in Tasks, ReleaseNodeResources(t) \/ Forget(t) \/ \E n \in Nodes : ChooseNode(t, n)
       PROVE  Punctual'
  BY <1>9, <1>10 DEF ReleaseNodeResources, Forget, ChooseNode, nodeVars, workerVars, stopVars
<1>11. CASE UNCHANGED vars
  BY <1>9, <1>11 DEF vars
<1> QED
  BY <1>1, <1>2, <1>3, <1>4, <1>5, <1>6, <1>7, <1>8, <1>10, <1>11 DEF Next

(***************************************************************************)
(* Theorems.                                                               *)
(***************************************************************************)
LEMMA InvKept == Inv /\ [Next]_vars => Inv'
BY TypesKept, AbsentKept, CountsKept, WorkersKept, PunctualKept DEF Inv

LEMMA InvHolds == Spec => []Inv
BY InitInv, InvKept, PTL DEF Spec

(* Every count of the registry is a natural number. *)
THEOREM RegistryTypeCorrect == Spec => []TypeOK
<1>1. Inv => TypeOK
  BY DEF Inv
<1> QED
  BY <1>1, InvHolds, PTL

(* A node counts no more tasks than are placed on it, and all of them as   *)
(* long as it has not left and no task was released on it twice.           *)
THEOREM CountsStaySafe == Spec => []CountsAreSafe
<1>1. Inv => CountsAreSafe
  BY DEF Inv
<1> QED
  BY <1>1, InvHolds, PTL

(* The worker of a removed node is going to be stopped. *)
THEOREM WorkersAreRemembered == Spec => []NoWorkerIsForgotten
<1>1. Inv => NoWorkerIsForgotten
  BY DEF Inv, WorkersInv
<1> QED
  BY <1>1, InvHolds, PTL

(* Only a node that came back before its old worker was stopped is left    *)
(* without one.                                                            *)
THEOREM OthersKeepTheirWorker == Spec => []OnlyHastyNodesLoseTheirWorker
<1>1. Inv => OnlyHastyNodesLoseTheirWorker
  BY DEF Inv, WorkersInv
<1> QED
  BY <1>1, InvHolds, PTL

(* A node whose worker beats in time is not removed for its silence.       *)
THEOREM BeatingNodesAreKept == Spec => BeatingNodesStay
<1> DEFINE Stay == \A n \in registered \ registered' :
                      (n \in workers' /\ n \notin overdue) => ~Beats(n)
<1>1. ASSUME Inv, [Next]_vars PROVE [Stay]_vars
  <2>1. CASE registered \subseteq registered'
    BY <2>1
  <2>2. CASE cleanupInactiveNodes
    <3>1. \A n \in registered \ registered' : silence[n] > HeartbeatTimeout
      BY <2>2 DEF cleanupInactiveNodes, Inactive
    <3> QED
      BY <1>1, <3>1, TimeAssumption DEF Inv, Punctual, TypeOK
  <2>3. ASSUME NEW n \in Nodes, UnregisterNode(n) PROVE Stay
    BY <2>3 DEF UnregisterNode, stopHeartbeatWorker
  <2>4. ASSUME NEW n \in Nodes, RegisterNode(n) PROVE registered \subseteq registered'
    BY <2>4 DEF RegisterNode, AddNode
  <2> QED
    BY <1>1, <2>1, <2>2, <2>3, <2>4
       DEF Next, vars, Tick, Suspended, CleanerReturns, StopClears, StopCancels, StopReturns, StopAgain,
           Heartbeat, sendHeartbeat, WorkerReturns, StopOldWorker, UpdateNodeStatus, Reserve,
           ReleaseNodeResources, Forget, ChooseNode, nodeVars
<1> QED
  BY <1>1, InvHolds, PTL DEF Spec, BeatingNodesStay
=============================================================================
