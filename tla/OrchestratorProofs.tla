------------------------- MODULE OrchestratorProofs -------------------------
(***************************************************************************)
(* The reservations are safe, for any nodes, services, tasks, strategies,  *)
(* failures and bounds.  The invariant Inv says what each goroutine may    *)
(* rely on between two of its calls:                                       *)
(*                                                                         *)
(*   - whatever names a task in work names its node and its service        *)
(*     (RecordsPlaced), and as long as the reservation stands all copies   *)
(*     name the node and the service the store names (CopiesAgree), so     *)
(*     that a release from an old copy gives the right amount back on the  *)
(*     right node, and what a node counts is what its tasks hold, until    *)
(*     one is released there once more (UsedIsHeld, NothingLeaks);         *)
(*   - nobody holds a copy to act on of a task whose executor is at work   *)
(*     (OwnedAreLeftAlone);                                                *)
(*   - the task at hand is of the kind the handler expects, and has no     *)
(*     reservation once the handler has released it (RegistersSound).      *)
(*                                                                         *)
(* There is a lemma for every action.  Each shows what the action changes, *)
(* then that it is Careful with every task, which keeps the parts about    *)
(* records, then the registers, the counts and the load of the nodes.      *)
(***************************************************************************)
EXTENDS OrchestratorProperties, FiniteSums

USE DEF storeVars, dockerVars, executorVars, scalingVars, reconcileVars, healthVars,
        budgetVars, schedulerVars, Agree

(***************************************************************************)
(* Counting, releasing and launching.                                      *)
(***************************************************************************)

(* The reservations on a node can be counted.                              *)
LEMMA CardinalityIsNatural ==
    ASSUME TypeOK, NEW n \in Nodes
    PROVE  IsFiniteSet(HeldOn(n)) /\ Cardinality(HeldOn(n)) \in Nat
<1>1. HeldOn(n) \subseteq Tasks
  BY DEF HeldOn, TypeOK
<1>2. QED
  BY <1>1, FiniteTasks, FS_Subset, FS_CardinalityType

(* A task whose reservation stands has its place.                          *)
LEMMA ReservedArePlaced ==
    ASSUME Inv, NEW t \in reserved
    PROVE  t \in Tasks /\ Placed(tasks[t])
<1>1. t \in Tasks /\ (tasks[t].desired = "running" \/ GivingBack(t))
  BY DEF Inv, TypeOK, ReservedAreWanted
<1>2. CASE tasks[t].desired = "running"
  BY <1>1, <1>2 DEF Inv, RecordsPlaced, Done
<1>3. CASE GivingBack(t)
  <2>1. snap[t].status = "running"
    BY <1>3 DEF Inv, RegistersSound, GivingBack, ScalingDown
  <2>2. Placed(snap[t]) /\ Agree(snap[t], tasks[t])
    BY <1>1, <2>1 DEF Inv, RecordsPlaced, CopiesAgree, Done, Terminated
  <2>3. QED
    BY <1>1, <2>2 DEF Placed
<1>4. QED
  BY <1>1, <1>2, <1>3

(* What the tasks hold on a node is added up from numbers.                 *)
LEMMA LoadsAreNumbers ==
    ASSUME Inv, NEW n \in Nodes
    PROVE  Load(n) \in [Tasks -> Nat]
<1>1. ASSUME NEW t \in HeldOn(n) PROVE Request[tasks[t].service] \in Nat
  BY ReservedArePlaced, ServiceAssumption DEF HeldOn, Placed
<1>2. QED
  BY <1>1 DEF Load

(* Nothing leaks in a step that leaves the reservations, their nodes and   *)
(* services, and the scheduler's counts alone.                             *)
LEMMA HoldersKept ==
    ASSUME Inv, UNCHANGED <<reserved, doubled, taskCount, used>>,
           \A t \in reserved : Agree(tasks'[t], tasks[t])
    PROVE  NothingLeaks' /\ UsedIsHeld'
<1>1. ASSUME NEW n \in Nodes PROVE HeldOn(n)' = HeldOn(n)
  BY DEF HeldOn
<1>2. ASSUME NEW n \in Nodes PROVE Load(n)' = Load(n)
  <2>1. \A t \in HeldOn(n) : tasks'[t].service = tasks[t].service
    BY DEF HeldOn
  <2>2. QED
    BY <1>1, <2>1 DEF Load
<1>3. NothingLeaks'
  BY <1>1 DEF Inv, NothingLeaks
<1>4. UsedIsHeld'
  BY <1>2 DEF Inv, UsedIsHeld, Held
<1>5. QED
  BY <1>3, <1>4

(* A step that loads no node more, promises included, keeps the bound on   *)
(* overcommitment.                                                         *)
LEMMA LoadKept ==
    ASSUME Inv, \A n \in Nodes : used'[n] + Promised(n)' <= used[n] + Promised(n),
           \A n \in Nodes : used[n] + Promised(n) \in Int /\ used'[n] + Promised(n)' \in Int
    PROVE  CountsFit'
BY CapacityAssumption, ServiceAssumption DEF Inv, CountsFit

(* What is used on a node and what is promised there are numbers.          *)
LEMMA PromisesAreNatural ==
    ASSUME TypeOK, RegistersSound, NEW n \in Nodes
    PROVE  used[n] \in Nat /\ taskCount[n] \in Nat /\ Promised(n) \in Nat
<1>1. rec.picked = n => rec.svc \in Services
  BY NoneIsNone DEF RegistersSound, Creating
<1>2. boot.picked = n => boot.svc \in Services
  BY NoneIsNone DEF RegistersSound
<1>3. QED
  BY <1>1, <1>2, ServiceAssumption DEF TypeOK, SchedulerTypeOK, Promised

(* scheduler.ReleaseNodeResources for a task, from any record of it that   *)
(* names the node the store names: usage only falls, and nothing leaks,    *)
(* also when the task was released before.                                 *)
LEMMA ReleaseSound ==
    ASSUME Inv, NEW t \in Tasks, NEW r \in Record, Placed(r), Release(t, r),
           t \in reserved => Agree(tasks[t], r), UNCHANGED tasks
    PROVE  /\ SchedulerTypeOK' /\ reserved' \subseteq Tasks /\ doubled' \subseteq Nodes
           /\ \A n \in Nodes : used'[n] <= used[n]
           /\ NothingLeaks' /\ UsedIsHeld'
<1>1. /\ r.node \in Nodes /\ r.service \in Services /\ Request[r.service] \in Nat
      /\ used \in [Nodes -> Nat] /\ taskCount \in [Nodes -> Nat]
      /\ nodeStatus \in [Nodes -> {"ready", "draining"}]
      /\ reserved \subseteq Tasks /\ doubled \subseteq Nodes
  BY ServiceAssumption DEF Placed, Inv, TypeOK, SchedulerTypeOK
<1>2. /\ nodeStatus' = nodeStatus /\ reserved' = reserved \ {t}
      /\ used' = [used EXCEPT ![r.node] = Less(@, Request[r.service])]
      /\ taskCount' = [taskCount EXCEPT ![r.node] = Less(@, 1)]
      /\ doubled' = IF t \in reserved THEN doubled ELSE doubled \cup {r.node}
  BY DEF Release, ReleaseNodeResources
<1>3. \A n \in Nodes : Less(used[n], Request[r.service]) \in Nat
                          /\ Less(used[n], Request[r.service]) <= used[n]
  BY <1>1 DEF Less
<1>4. \A n \in Nodes : Less(taskCount[n], 1) \in Nat
  BY <1>1 DEF Less
<1>5. SchedulerTypeOK' /\ \A n \in Nodes : used'[n] <= used[n]
  BY <1>1, <1>2, <1>3, <1>4 DEF SchedulerTypeOK
<1>6. ASSUME NEW n \in Nodes
      PROVE  /\ taskCount'[n] <= Cardinality(HeldOn(n)')
             /\ n \notin doubled' => taskCount'[n] = Cardinality(HeldOn(n)')
  <2>1. /\ IsFiniteSet(HeldOn(n)) /\ Cardinality(HeldOn(n)) \in Nat
        /\ taskCount[n] <= Cardinality(HeldOn(n)) /\ taskCount[n] \in Nat
        /\ n \notin doubled => taskCount[n] = Cardinality(HeldOn(n))
    BY CardinalityIsNatural, <1>1 DEF Inv, NothingLeaks
  <2>2. HeldOn(n)' = HeldOn(n) \ {t}
    BY <1>2 DEF HeldOn
  <2>3. CASE t \in HeldOn(n)
    <3>1. n = r.node
      BY <2>3 DEF HeldOn
    <3>2. Cardinality(HeldOn(n)') = Cardinality(HeldOn(n)) - 1 /\ Cardinality(HeldOn(n)') \in Nat
      BY <2>1, <2>2, <2>3, FS_RemoveElement, FS_CardinalityType
    <3>3. taskCount'[n] = Less(taskCount[n], 1) /\ doubled' = doubled
      BY <1>1, <1>2, <2>3, <3>1 DEF HeldOn
    <3>4. QED
      BY <2>1, <3>2, <3>3 DEF Less
  <2>4. CASE t \notin HeldOn(n)
    <3>1. HeldOn(n)' = HeldOn(n)
      BY <2>2, <2>4
    <3>2. taskCount'[n] = taskCount[n] \/ taskCount'[n] = Less(taskCount[n], 1)
      BY <1>1, <1>2
    <3>3. n \notin doubled' => n \notin doubled /\ taskCount'[n] = taskCount[n]
      <4>1. CASE t \in reserved
        <5>1. n # r.node
          BY <2>4, <4>1 DEF HeldOn
        <5>2. QED
          BY <1>1, <1>2, <4>1, <5>1
      <4>2. CASE t \notin reserved
        BY <1>1, <1>2, <4>2
      <4>3. QED
        BY <4>1, <4>2
    <3>4. QED
      BY <2>1, <3>1, <3>2, <3>3 DEF Less
  <2>5. QED
    BY <2>3, <2>4
<1>7. reserved' \subseteq Tasks /\ doubled' \subseteq Nodes
  BY <1>1, <1>2
<1>8. ASSUME NEW n \in Nodes, n \notin doubled' PROVE used'[n] = Held(n)'
  <2>1. n \notin doubled /\ used[n] = Held(n) /\ used[n] \in Nat
    BY <1>1, <1>2, <1>8 DEF Inv, UsedIsHeld
  <2>2. Load(n) \in [Tasks -> Nat] /\ HeldOn(n)' = HeldOn(n) \ {t} /\ HeldOn(n) \subseteq reserved
    BY <1>2, LoadsAreNumbers DEF HeldOn
  <2>3. Load(n)' = [u \in Tasks |-> IF u = t THEN 0 ELSE Load(n)[u]]
    BY <2>2 DEF Load
  <2>4. /\ Load(n) \in [Tasks -> Int] /\ Load(n)' \in [Tasks -> Int] /\ Load(n)' \in [Tasks -> Nat]
        /\ \A u \in Tasks \ {t} : Load(n)'[u] = Load(n)[u]
        /\ Load(n)'[t] = 0
    BY <2>2, <2>3
  <2>5. Held(n)' = Held(n) + Load(n)'[t] - Load(n)[t] /\ Held(n)' \in Nat
    <3> DEFINE f == Load(n)
               g == Load(n)'
    <3>1. Held(n) = SumFunction(f) /\ Held(n)' = SumFunction(g)
      BY DEF Held
    <3>2. f \in [Tasks -> Int] /\ g \in [Tasks -> Int] /\ \A u \in Tasks \ {t} : g[u] = f[u]
      BY <2>4
    <3> HIDE DEF f, g
    <3>3. SumFunction(g) = SumFunction(f) + g[t] - f[t]
      BY <3>2, FiniteTasks, SumDiffers
    <3>4. SumFunction(g) \in Nat
      <4>1. \A u \in Tasks : g[u] >= 0
        BY <2>4 DEF g
      <4>2. QED
        BY <3>2, <4>1, FiniteTasks, SumNatural
    <3>5. QED
      BY <3>1, <3>3, <3>4 DEF f, g
  <2>6. CASE t \in HeldOn(n)
    <3>1. n = r.node /\ Load(n)[t] = Request[r.service]
      BY <2>6 DEF HeldOn, Load
    <3>2. used'[n] = Less(used[n], Request[r.service])
      BY <1>1, <1>2, <3>1
    <3>3. QED
      BY <1>1, <2>1, <2>4, <2>5, <3>1, <3>2 DEF Less
  <2>7. CASE t \notin HeldOn(n)
    <3>1. n # r.node
      <4>1. CASE t \in reserved
        BY <2>7, <4>1 DEF HeldOn
      <4>2. CASE t \notin reserved
        BY <1>1, <1>2, <1>8, <4>2
      <4>3. QED
        BY <4>1, <4>2
    <3>2. used'[n] = used[n] /\ Load(n)[t] = 0
      BY <1>1, <1>2, <2>7, <3>1 DEF Load
    <3>3. QED
      BY <2>1, <2>4, <2>5, <3>2
  <2>8. QED
    BY <2>6, <2>7
<1>9. QED
  BY <1>5, <1>6, <1>7, <1>8 DEF NothingLeaks, UsedIsHeld

(* A fresh task ID holds no reservation.                                   *)
LEMMA FreshIsFree ==
    ASSUME Inv, NEW t \in Tasks, Fresh(t)
    PROVE  t \notin reserved
BY DEF Inv, ReservedAreWanted, GivingBack, Fresh, Unused, Done

(* The second half of createServiceTask, in either creator: the new record *)
(* is placed, nobody holds a copy of it, and the node counts one task more *)
(* for one reservation more.                                               *)
LEMMA LaunchSound ==
    ASSUME Inv, NEW s \in Services, NEW n \in Nodes, Launch(s, n),
           UNCHANGED <<snap, drained, seen>>,
           \A u \in Tasks : GivingBack(u) => GivingBack(u)'
    PROVE  /\ tasks' \in [Tasks -> Record] /\ mine' \in [Tasks -> Record]
           /\ phase' \in [Tasks -> {"none", "spawned", "creating", "created", "refused", "releasing"}]
           /\ SchedulerTypeOK' /\ reserved' \subseteq Tasks /\ doubled' \subseteq Nodes
           /\ \A m \in Nodes : used'[m] = IF m = n THEN used[m] + Request[s] ELSE used[m]
           /\ RecordsPlaced' /\ CopiesAgree' /\ OwnedAreLeftAlone'
           /\ NothingLeaks' /\ UsedIsHeld' /\ ReservedAreWanted'
<1> DEFINE r == NewTask(s, n)
<1>1. PICK t \in Tasks : /\ Fresh(t)
                         /\ updateNodeResources(n, Request[s])
                         /\ reserved' = reserved \cup {t} /\ doubled' = doubled
                         /\ tasks' = [tasks EXCEPT ![t] = r]
                         /\ mine' = [mine EXCEPT ![t] = r]
                         /\ phase' = [phase EXCEPT ![t] = "spawned"]
  BY DEF Launch
<1>2. /\ r \in Record /\ r.status = "pending" /\ r.desired = "running" /\ r.node = n
      /\ Placed(r)
  BY DEF NewTask, Record, Placed
<1> HIDE DEF r
<1>3. /\ tasks \in [Tasks -> Record] /\ mine \in [Tasks -> Record]
      /\ phase \in [Tasks -> {"none", "spawned", "creating", "created", "refused", "releasing"}]
      /\ used \in [Nodes -> Nat] /\ taskCount \in [Nodes -> Nat]
      /\ nodeStatus \in [Nodes -> {"ready", "draining"}]
      /\ reserved \subseteq Tasks /\ doubled \subseteq Nodes
      /\ Request[s] \in Nat
  BY ServiceAssumption DEF Inv, TypeOK, SchedulerTypeOK
<1>4. t \notin reserved
  BY <1>1, FreshIsFree
<1>5. Done(snap[t]) /\ drained[t] = Absent /\ seen[t] = Absent
  BY <1>1 DEF Fresh, Unused
<1>6. /\ tasks' \in [Tasks -> Record] /\ mine' \in [Tasks -> Record]
      /\ phase' \in [Tasks -> {"none", "spawned", "creating", "created", "refused", "releasing"}]
      /\ reserved' \subseteq Tasks /\ doubled' \subseteq Nodes
      /\ tasks'[t] = r /\ mine'[t] = r /\ phase'[t] = "spawned"
      /\ \A u \in Tasks \ {t} :
            tasks'[u] = tasks[u] /\ mine'[u] = mine[u] /\ phase'[u] = phase[u]
  BY <1>1, <1>2, <1>3
<1>7. /\ SchedulerTypeOK'
      /\ \A m \in Nodes : /\ used'[m] = IF m = n THEN used[m] + Request[s] ELSE used[m]
                          /\ taskCount'[m] = IF m = n THEN taskCount[m] + 1 ELSE taskCount[m]
  BY <1>1, <1>3 DEF updateNodeResources, SchedulerTypeOK
<1>8. RecordsPlaced'
  BY <1>2, <1>5, <1>6 DEF Inv, RecordsPlaced
<1>9. CopiesAgree'
  BY <1>1, <1>3, <1>5, <1>6 DEF Inv, CopiesAgree
<1>10. OwnedAreLeftAlone'
  BY <1>2, <1>5, <1>6 DEF Inv, OwnedAreLeftAlone
<1>11. ReservedAreWanted'
  BY <1>1, <1>2, <1>3, <1>6 DEF Inv, ReservedAreWanted
<1>12. ASSUME NEW m \in Nodes
       PROVE  /\ taskCount'[m] <= Cardinality(HeldOn(m)')
              /\ m \notin doubled' => taskCount'[m] = Cardinality(HeldOn(m)')
  <2>1. /\ IsFiniteSet(HeldOn(m)) /\ Cardinality(HeldOn(m)) \in Nat
        /\ taskCount[m] <= Cardinality(HeldOn(m)) /\ taskCount[m] \in Nat
        /\ m \notin doubled' => taskCount[m] = Cardinality(HeldOn(m))
    BY CardinalityIsNatural, <1>1, <1>3 DEF Inv, NothingLeaks
  <2>2. t \notin HeldOn(m)
    BY <1>4 DEF HeldOn
  <2>3. CASE m = n
    <3>1. HeldOn(m)' = HeldOn(m) \cup {t}
      BY <1>1, <1>2, <1>3, <1>4, <1>6, <2>3 DEF HeldOn
    <3>2. Cardinality(HeldOn(m)') = Cardinality(HeldOn(m)) + 1
      BY <2>1, <2>2, <3>1, FS_AddElement
    <3>3. QED
      BY <1>7, <2>1, <2>3, <3>2
  <2>4. CASE m # n
    <3>1. HeldOn(m)' = HeldOn(m)
      BY <1>1, <1>2, <1>3, <1>4, <1>6, <2>4 DEF HeldOn
    <3>2. QED
      BY <1>7, <2>1, <2>4, <3>1
  <2>5. QED
    BY <2>3, <2>4
<1>13. ASSUME NEW m \in Nodes, m \notin doubled' PROVE used'[m] = Held(m)'
  <2>1. m \notin doubled /\ used[m] = Held(m) /\ used[m] \in Nat
    BY <1>1, <1>3, <1>13 DEF Inv, UsedIsHeld
  <2>2. /\ Load(m) \in [Tasks -> Nat] /\ t \notin HeldOn(m)
        /\ HeldOn(m)' = IF m = n THEN HeldOn(m) \cup {t} ELSE HeldOn(m)
    BY <1>1, <1>2, <1>3, <1>4, <1>6, LoadsAreNumbers DEF HeldOn
  <2>3. \A u \in HeldOn(m) : tasks'[u] = tasks[u]
    BY <1>3, <1>6, <2>2 DEF HeldOn
  <2>4. r.service = s
    BY DEF r, NewTask
  <2>5. Load(m)' = [u \in Tasks |-> IF u = t THEN IF m = n THEN Request[s] ELSE 0 ELSE Load(m)[u]]
    BY <1>6, <2>2, <2>3, <2>4 DEF Load
  <2>6. Load(m)[t] = 0
    BY <2>2 DEF Load
  <2>7. Held(m)' = Held(m) + Load(m)'[t] - Load(m)[t]
    <3> DEFINE f == Load(m)
               g == Load(m)'
    <3>1. Held(m) = SumFunction(f) /\ Held(m)' = SumFunction(g)
      BY DEF Held
    <3>2. f \in [Tasks -> Int] /\ g \in [Tasks -> Int] /\ \A u \in Tasks \ {t} : g[u] = f[u]
      BY <1>3, <2>2, <2>5
    <3> HIDE DEF f, g
    <3>3. SumFunction(g) = SumFunction(f) + g[t] - f[t]
      BY <3>2, FiniteTasks, SumDiffers
    <3>4. QED
      BY <3>1, <3>3 DEF f, g
  <2>8. Load(m)'[t] = IF m = n THEN Request[s] ELSE 0
    BY <2>5
  <2>9. QED
    BY <1>3, <1>7, <2>1, <2>6, <2>7, <2>8
<1>14. QED
  BY <1>6, <1>7, <1>8, <1>9, <1>10, <1>11, <1>12, <1>13 DEF NothingLeaks, UsedIsHeld

(***************************************************************************)
(* What a step may do to the record of a task, to its executor and to the  *)
(* copies of it.                                                           *)
(***************************************************************************)
RecordKept(u) ==
    \/ tasks'[u] = tasks[u]
    \/ /\ Done(tasks'[u]) \/ Placed(tasks'[u])
       /\ u \in reserved' => /\ Agree(tasks'[u], tasks[u])
                             /\ tasks'[u].desired = "running" \/ GivingBack(u)'

ExecutorKept(u) ==
    /\ phase'[u] # "none" => /\ phase[u] # "none"
                             /\ mine'[u].desired = mine[u].desired
                             /\ Agree(mine'[u], mine[u])
    /\ phase'[u] \in Owned => /\ phase[u] \in Owned
                               /\ tasks'[u] = mine'[u]
                               /\ mine'[u].status \in {"pending", "starting"}

SnapKept(u) ==
    \/ snap'[u] = snap[u]
    \/ Done(snap'[u])
    \/ snap'[u] = tasks[u]
    \/ /\ ~Done(snap[u]) /\ phase'[u] \notin Owned
       /\ Agree(snap'[u], snap[u])

DrainedKept(u) ==
    \/ drained'[u] = drained[u]
    \/ drained'[u] = Absent
    \/ drained'[u] = tasks[u] /\ tasks[u].status = "running"

SeenKept(u) ==
    \/ seen'[u] = seen[u]
    \/ seen'[u] = Absent
    \/ seen'[u] = tasks[u] /\ tasks[u].status = "running"

Careful(u) ==
    /\ RecordKept(u) /\ ExecutorKept(u) /\ SnapKept(u) /\ DrainedKept(u) /\ SeenKept(u)
    /\ GivingBack(u) /\ u \in reserved' => GivingBack(u)'

(* Four parts of the invariant, from what a step does to one task at a     *)
(* time.                                                                   *)
LEMMA CarefulSteps ==
    ASSUME Inv, reserved' \subseteq reserved, \A u \in Tasks : Careful(u)
    PROVE  RecordsPlaced' /\ CopiesAgree' /\ OwnedAreLeftAlone' /\ ReservedAreWanted'
<1> SUFFICES ASSUME NEW u \in Tasks
    PROVE  /\ ~Done(tasks'[u]) => Placed(tasks'[u])
           /\ ~Done(snap'[u]) => Placed(snap'[u])
           /\ drained'[u] # Absent => drained'[u].status = "running" /\ Placed(drained'[u])
           /\ seen'[u] # Absent => seen'[u].status = "running" /\ Placed(seen'[u])
           /\ phase'[u] # "none" => mine'[u].desired = "running" /\ Placed(mine'[u])
           /\ u \in reserved' =>
                 /\ ~Done(snap'[u]) => Agree(snap'[u], tasks'[u])
                 /\ drained'[u] # Absent => Agree(drained'[u], tasks'[u])
                 /\ seen'[u] # Absent => /\ Agree(seen'[u], tasks'[u])
                                         /\ seen'[u].desired = "running" \/ GivingBack(u)'
                 /\ phase'[u] # "none" => Agree(mine'[u], tasks'[u])
                 /\ tasks'[u].desired = "running" \/ GivingBack(u)'
           /\ phase'[u] \in Owned =>
                 /\ tasks'[u] = mine'[u] /\ mine'[u].status \in {"pending", "starting"}
                 /\ Done(snap'[u]) \/ snap'[u].status \in {"pending", "starting"}
                 /\ drained'[u] = Absent /\ seen'[u] = Absent
  BY DEF RecordsPlaced, CopiesAgree, OwnedAreLeftAlone, ReservedAreWanted, Inv, TypeOK
<1> USE DEF Careful
<1>1. /\ ~Done(tasks[u]) => Placed(tasks[u])
      /\ ~Done(snap[u]) => Placed(snap[u])
      /\ drained[u] # Absent => drained[u].status = "running" /\ Placed(drained[u])
      /\ seen[u] # Absent => seen[u].status = "running" /\ Placed(seen[u])
      /\ phase[u] # "none" => mine[u].desired = "running" /\ Placed(mine[u])
  BY DEF Inv, RecordsPlaced
<1>2. u \in reserved' =>
         /\ ~Done(snap[u]) => Agree(snap[u], tasks[u])
         /\ drained[u] # Absent => Agree(drained[u], tasks[u])
         /\ seen[u] # Absent => /\ Agree(seen[u], tasks[u])
                                /\ seen[u].desired = "running" \/ GivingBack(u)
         /\ phase[u] # "none" => Agree(mine[u], tasks[u])
         /\ tasks[u].desired = "running" \/ GivingBack(u)
  BY DEF Inv, CopiesAgree, ReservedAreWanted
<1>3. phase[u] \in Owned =>
         /\ tasks[u] = mine[u] /\ mine[u].status \in {"pending", "starting"}
         /\ Done(snap[u]) \/ snap[u].status \in {"pending", "starting"}
         /\ drained[u] = Absent /\ seen[u] = Absent
  BY DEF Inv, OwnedAreLeftAlone
<1>4. tasks[u].status = "running" => ~Done(tasks[u])
  BY DEF Done, Terminated
<1>5. u \in reserved' => Agree(tasks'[u], tasks[u])
  BY DEF RecordKept
<1>6. ~Done(tasks'[u]) => Placed(tasks'[u])
  BY <1>1 DEF RecordKept
<1>7. ~Done(snap'[u]) => Placed(snap'[u])
  BY <1>1 DEF SnapKept, Placed
<1>8. drained'[u] # Absent => drained'[u].status = "running" /\ Placed(drained'[u])
  BY <1>1, <1>4 DEF DrainedKept
<1>9. seen'[u] # Absent => seen'[u].status = "running" /\ Placed(seen'[u])
  BY <1>1, <1>4 DEF SeenKept
<1>10. phase'[u] # "none" => mine'[u].desired = "running" /\ Placed(mine'[u])
  BY <1>1 DEF ExecutorKept, Placed
<1>11. u \in reserved' =>
          /\ ~Done(snap'[u]) => Agree(snap'[u], tasks'[u])
          /\ drained'[u] # Absent => Agree(drained'[u], tasks'[u])
          /\ seen'[u] # Absent => /\ Agree(seen'[u], tasks'[u])
                                  /\ seen'[u].desired = "running" \/ GivingBack(u)'
          /\ phase'[u] # "none" => Agree(mine'[u], tasks'[u])
          /\ tasks'[u].desired = "running" \/ GivingBack(u)'
  <2> SUFFICES ASSUME u \in reserved'
      PROVE  /\ ~Done(snap'[u]) => Agree(snap'[u], tasks'[u])
             /\ drained'[u] # Absent => Agree(drained'[u], tasks'[u])
             /\ seen'[u] # Absent => /\ Agree(seen'[u], tasks'[u])
                                     /\ seen'[u].desired = "running" \/ GivingBack(u)'
             /\ phase'[u] # "none" => Agree(mine'[u], tasks'[u])
             /\ tasks'[u].desired = "running" \/ GivingBack(u)'
    OBVIOUS
  <2>1. ~Done(snap'[u]) => Agree(snap'[u], tasks'[u])
    BY <1>2, <1>5 DEF SnapKept
  <2>2. drained'[u] # Absent => Agree(drained'[u], tasks'[u])
    BY <1>2, <1>5 DEF DrainedKept
  <2>3. seen'[u] # Absent => /\ Agree(seen'[u], tasks'[u])
                             /\ seen'[u].desired = "running" \/ GivingBack(u)'
    BY <1>2, <1>5 DEF SeenKept
  <2>4. phase'[u] # "none" => Agree(mine'[u], tasks'[u])
    BY <1>2, <1>5 DEF ExecutorKept
  <2>5. tasks'[u].desired = "running" \/ GivingBack(u)'
    BY <1>2 DEF RecordKept
  <2>6. QED
    BY <2>1, <2>2, <2>3, <2>4, <2>5
<1>12. phase'[u] \in Owned =>
          /\ tasks'[u] = mine'[u] /\ mine'[u].status \in {"pending", "starting"}
          /\ Done(snap'[u]) \/ snap'[u].status \in {"pending", "starting"}
          /\ drained'[u] = Absent /\ seen'[u] = Absent
  BY <1>3 DEF ExecutorKept, SnapKept, DrainedKept, SeenKept
<1>13. QED
  BY <1>6, <1>7, <1>8, <1>9, <1>10, <1>11, <1>12

(* A step that changes no record and no copy of one. *)
LEMMA RecordsUntouched ==
    ASSUME Inv, UNCHANGED <<tasks, phase, mine, snap, drained, seen>>, reserved' \subseteq reserved,
           \A u \in reserved' : GivingBack(u) => GivingBack(u)'
    PROVE  RecordsPlaced' /\ CopiesAgree' /\ OwnedAreLeftAlone' /\ ReservedAreWanted'
<1>1. ASSUME NEW u \in Tasks PROVE Careful(u)
  BY DEF Inv, OwnedAreLeftAlone, Careful, RecordKept, ExecutorKept, SnapKept, DrainedKept, SeenKept
<1>2. QED
  BY <1>1, CarefulSteps

(* What a release leaves on the nodes, when nobody chooses a node in it. *)
LEMMA ReleaseLightens ==
    ASSUME Inv, SchedulerTypeOK', \A n \in Nodes : used'[n] <= used[n],
           rec'.picked = rec.picked \/ rec'.picked = None,
           rec'.picked # None => rec'.svc = rec.svc,
           UNCHANGED boot
    PROVE  CountsFit'
<1>1. ASSUME NEW n \in Nodes
      PROVE  /\ used'[n] + Promised(n)' <= used[n] + Promised(n)
             /\ used[n] + Promised(n) \in Int /\ used'[n] + Promised(n)' \in Int
  <2>1. used[n] \in Nat /\ Promised(n) \in Nat /\ used'[n] \in Nat
    BY PromisesAreNatural DEF Inv, SchedulerTypeOK
  <2>2. /\ rec.picked = n => Request[rec.svc] \in Nat
        /\ boot.picked = n => Request[boot.svc] \in Nat
    BY NoneIsNone, ServiceAssumption DEF Inv, RegistersSound, Creating
  <2>3. QED
    BY <2>1, <2>2, NoneIsNone DEF Promised
<1>2. QED
  BY <1>1, LoadKept

(* The registers stay sound in a step of somebody else that takes no copy  *)
(* away from the task at hand and only gives reservations back.            *)
LEMMA RegistersUntouched ==
    ASSUME Inv, UNCHANGED <<rec, boot, health>>, reserved' \subseteq reserved,
           \A u \in Tasks : /\ snap'[u] = snap[u] \/ (rec.cur # u /\ u \notin rec.queue)
                            /\ drained'[u] = drained[u] \/ rec.cur # u
                            /\ seen'[u] = seen[u] \/ health.cur # u
    PROVE  RegistersSound'
BY DEF Inv, TypeOK, ReconcileRegisters, RegistersSound, NeedsRestart, Evacuating, Restarting,
       ScalingDown

(* No node is loaded more in a step that chooses and reserves nothing.     *)
LEMMA LoadUntouched ==
    ASSUME Inv, UNCHANGED <<used, rec, boot>>
    PROVE  CountsFit'
BY DEF Inv, CountsFit, Promised

(***************************************************************************)
(* executeTask.                                                            *)
(***************************************************************************)

(* What the three writes of executeTask have in common: the task object    *)
(* keeps the node, the service and the desired state it was made with.     *)
LEMMA ExecutorWritesKeepInv ==
    ASSUME Inv, NEW t \in Tasks, phase[t] \in Owned, NEW r \in Record,
           NEW p \in {"none", "creating", "releasing"},
           r.desired = mine[t].desired, r.node = mine[t].node, r.service = mine[t].service,
           p = "creating" => r.status = "starting",
           phase' = [phase EXCEPT ![t] = p], ExecutorUpdate(t, r),
           UNCHANGED <<dockerVars, reserved, doubled, scalingVars, reconcileVars, healthVars, boot,
                       budgetVars, schedulerVars>>
    PROVE  Inv'
<1>1. /\ tasks \in [Tasks -> Record] /\ mine \in [Tasks -> Record] /\ Absent \in Record
      /\ phase \in [Tasks -> {"none", "spawned", "creating", "created", "refused", "releasing"}]
      /\ reserved \subseteq Tasks
  BY DEF Inv, TypeOK, Absent, Record
<1>2. /\ tasks' = [tasks EXCEPT ![t] = r]
      /\ mine' = [mine EXCEPT ![t] = IF p = "none" THEN Absent ELSE r]
  BY <1>1 DEF ExecutorUpdate, Update
<1>3. /\ tasks'[t] = r /\ phase'[t] = p /\ (p # "none" => mine'[t] = r)
      /\ \A u \in Tasks \ {t} :
            tasks'[u] = tasks[u] /\ mine'[u] = mine[u] /\ phase'[u] = phase[u]
  BY <1>1, <1>2
<1>4. /\ mine[t].desired = "running" /\ Placed(mine[t]) /\ tasks[t] = mine[t]
      /\ Done(snap[t]) \/ snap[t].status \in {"pending", "starting"}
      /\ drained[t] = Absent /\ seen[t] = Absent
  BY DEF Inv, RecordsPlaced, OwnedAreLeftAlone, Owned
<1>5. Placed(r)
  BY <1>4 DEF Placed
<1>6. TypeOK'
  BY <1>1, <1>2 DEF Inv, TypeOK, SchedulerTypeOK
<1>7. ASSUME NEW u \in Tasks PROVE Careful(u)
  <2>1. RecordKept(u)
    BY <1>3, <1>4, <1>5 DEF RecordKept
  <2>2. ExecutorKept(u)
    BY <1>3 DEF ExecutorKept, Owned, Inv, OwnedAreLeftAlone
  <2>3. QED
    BY <2>1, <2>2 DEF Careful, SnapKept, DrainedKept, SeenKept, GivingBack
<1>8. RecordsPlaced' /\ CopiesAgree' /\ OwnedAreLeftAlone' /\ ReservedAreWanted'
  BY <1>7, CarefulSteps
<1>9. NothingLeaks' /\ UsedIsHeld'
  BY <1>1, <1>3, <1>4, HoldersKept
<1>10. RegistersSound' /\ CountsFit'
  BY RegistersUntouched, LoadUntouched
<1>11. QED
  BY <1>6, <1>8, <1>9, <1>10 DEF Inv

(* The first write of executeTask.                                         *)
LEMMA ExecStartingKeepsInv ==
    ASSUME Inv, NEW t \in Tasks, ExecStarting(t)
    PROVE  Inv'
<1> DEFINE r == [mine[t] EXCEPT !.status = "starting"]
<1>1. mine[t] \in Record
  BY DEF Inv, TypeOK
<1>2. /\ r \in Record /\ r.desired = mine[t].desired /\ r.node = mine[t].node
      /\ r.service = mine[t].service /\ r.status = "starting"
  BY <1>1 DEF Record
<1> HIDE DEF r
<1>3. phase[t] \in Owned /\ phase' = [phase EXCEPT ![t] = "creating"]
  BY DEF ExecStarting, ExecutorStep, Owned
<1>4. QED
  BY <1>2, <1>3, ExecutorWritesKeepInv DEF ExecStarting, r

(* The write of executeTask that ends well.                                *)
LEMMA ExecRunningKeepsInv ==
    ASSUME Inv, NEW t \in Tasks, ExecRunning(t)
    PROVE  Inv'
<1> DEFINE r == [mine[t] EXCEPT !.status = "running", !.container = TRUE]
<1>1. mine[t] \in Record
  BY DEF Inv, TypeOK
<1>2. /\ r \in Record /\ r.desired = mine[t].desired /\ r.node = mine[t].node
      /\ r.service = mine[t].service
  BY <1>1 DEF Record
<1> HIDE DEF r
<1>3. phase[t] \in Owned /\ phase' = [phase EXCEPT ![t] = "none"]
  BY DEF ExecRunning, ExecutorStep, Owned
<1>4. QED
  BY <1>2, <1>3, ExecutorWritesKeepInv DEF ExecRunning, r

(* The write of executeTask that reports a failure.                        *)
LEMMA ExecFailedKeepsInv ==
    ASSUME Inv, NEW t \in Tasks, ExecFailed(t)
    PROVE  Inv'
<1> DEFINE r == [mine[t] EXCEPT !.status = "failed"]
<1>1. mine[t] \in Record
  BY DEF Inv, TypeOK
<1>2. /\ r \in Record /\ r.desired = mine[t].desired /\ r.node = mine[t].node
      /\ r.service = mine[t].service
  BY <1>1 DEF Record, Terminated
<1> HIDE DEF r
<1>3. phase[t] \in Owned /\ phase' = [phase EXCEPT ![t] = "releasing"]
  BY DEF ExecFailed, ExecutorStep, Owned
<1>4. QED
  BY <1>2, <1>3, ExecutorWritesKeepInv DEF ExecFailed, r

(* CreateContainer in executeTask, whatever the daemon answers.            *)
LEMMA ExecCreateContainerKeepsInv ==
    ASSUME Inv, NEW t \in Tasks, ExecCreateContainer(t)
    PROVE  Inv'
<1>1. PICK p \in {"created", "refused"} :
         phase[t] = "creating" /\ phase' = [phase EXCEPT ![t] = p]
  BY DEF ExecCreateContainer, ExecutorStep
<1>2. /\ container' \in [Tasks -> {"none", "up", "down"}]
      /\ abandoned' \subseteq Tasks
      /\ faults' \in 0..MaxFaults
  BY BoundsAssumption DEF ExecCreateContainer, Inv, TypeOK, Fault, NoFault
<1>3. /\ UNCHANGED <<storeVars, mine, reserved, doubled, scalingVars, reconcileVars, healthVars, boot,
                     drains, schedulerVars>>
  BY DEF ExecCreateContainer
<1>4. TypeOK'
  BY <1>1, <1>2, <1>3 DEF Inv, TypeOK, SchedulerTypeOK
<1>5. ASSUME NEW u \in Tasks PROVE Careful(u)
  <2>1. ExecutorKept(u)
    BY <1>1, <1>3 DEF Inv, TypeOK, OwnedAreLeftAlone, ExecutorKept, Owned
  <2>2. QED
    BY <1>3, <2>1 DEF Careful, RecordKept, SnapKept, DrainedKept, SeenKept, GivingBack
<1>6. RecordsPlaced' /\ CopiesAgree' /\ OwnedAreLeftAlone' /\ ReservedAreWanted'
  BY <1>3, <1>5, CarefulSteps
<1>7. NothingLeaks' /\ UsedIsHeld' /\ RegistersSound' /\ CountsFit'
  BY <1>3, HoldersKept, RegistersUntouched, LoadUntouched
<1>8. QED
  BY <1>4, <1>6, <1>7 DEF Inv

(* The release with which a failed executeTask ends.                       *)
LEMMA ExecReleaseKeepsInv ==
    ASSUME Inv, NEW t \in Tasks, ExecRelease(t)
    PROVE  Inv'
<1>1. /\ phase[t] = "releasing" /\ phase' = [phase EXCEPT ![t] = "none"]
      /\ mine' = [mine EXCEPT ![t] = Absent]
      /\ Release(t, mine[t]) /\ reserved' = reserved \ {t}
      /\ UNCHANGED <<storeVars, dockerVars, scalingVars, reconcileVars, healthVars, boot,
                     budgetVars>>
  BY DEF ExecRelease, ExecutorStep, Release
<1>2. mine[t] \in Record /\ Placed(mine[t]) /\ (t \in reserved => Agree(tasks[t], mine[t]))
  BY <1>1 DEF Inv, TypeOK, RecordsPlaced, CopiesAgree
<1>3. /\ SchedulerTypeOK' /\ reserved' \subseteq Tasks /\ doubled' \subseteq Nodes
      /\ \A n \in Nodes : used'[n] <= used[n]
      /\ NothingLeaks' /\ UsedIsHeld'
  BY <1>1, <1>2, ReleaseSound
<1>4. TypeOK'
  <2>1. Absent \in Record
    BY DEF Absent, Record
  <2>2. QED
    BY <1>1, <1>3, <2>1 DEF Inv, TypeOK
<1>5. ASSUME NEW u \in Tasks PROVE Careful(u)
  <2>1. ExecutorKept(u)
    BY <1>1 DEF Inv, TypeOK, OwnedAreLeftAlone, ExecutorKept, Owned
  <2>2. QED
    BY <1>1, <2>1 DEF Careful, RecordKept, SnapKept, DrainedKept, SeenKept, GivingBack
<1>6. RecordsPlaced' /\ CopiesAgree' /\ OwnedAreLeftAlone' /\ ReservedAreWanted'
  BY <1>1, <1>5, CarefulSteps
<1>7. RegistersSound'
  BY <1>1, RegistersUntouched
<1>8. CountsFit'
  BY <1>1, <1>3, ReleaseLightens
<1>9. QED
  BY <1>3, <1>4, <1>6, <1>7, <1>8 DEF Inv

(* The record at an ID that is not in use is a record.                     *)
LEMMA AbsentIsRecord == Absent \in Record
BY DEF Absent, Record

(* A step that changes neither a record, nor a copy, nor a register. *)
LEMMA FrameKeepsInv ==
    ASSUME Inv, TypeOK', UNCHANGED <<tasks, phase, mine, reserved, doubled, rec, snap, drained, health,
                                     seen, boot, used, taskCount>>
    PROVE  Inv'
<1>1. RecordsPlaced' /\ CopiesAgree' /\ OwnedAreLeftAlone' /\ ReservedAreWanted'
  BY RecordsUntouched DEF GivingBack
<1>2. RegistersSound'
  BY RegistersUntouched
<1>3. NothingLeaks' /\ UsedIsHeld'
  BY HoldersKept
<1>4. CountsFit'
  BY LoadUntouched
<1>5. QED
  BY <1>1, <1>2, <1>3, <1>4 DEF Inv

(***************************************************************************)
(* The health check loop.                                                  *)
(***************************************************************************)

(* The health check loop copies the running tasks.                         *)
LEMMA HealthListKeepsInv ==
    ASSUME Inv, HealthList
    PROVE  Inv'
<1>1. /\ health.pc = "check"
      /\ UNCHANGED <<health, tasks, container, abandoned, phase, mine, reserved, doubled, replicas, cooling,
                     measured, rec, snap, drained, boot, faults, drains, nodeStatus, used,
                     taskCount>>
  BY DEF HealthList, OnlyHealth
<1>2. seen' \in [Tasks -> Record]
  BY AbsentIsRecord DEF HealthList, Copied, Inv, TypeOK
<1>3. TypeOK'
  BY <1>1, <1>2 DEF Inv, TypeOK, SchedulerTypeOK
<1>4. ASSUME NEW u \in Tasks PROVE Careful(u)
  <2>1. SeenKept(u)
    BY DEF HealthList, Copied, SeenKept
  <2>2. ExecutorKept(u)
    BY <1>1 DEF Inv, OwnedAreLeftAlone, ExecutorKept
  <2>3. QED
    BY <1>1, <2>1, <2>2 DEF Careful, RecordKept, SnapKept, DrainedKept, GivingBack
<1>5. RecordsPlaced' /\ CopiesAgree' /\ OwnedAreLeftAlone' /\ ReservedAreWanted'
  BY <1>1, <1>4, CarefulSteps
<1>6. RegistersSound'
  BY <1>1 DEF Inv, RegistersSound
<1>7. NothingLeaks' /\ UsedIsHeld' /\ CountsFit'
  BY <1>1, HoldersKept, LoadUntouched
<1>8. QED
  BY <1>3, <1>5, <1>6, <1>7 DEF Inv

(* It looks at one of them, and leaves it alone or finds it unhealthy.     *)
LEMMA HealthCheckKeepsInv ==
    ASSUME Inv, NEW t \in Tasks, HealthCheck(t)
    PROVE  Inv'
<1>1. /\ health.pc = "check" /\ seen[t] # Absent
      /\ UNCHANGED <<tasks, container, abandoned, phase, mine, reserved, doubled, replicas, cooling,
                     measured, rec, snap, drained, boot, drains, nodeStatus, used, taskCount>>
  BY DEF HealthCheck, OnlyHealth, ToCheck
<1>2. \/ health' = [pc |-> "fail", cur |-> t] /\ UNCHANGED seen
      \/ health' = health /\ seen' = [seen EXCEPT ![t] = Absent]
  BY DEF HealthCheck
<1>3. faults' \in 0..MaxFaults
  BY BoundsAssumption DEF HealthCheck, Fault, NoFault, Inv, TypeOK
<1>4. health' \in HealthRegisters /\ seen' \in [Tasks -> Record]
  BY <1>2, AbsentIsRecord DEF Inv, TypeOK, HealthRegisters
<1>5. TypeOK'
  BY <1>1, <1>3, <1>4 DEF Inv, TypeOK, SchedulerTypeOK
<1>6. ASSUME NEW u \in Tasks PROVE Careful(u)
  <2>1. SeenKept(u)
    BY <1>2 DEF SeenKept, Inv, TypeOK
  <2>2. ExecutorKept(u)
    BY <1>1 DEF Inv, OwnedAreLeftAlone, ExecutorKept
  <2>3. QED
    BY <1>1, <2>1, <2>2 DEF Careful, RecordKept, SnapKept, DrainedKept, GivingBack
<1>7. RecordsPlaced' /\ CopiesAgree' /\ OwnedAreLeftAlone' /\ ReservedAreWanted'
  BY <1>1, <1>6, CarefulSteps
<1>8. RegistersSound'
  BY <1>1, <1>2 DEF Inv, RegistersSound
<1>9. NothingLeaks' /\ UsedIsHeld' /\ CountsFit'
  BY <1>1, HoldersKept, LoadUntouched
<1>10. QED
  BY <1>5, <1>7, <1>8, <1>9 DEF Inv

(* What the loop holds of the task it has found to be unhealthy. *)
LEMMA UnhealthySound ==
    ASSUME Inv, health.pc \in {"fail", "release"}
    PROVE  /\ health.cur \in Tasks /\ seen[health.cur] \in Record
           /\ Placed(seen[health.cur]) /\ phase[health.cur] \notin Owned
           /\ health.cur \in reserved =>
                 /\ Agree(tasks[health.cur], seen[health.cur])
                 /\ seen[health.cur].desired = "running" \/ GivingBack(health.cur)
<1>1. health.cur \in Tasks /\ seen[health.cur] # Absent
  BY DEF Inv, RegistersSound
<1>2. QED
  BY <1>1 DEF Inv, TypeOK, RecordsPlaced, CopiesAgree, OwnedAreLeftAlone

(* It writes the unhealthy copy as failed over the record: the record      *)
(* keeps its node, and a task that is not wanted any more is one scale     *)
(* down will still release.                                                *)
LEMMA HealthFailKeepsInv ==
    ASSUME Inv, HealthFail
    PROVE  Inv'
<1> DEFINE t == health.cur
           r == [seen[t] EXCEPT !.status = "failed"]
<1>1. /\ health.pc = "fail" /\ tasks' = [tasks EXCEPT ![t] = r]
      /\ health' = [health EXCEPT !.pc = "release"]
      /\ UNCHANGED <<container, abandoned, phase, mine, reserved, doubled, replicas, cooling, measured, rec,
                     snap, drained, seen, boot, faults, drains, nodeStatus, used, taskCount>>
  BY DEF HealthFail, OnlyHealth, Update
<1>2. /\ t \in Tasks /\ seen[t] \in Record /\ Placed(seen[t]) /\ phase[t] \notin Owned
      /\ t \in reserved => /\ Agree(tasks[t], seen[t])
                           /\ seen[t].desired = "running" \/ GivingBack(t)
  BY <1>1, UnhealthySound
<1>3. /\ r \in Record /\ r.node = seen[t].node /\ r.service = seen[t].service
      /\ r.desired = seen[t].desired
  BY <1>2 DEF Record, Terminated
<1> HIDE DEF t, r
<1>4. tasks' \in [Tasks -> Record] /\ health' \in HealthRegisters
  BY <1>1, <1>3 DEF Inv, TypeOK, HealthRegisters
<1>5. TypeOK'
  BY <1>1, <1>4 DEF Inv, TypeOK, SchedulerTypeOK
<1>6. /\ tasks'[t] = r
      /\ \A u \in Tasks \ {t} : tasks'[u] = tasks[u]
  BY <1>1, <1>2 DEF Inv, TypeOK
<1>7. ASSUME NEW u \in Tasks PROVE Careful(u)
  <2>1. RecordKept(u)
    BY <1>1, <1>2, <1>3, <1>6 DEF RecordKept, Placed, GivingBack
  <2>2. ExecutorKept(u)
    BY <1>1, <1>2, <1>6 DEF Inv, OwnedAreLeftAlone, ExecutorKept
  <2>3. QED
    BY <1>1, <2>1, <2>2 DEF Careful, SnapKept, DrainedKept, SeenKept, GivingBack
<1>8. RecordsPlaced' /\ CopiesAgree' /\ OwnedAreLeftAlone' /\ ReservedAreWanted'
  BY <1>1, <1>7, CarefulSteps
<1>9. RegistersSound'
  <2>1. health'.cur = t /\ health'.pc = "release" /\ t \in Tasks /\ seen[t] # Absent
    BY <1>1, <1>2 DEF t, Inv, TypeOK, HealthRegisters, RegistersSound
  <2>2. QED
    BY <1>1, <2>1 DEF Inv, RegistersSound
<1>10. NothingLeaks' /\ UsedIsHeld'
  BY <1>1, <1>2, <1>3, <1>6, HoldersKept DEF Inv, TypeOK
<1>11. CountsFit'
  BY <1>1, LoadUntouched
<1>12. QED
  BY <1>5, <1>8, <1>9, <1>10, <1>11 DEF Inv

(* It releases the task it has failed.                                     *)
LEMMA HealthReleaseKeepsInv ==
    ASSUME Inv, HealthRelease
    PROVE  Inv'
<1> DEFINE t == health.cur
<1>1. /\ health.pc = "release" /\ Release(t, seen[t]) /\ reserved' = reserved \ {t}
      /\ seen' = [seen EXCEPT ![t] = Absent]
      /\ health' = [pc |-> "check", cur |-> None]
      /\ UNCHANGED <<tasks, container, abandoned, phase, mine, replicas, cooling, measured, rec,
                     snap, drained, boot, faults, drains>>
  BY DEF HealthRelease, OnlyHealth, Release
<1>2. /\ t \in Tasks /\ seen[t] \in Record /\ Placed(seen[t])
      /\ t \in reserved => Agree(tasks[t], seen[t])
  BY <1>1, UnhealthySound
<1> HIDE DEF t
<1>3. /\ SchedulerTypeOK' /\ reserved' \subseteq Tasks /\ doubled' \subseteq Nodes
      /\ \A n \in Nodes : used'[n] <= used[n]
      /\ NothingLeaks' /\ UsedIsHeld'
  BY <1>1, <1>2, ReleaseSound
<1>4. health' \in HealthRegisters /\ seen' \in [Tasks -> Record]
  BY <1>1, AbsentIsRecord DEF Inv, TypeOK, HealthRegisters
<1>5. TypeOK'
  BY <1>1, <1>3, <1>4 DEF Inv, TypeOK
<1>6. ASSUME NEW u \in Tasks PROVE Careful(u)
  <2>1. SeenKept(u)
    BY <1>1 DEF SeenKept, Inv, TypeOK
  <2>2. ExecutorKept(u)
    BY <1>1 DEF Inv, OwnedAreLeftAlone, ExecutorKept
  <2>3. QED
    BY <1>1, <2>1, <2>2 DEF Careful, RecordKept, SnapKept, DrainedKept, GivingBack
<1>7. RecordsPlaced' /\ CopiesAgree' /\ OwnedAreLeftAlone' /\ ReservedAreWanted'
  BY <1>1, <1>6, CarefulSteps
<1>8. RegistersSound'
  BY <1>1 DEF Inv, RegistersSound
<1>9. CountsFit'
  BY <1>1, <1>3, ReleaseLightens
<1>10. QED
  BY <1>3, <1>5, <1>7, <1>8, <1>9 DEF Inv

(***************************************************************************)
(* The environment.                                                        *)
(***************************************************************************)

(* Containers lost, nodes drained and activated, cooldowns over.           *)
LEMMA EnvironmentKeepsInv ==
    ASSUME Inv, Environment
    PROVE  Inv'
<1>1. UNCHANGED <<tasks, phase, mine, reserved, doubled, rec, snap, drained, health, seen, boot, used,
                  taskCount, abandoned, replicas, measured>>
  BY DEF Environment, ContainerLost, SetNodeStatus, UpdateNodeStatus, CooldownOver
<1>2. container' \in [Tasks -> {"none", "up", "down"}]
  BY DEF Environment, ContainerLost, SetNodeStatus, CooldownOver, Inv, TypeOK
<1>3. faults' \in 0..MaxFaults /\ drains' \in 0..MaxDrains /\ cooling' \subseteq Services
  BY BoundsAssumption DEF Environment, ContainerLost, Fault, SetNodeStatus, CooldownOver, Inv,
                          TypeOK
<1>4. nodeStatus' \in [Nodes -> {"ready", "draining"}]
  BY DEF Environment, ContainerLost, SetNodeStatus, UpdateNodeStatus, CooldownOver, Inv, TypeOK,
         SchedulerTypeOK
<1>5. TypeOK'
  BY <1>1, <1>2, <1>3, <1>4 DEF Inv, TypeOK, SchedulerTypeOK
<1>6. QED
  BY <1>1, <1>5, FrameKeepsInv

(***************************************************************************)
(* Choosing a node and launching a task on it.                             *)
(***************************************************************************)

(* SelectNode answers with a node that has the room.                       *)
LEMMA SelectableHasRoom ==
    ASSUME NEW request, NEW n \in Selectable(request)
    PROVE  n \in Nodes /\ Capacity[n] - used[n] >= request
<1>1. n \in filterFeasibleNodes(filterReadyNodes, request)
  BY DEF Selectable, Preferred
<1>2. QED
  BY <1>1 DEF filterFeasibleNodes, filterReadyNodes, Available

(* The registers of the loop when a task has been launched. *)
LEMMA LaunchSpares ==
    ASSUME Inv, NEW s \in Services, NEW n \in Nodes, Launch(s, n)
    PROVE  rec.cur \notin reserved => rec.cur \notin reserved'
BY DEF Launch, Fresh, Unused

(* Initially, and whenever a count is taken, the count is a number. *)
LEMMA CountsAreNatural ==
    ASSUME TypeOK
    PROVE  /\ \A S \in SUBSET Tasks : Cardinality(S) \in Nat
           /\ \A s \in Services : Wanted(s) \in Nat /\ calculateDesiredReplicas(s) \in Nat
<1>1. \A S \in SUBSET Tasks : Cardinality(S) \in Nat
  BY FiniteTasks, FS_Subset, FS_CardinalityType
<1>2. ASSUME NEW s \in Services PROVE Wanted(s) \in Nat
  <2>1. Cardinality(Nodes) \in Nat /\ replicas[s] \in Nat
    BY FiniteNodes, FS_CardinalityType DEF TypeOK
  <2>2. \A i, j \in Nat : i * j \in Nat
    OBVIOUS
  <2>3. QED
    BY <2>1, <2>2 DEF Wanted
<1>3. ASSUME NEW s \in Services PROVE calculateDesiredReplicas(s) \in Nat
  BY <1>2, ServiceAssumption DEF calculateDesiredReplicas, AtLeast, AtMost
<1>4. QED
  BY <1>1, <1>2, <1>3

(***************************************************************************)
(* initServices.                                                           *)
(***************************************************************************)

(* initServices counts the tasks of a service.                             *)
LEMMA BootServiceKeepsInv ==
    ASSUME Inv, NEW s \in Services, BootService(s)
    PROVE  Inv'
<1> DEFINE existing == Cardinality({t \in Tasks : tasks[t].service = s})
           m == Less(Wanted(s), existing)
<1>1. /\ boot.missing = 0
      /\ boot' = [boot EXCEPT !.servicesLeft = @ \ {s}, !.svc = s, !.missing = m]
      /\ UNCHANGED <<tasks, container, abandoned, phase, mine, reserved, doubled, replicas, cooling,
                     measured, rec, snap, drained, health, seen, faults, drains, nodeStatus,
                     used, taskCount>>
  BY DEF BootService
<1>2. m \in Nat
  <2>1. existing \in Nat /\ Wanted(s) \in Nat
    BY CountsAreNatural DEF Inv
  <2>2. QED
    BY <2>1 DEF Less
<1> HIDE DEF m
<1>3. boot \in BootRegisters /\ boot.picked = None
  BY <1>1, NoneIsNone DEF Inv, TypeOK, BootRegisters, RegistersSound
<1>4. boot' \in BootRegisters /\ boot'.picked = None /\ boot'.svc = s /\ boot'.missing = m
  BY <1>1, <1>2, <1>3 DEF BootRegisters
<1>5. TypeOK'
  BY <1>1, <1>4 DEF Inv, TypeOK, SchedulerTypeOK
<1>6. RecordsPlaced' /\ CopiesAgree' /\ OwnedAreLeftAlone' /\ ReservedAreWanted'
  BY <1>1, RecordsUntouched DEF GivingBack
<1>7. RegistersSound'
  BY <1>1, <1>4 DEF Inv, RegistersSound
<1>8. NothingLeaks' /\ UsedIsHeld'
  BY <1>1, HoldersKept
<1>9. CountsFit'
  BY <1>1, <1>3, <1>4, NoneIsNone DEF Inv, CountsFit, Promised
<1>10. QED
  BY <1>5, <1>6, <1>7, <1>8, <1>9 DEF Inv

(* initServices chooses a node: it has the room, so with what the loop may *)
(* have promised it is at most one request too many.                       *)
LEMMA BootSelectKeepsInv ==
    ASSUME Inv, BootSelect
    PROVE  Inv'
<1>1. /\ boot.missing > 0 /\ boot.picked = None /\ boot \in BootRegisters /\ boot.svc \in Services
      /\ UNCHANGED <<tasks, container, abandoned, phase, mine, reserved, doubled, replicas, cooling,
                     measured, rec, snap, drained, health, seen, faults, drains, nodeStatus,
                     used, taskCount>>
  BY DEF BootSelect, Inv, TypeOK, RegistersSound
<1>2. \/ boot' = [boot EXCEPT !.missing = @ - 1]
      \/ \E n \in Selectable(Request[boot.svc]) : boot' = [boot EXCEPT !.picked = n]
  BY DEF BootSelect
<1>3. RecordsPlaced' /\ CopiesAgree' /\ OwnedAreLeftAlone' /\ ReservedAreWanted'
  BY <1>1, RecordsUntouched DEF GivingBack
<1>4. NothingLeaks' /\ UsedIsHeld'
  BY <1>1, HoldersKept
<1>5. CASE boot' = [boot EXCEPT !.missing = @ - 1]
  <2>1. boot' \in BootRegisters /\ boot'.picked = None /\ boot'.svc = boot.svc
    BY <1>1, <1>5 DEF BootRegisters
  <2>2. TypeOK'
    BY <1>1, <2>1 DEF Inv, TypeOK, SchedulerTypeOK
  <2>3. RegistersSound'
    BY <1>1, <2>1 DEF Inv, RegistersSound
  <2>4. CountsFit'
    BY <1>1, <2>1 DEF Inv, CountsFit, Promised
  <2>5. QED
    BY <1>3, <1>4, <2>2, <2>3, <2>4 DEF Inv
<1>6. CASE \E n \in Selectable(Request[boot.svc]) : boot' = [boot EXCEPT !.picked = n]
  <2>1. PICK n \in Selectable(Request[boot.svc]) : boot' = [boot EXCEPT !.picked = n]
    BY <1>6
  <2>2. n \in Nodes /\ Capacity[n] - used[n] >= Request[boot.svc]
    BY SelectableHasRoom
  <2>3. boot' \in BootRegisters /\ boot'.picked = n /\ boot'.svc = boot.svc
        /\ boot'.missing = boot.missing
    BY <1>1, <2>1, <2>2 DEF BootRegisters
  <2>4. TypeOK'
    BY <1>1, <2>3 DEF Inv, TypeOK, SchedulerTypeOK
  <2>5. RegistersSound'
    BY <1>1, <2>3 DEF Inv, RegistersSound
  <2>6. CountsFit'
    <3>1. SUFFICES ASSUME NEW m \in Nodes
          PROVE  \/ used'[m] + Promised(m)' <= Capacity[m]
                 \/ \E s \in Services : used'[m] + Promised(m)' <= Capacity[m] + Request[s]
      BY DEF CountsFit
    <3>2. CASE m # n
      <4>1. Promised(m)' = Promised(m) /\ used'[m] = used[m]
        BY <1>1, <2>3, <3>2, NoneIsNone DEF Promised
      <4>2. QED
        BY <4>1 DEF Inv, CountsFit
    <3>3. CASE m = n
      <4>1. used'[m] \in Nat /\ used[m] = used'[m] /\ Capacity[m] \in Nat
            /\ Request[boot.svc] \in Nat
        BY <1>1, <2>2, CapacityAssumption, ServiceAssumption DEF Inv, TypeOK, SchedulerTypeOK
      <4>2. CASE rec.picked = n
        <5>1. rec.svc \in Services /\ Request[rec.svc] \in Nat
          BY <2>2, <4>2, NoneIsNone, ServiceAssumption DEF Inv, RegistersSound, Creating
        <5>2. Promised(m)' = Request[rec.svc] + Request[boot.svc]
          BY <1>1, <2>3, <3>3, <4>2 DEF Promised
        <5>3. QED
          BY <2>2, <3>3, <4>1, <5>1, <5>2
      <4>3. CASE rec.picked # n
        <5>1. Promised(m)' = Request[boot.svc]
          BY <1>1, <2>3, <3>3, <4>1, <4>3 DEF Promised
        <5>2. QED
          BY <2>2, <3>3, <4>1, <5>1
      <4>4. QED
        BY <4>2, <4>3
    <3>4. QED
      BY <3>2, <3>3
  <2>7. QED
    BY <1>3, <1>4, <2>4, <2>5, <2>6 DEF Inv
<1>7. QED
  BY <1>2, <1>5, <1>6

(* initServices launches a task on the node it has chosen.                 *)
LEMMA BootLaunchKeepsInv ==
    ASSUME Inv, BootLaunch
    PROVE  Inv'
<1> DEFINE s == boot.svc
           n == boot.picked
<1>1. /\ n # None /\ Launch(s, n)
      /\ boot' = [boot EXCEPT !.picked = None, !.missing = @ - 1]
      /\ UNCHANGED <<container, abandoned, replicas, cooling, measured, rec, snap, drained, health,
                     seen, faults, drains>>
  BY DEF BootLaunch
<1>2. boot \in BootRegisters /\ n \in Nodes /\ boot.missing > 0 /\ s \in Services
  BY <1>1 DEF Inv, TypeOK, BootRegisters, RegistersSound
<1>3. boot' \in BootRegisters /\ boot'.picked = None /\ boot'.svc = s
  <2>1. boot.missing - 1 \in Nat
    BY <1>2 DEF BootRegisters
  <2>2. QED
    BY <1>1, <1>2, <2>1 DEF BootRegisters
<1> HIDE DEF s, n
<1>4. /\ tasks' \in [Tasks -> Record] /\ mine' \in [Tasks -> Record]
      /\ phase' \in [Tasks -> {"none", "spawned", "creating", "created", "refused", "releasing"}]
      /\ SchedulerTypeOK' /\ reserved' \subseteq Tasks /\ doubled' \subseteq Nodes
      /\ \A m \in Nodes : used'[m] = IF m = n THEN used[m] + Request[s] ELSE used[m]
      /\ RecordsPlaced' /\ CopiesAgree' /\ OwnedAreLeftAlone'
      /\ NothingLeaks' /\ UsedIsHeld' /\ ReservedAreWanted'
  BY <1>1, <1>2, LaunchSound DEF GivingBack
<1>5. TypeOK'
  BY <1>1, <1>3, <1>4 DEF Inv, TypeOK
<1>6. RegistersSound'
  <2>1. rec.cur \notin reserved => rec.cur \notin reserved'
    BY <1>1, <1>2, LaunchSpares
  <2>2. QED
    BY <1>1, <1>2, <1>3, <2>1 DEF Inv, RegistersSound, Evacuating, Restarting, ScalingDown,
                                  NeedsRestart, s
<1>7. CountsFit'
  <2>1. ASSUME NEW m \in Nodes
        PROVE  /\ used'[m] + Promised(m)' = used[m] + Promised(m)
               /\ used[m] + Promised(m) \in Int
    <3>1. used[m] \in Nat /\ Promised(m) \in Nat /\ Request[s] \in Nat
      BY <1>2, PromisesAreNatural, ServiceAssumption DEF Inv
    <3>2. Promised(m) = Promised(m)' + (IF m = n THEN Request[s] ELSE 0)
      <4>1. rec.picked = m => Request[rec.svc] \in Nat
        BY NoneIsNone, ServiceAssumption DEF Inv, RegistersSound, Creating
      <4>2. QED
        BY <1>1, <1>3, <3>1, <4>1, NoneIsNone DEF Promised, s, n
    <3>3. Promised(m)' \in Int
      <4>1. rec.picked = m => Request[rec.svc] \in Nat
        BY NoneIsNone, ServiceAssumption DEF Inv, RegistersSound, Creating
      <4>2. QED
        BY <1>1, <1>3, <4>1, NoneIsNone DEF Promised
    <3>4. QED
      BY <1>4, <3>1, <3>2, <3>3
  <2>2. QED
    BY <2>1, LoadKept
<1>8. QED
  BY <1>4, <1>5, <1>6, <1>7 DEF Inv

(***************************************************************************)
(* The reconcile loop: what its steps have in common.                      *)
(***************************************************************************)

(* A step of the loop that chooses no node loads none.                     *)
LEMMA NobodyChooses ==
    ASSUME Inv, rec'.picked = rec.picked \/ rec'.picked = None,
           rec'.picked # None => rec'.svc = rec.svc,
           UNCHANGED <<boot, used, taskCount, nodeStatus>>
    PROVE  CountsFit'
<1>1. SchedulerTypeOK' /\ \A n \in Nodes : used'[n] <= used[n]
  BY DEF Inv, TypeOK, SchedulerTypeOK
<1>2. QED
  BY <1>1, ReleaseLightens

(* A step that does not touch executors, nor a record that one owns.       *)
LEMMA ExecutorUntouched ==
    ASSUME Inv, NEW u \in Tasks, UNCHANGED <<phase, mine>>,
           tasks'[u] = tasks[u] \/ phase[u] \notin Owned
    PROVE  ExecutorKept(u)
BY DEF Inv, OwnedAreLeftAlone, ExecutorKept

(* The loop has chosen no node when it is not creating a task.             *)
LEMMA PickedOnlyToCreate ==
    ASSUME Inv, rec.pc \notin Creating \/ (rec.pc = "scaleUp" /\ rec.missing = 0)
    PROVE  rec.picked = None
BY DEF Inv, RegistersSound

(* A record marked as stopped for good is one nobody acts on.              *)
LEMMA RetiredIsDone ==
    ASSUME NEW r \in Record
    PROVE  Retired(r) \in Record /\ Done(Retired(r))
BY DEF Retired, Record, Done, Terminated

(* The task at hand when the loop evacuates, restarts or stops one. *)
LEMMA AtHand ==
    ASSUME Inv
    PROVE  /\ rec.pc \in Evacuating =>
                 /\ rec.cur \in Tasks /\ rec.cur \notin reserved /\ phase[rec.cur] \notin Owned
                 /\ drained[rec.cur] \in Record
           /\ rec.pc \in Restarting \cup ScalingDown =>
                 /\ rec.cur \in Tasks /\ phase[rec.cur] \notin Owned
                 /\ snap[rec.cur] \in Record /\ Placed(snap[rec.cur])
                 /\ rec.cur \in reserved => Agree(tasks[rec.cur], snap[rec.cur])
<1>1. CASE rec.pc \in Evacuating
  <2>1. rec.cur \in Tasks /\ rec.cur \notin reserved /\ drained[rec.cur] # Absent
    BY <1>1 DEF Inv, RegistersSound
  <2>2. rec.pc \notin Restarting \cup ScalingDown
    BY <1>1 DEF Evacuating, Restarting, ScalingDown
  <2>3. QED
    BY <2>1, <2>2 DEF Inv, TypeOK, OwnedAreLeftAlone
<1>2. CASE rec.pc \in Restarting \cup ScalingDown
  <2>1. rec.cur \in Tasks
    BY <1>2 DEF Inv, RegistersSound
  <2>2. ~Done(snap[rec.cur]) /\ snap[rec.cur].status \notin {"pending", "starting"}
    BY <1>2 DEF Inv, RegistersSound, NeedsRestart, Terminated, Done
  <2>3. rec.pc \notin Evacuating
    BY <1>2 DEF Evacuating, Restarting, ScalingDown
  <2>4. QED
    BY <2>1, <2>2, <2>3 DEF Inv, TypeOK, OwnedAreLeftAlone, RecordsPlaced, CopiesAgree
<1>3. QED
  BY <1>1, <1>2

(* After a task is created no task is at hand. *)
LEMMA CreatorsGoOn == \A pc \in Creating : AfterCreate[pc] \in {"evacuate", "restart", "scaleUp"}
  BY DEF Creating, AfterCreate

(* The loop over the services goes on with no task at hand. *)
LEMMA NextServiceIdle ==
    ASSUME NEW left, ToNextService(left), NEW t \in Tasks
    PROVE  rec'.pc \in {"idle", "restart"} /\ snap'[t] \in {snap[t], Absent}
<1>1. CASE left = {}
  BY <1>1 DEF ToNextService, IdleReconcile, NoTasks
<1>2. CASE left # {}
  <2>1. PICK s \in left : rec' = [IdleReconcile EXCEPT !.pc = "restart", !.svc = s,
                                                      !.servicesLeft = left \ {s}]
    BY <1>2 DEF ToNextService
  <2>2. snap' = snap
    BY <1>2 DEF ToNextService
  <2> QED
    BY <2>1, <2>2 DEF IdleReconcile
<1> QED
  BY <1>1, <1>2

(***************************************************************************)
(* The start of a pass and the drained nodes.                              *)
(***************************************************************************)

(* A pass starts with a copy of all tasks.                                 *)
LEMMA StartPassKeepsInv ==
    ASSUME Inv, StartPass
    PROVE  Inv'
<1>1. /\ rec.pc = "idle" /\ rec' = [rec EXCEPT !.pc = "drain", !.nodesLeft = Nodes]
      /\ snap' = Copied({t \in Tasks : ~Done(tasks[t])})
      /\ UNCHANGED <<tasks, container, abandoned, phase, mine, reserved, doubled, replicas, cooling,
                     drained, health, seen, boot, faults, drains, nodeStatus, used, taskCount>>
  BY DEF StartPass, At, OnlyTheLoop, NotTheLoops
<1>2. rec \in ReconcileRegisters /\ rec.picked = None
  BY <1>1, PickedOnlyToCreate DEF Inv, TypeOK, Creating
<1>3. /\ rec' \in ReconcileRegisters /\ rec'.pc = "drain" /\ rec'.picked = None
      /\ rec'.queue = rec.queue
  BY <1>1, <1>2 DEF ReconcileRegisters, PassSteps
<1>4. snap' \in [Tasks -> Record] /\ measured' \subseteq Services
  BY <1>1, AbsentIsRecord, ServiceAssumption DEF StartPass, Copied, Inv, TypeOK
<1>5. TypeOK'
  BY <1>1, <1>3, <1>4 DEF Inv, TypeOK, SchedulerTypeOK
<1>6. ASSUME NEW u \in Tasks PROVE Careful(u)
  <2>1. SnapKept(u)
    BY <1>1 DEF Copied, SnapKept, Done, Absent
  <2>2. ExecutorKept(u)
    BY <1>1, ExecutorUntouched
  <2>3. QED
    BY <1>1, <2>1, <2>2 DEF Careful, RecordKept, DrainedKept, SeenKept, GivingBack
<1>7. RecordsPlaced' /\ CopiesAgree' /\ OwnedAreLeftAlone' /\ ReservedAreWanted'
  BY <1>1, <1>6, CarefulSteps
<1>8. RegistersSound'
  BY <1>1, <1>3 DEF Inv, RegistersSound, Evacuating, Restarting, ScalingDown
<1>9. NothingLeaks' /\ UsedIsHeld'
  BY <1>1, HoldersKept
<1>10. CountsFit'
  BY <1>1, <1>3, NobodyChooses
<1>11. QED
  BY <1>5, <1>7, <1>8, <1>9, <1>10 DEF Inv

(* The loop copies the running tasks of a draining node.                   *)
LEMMA DrainNodeKeepsInv ==
    ASSUME Inv, NEW n \in Nodes, DrainNode(n)
    PROVE  Inv'
<1>1. /\ rec.pc = "drain"
      /\ drained' = Copied({t \in Tasks : tasks[t].node = n /\ tasks[t].status = "running"})
      /\ UNCHANGED <<tasks, container, abandoned, phase, mine, reserved, doubled, replicas, cooling,
                     measured, snap, health, seen, boot, faults, drains, nodeStatus, used,
                     taskCount>>
  BY DEF DrainNode, At, OnlyTheLoop, NotTheLoops
<1>2. PICK passed \in SUBSET Nodes :
         rec' = [rec EXCEPT !.nodesLeft = @ \ ({n} \cup passed), !.pc = "evacuate"]
  BY DEF DrainNode, filterReadyNodes
<1>3. rec \in ReconcileRegisters /\ rec.picked = None
  BY <1>1, PickedOnlyToCreate DEF Inv, TypeOK, Creating
<1>4. /\ rec' \in ReconcileRegisters /\ rec'.pc = "evacuate" /\ rec'.picked = None
      /\ rec'.queue = rec.queue
  BY <1>2, <1>3 DEF ReconcileRegisters, PassSteps
<1>5. drained' \in [Tasks -> Record]
  BY <1>1, AbsentIsRecord DEF Copied, Inv, TypeOK
<1>6. TypeOK'
  BY <1>1, <1>4, <1>5 DEF Inv, TypeOK, SchedulerTypeOK
<1>7. ASSUME NEW u \in Tasks PROVE Careful(u)
  <2>1. DrainedKept(u)
    BY <1>1 DEF Copied, DrainedKept
  <2>2. ExecutorKept(u)
    BY <1>1, ExecutorUntouched
  <2>3. QED
    BY <1>1, <2>1, <2>2 DEF Careful, RecordKept, SnapKept, SeenKept, GivingBack
<1>8. RecordsPlaced' /\ CopiesAgree' /\ OwnedAreLeftAlone' /\ ReservedAreWanted'
  BY <1>1, <1>7, CarefulSteps
<1>9. RegistersSound'
  BY <1>1, <1>4 DEF Inv, RegistersSound, Evacuating, Restarting, ScalingDown
<1>10. NothingLeaks' /\ UsedIsHeld'
  BY <1>1, HoldersKept
<1>11. CountsFit'
  BY <1>1, <1>4, NobodyChooses
<1>12. QED
  BY <1>6, <1>8, <1>9, <1>10, <1>11 DEF Inv

(* Evacuation releases a task.                                             *)
LEMMA EvacuateReleaseKeepsInv ==
    ASSUME Inv, NEW t \in Tasks, EvacuateRelease(t)
    PROVE  Inv'
<1>1. PICK pc \in {"evacuateStop", "evacuateMark"} :
         rec' = [rec EXCEPT !.cur = t, !.svc = drained[t].service, !.pc = pc]
  BY DEF EvacuateRelease
<1>2. /\ rec.pc = "evacuate" /\ drained[t] # Absent
      /\ Release(t, drained[t]) /\ reserved' = reserved \ {t}
      /\ UNCHANGED <<tasks, container, abandoned, phase, mine, replicas, cooling, measured, snap,
                     drained, health, seen, boot, faults, drains>>
  BY DEF EvacuateRelease, At, ToMove, NotTheLoops, Release
<1>3. /\ drained[t] \in Record /\ Placed(drained[t])
      /\ t \in reserved => Agree(tasks[t], drained[t])
  BY <1>2 DEF Inv, TypeOK, RecordsPlaced, CopiesAgree
<1>4. /\ SchedulerTypeOK' /\ reserved' \subseteq Tasks /\ doubled' \subseteq Nodes
      /\ \A n \in Nodes : used'[n] <= used[n]
      /\ NothingLeaks' /\ UsedIsHeld'
  BY <1>2, <1>3, ReleaseSound
<1>5. rec \in ReconcileRegisters /\ rec.picked = None
  BY <1>2, PickedOnlyToCreate DEF Inv, TypeOK, Creating
<1>6. /\ rec' \in ReconcileRegisters /\ rec'.pc = pc /\ rec'.cur = t /\ rec'.picked = None
      /\ rec'.svc \in Services /\ rec'.queue = rec.queue
  BY <1>1, <1>3, <1>5 DEF ReconcileRegisters, PassSteps, Placed
<1>7. TypeOK'
  BY <1>2, <1>4, <1>6 DEF Inv, TypeOK
<1>8. RecordsPlaced' /\ CopiesAgree' /\ OwnedAreLeftAlone' /\ ReservedAreWanted'
  BY <1>2, RecordsUntouched DEF GivingBack
<1>9. RegistersSound'
  BY <1>2, <1>6 DEF Inv, RegistersSound, Evacuating, Restarting, ScalingDown, Creating
<1>10. CountsFit'
  BY <1>2, <1>4, <1>6, ReleaseLightens
<1>11. QED
  BY <1>4, <1>7, <1>8, <1>9, <1>10 DEF Inv

(* Evacuation writes its copy as stopped over the record; the task holds   *)
(* no reservation any more.                                                *)
LEMMA EvacuateMarkKeepsInv ==
    ASSUME Inv, EvacuateMark
    PROVE  Inv'
<1> DEFINE t == rec.cur
           r == Retired(drained[t])
<1>1. /\ rec.pc = "evacuateMark" /\ rec' = [rec EXCEPT !.pc = "evacuateCreate", !.cur = None]
      /\ tasks' = [tasks EXCEPT ![t] = r] /\ drained' = [drained EXCEPT ![t] = Absent]
      /\ UNCHANGED <<container, abandoned, phase, mine, reserved, doubled, replicas, cooling, measured, snap,
                     health, seen, boot, faults, drains, nodeStatus, used, taskCount>>
  BY DEF EvacuateMark, At, NotTheLoops, Update
<1>2. t \in Tasks /\ t \notin reserved /\ phase[t] \notin Owned /\ r \in Record /\ Done(r)
  BY <1>1, AtHand, RetiredIsDone DEF Evacuating
<1>3. rec \in ReconcileRegisters /\ rec.picked = None /\ rec.svc \in Services
  BY <1>1, PickedOnlyToCreate DEF Inv, TypeOK, RegistersSound, Creating
<1> HIDE DEF t, r
<1>4. /\ rec' \in ReconcileRegisters /\ rec'.pc = "evacuateCreate" /\ rec'.picked = None
      /\ rec'.svc = rec.svc /\ rec'.queue = rec.queue
  BY <1>1, <1>3 DEF ReconcileRegisters, PassSteps
<1>5. tasks' \in [Tasks -> Record] /\ drained' \in [Tasks -> Record]
  BY <1>1, <1>2, AbsentIsRecord DEF Inv, TypeOK
<1>6. TypeOK'
  BY <1>1, <1>4, <1>5 DEF Inv, TypeOK, SchedulerTypeOK
<1>7. /\ tasks'[t] = r
      /\ \A u \in Tasks \ {t} : tasks'[u] = tasks[u] /\ drained'[u] = drained[u]
      /\ drained'[t] = Absent
  BY <1>1, <1>2 DEF Inv, TypeOK
<1>8. ASSUME NEW u \in Tasks PROVE Careful(u)
  <2>1. RecordKept(u)
    BY <1>1, <1>2, <1>7 DEF RecordKept
  <2>2. ExecutorKept(u)
    BY <1>1, <1>2, <1>7, ExecutorUntouched
  <2>3. DrainedKept(u)
    BY <1>7 DEF DrainedKept
  <2>4. QED
    BY <1>1, <2>1, <2>2, <2>3 DEF Careful, SnapKept, SeenKept, GivingBack
<1>9. RecordsPlaced' /\ CopiesAgree' /\ OwnedAreLeftAlone' /\ ReservedAreWanted'
  BY <1>1, <1>8, CarefulSteps
<1>10. RegistersSound'
  BY <1>1, <1>3, <1>4 DEF Inv, RegistersSound, Evacuating, Restarting, ScalingDown
<1>11. NothingLeaks' /\ UsedIsHeld'
  BY <1>1, <1>2, <1>7, HoldersKept DEF Inv, TypeOK
<1>12. CountsFit'
  BY <1>1, <1>4, NobodyChooses
<1>13. QED
  BY <1>6, <1>9, <1>10, <1>11, <1>12 DEF Inv

(* The node has no more tasks to evacuate.                                 *)
LEMMA EvacuateDoneKeepsInv ==
    ASSUME Inv, EvacuateDone
    PROVE  Inv'
<1>1. /\ rec.pc = "evacuate" /\ rec' = [rec EXCEPT !.pc = "drain"]
      /\ UNCHANGED <<tasks, container, abandoned, phase, mine, reserved, doubled, replicas, cooling,
                     measured, snap, drained, health, seen, boot, faults, drains, nodeStatus,
                     used, taskCount>>
  BY DEF EvacuateDone, At, Goto, OnlyTheLoop, NotTheLoops
<1>2. rec \in ReconcileRegisters /\ rec.picked = None
  BY <1>1, PickedOnlyToCreate DEF Inv, TypeOK, Creating
<1>3. /\ rec' \in ReconcileRegisters /\ rec'.pc = "drain" /\ rec'.picked = None
      /\ rec'.queue = rec.queue
  BY <1>1, <1>2 DEF ReconcileRegisters, PassSteps
<1>4. TypeOK'
  BY <1>1, <1>3 DEF Inv, TypeOK, SchedulerTypeOK
<1>5. RecordsPlaced' /\ CopiesAgree' /\ OwnedAreLeftAlone' /\ ReservedAreWanted'
  BY <1>1, RecordsUntouched DEF GivingBack
<1>6. RegistersSound'
  BY <1>1, <1>3 DEF Inv, RegistersSound, Evacuating, Restarting, ScalingDown
<1>7. NothingLeaks' /\ UsedIsHeld'
  BY <1>1, HoldersKept
<1>8. CountsFit'
  BY <1>1, <1>3, NobodyChooses
<1>9. QED
  BY <1>4, <1>5, <1>6, <1>7, <1>8 DEF Inv

(* The loop goes on to the next service, or the pass ends.                 *)
LEMMA NextServiceKeepsInv ==
    ASSUME Inv, NEW left \in SUBSET Services, ToNextService(left),
           \A u \in Tasks : ~GivingBack(u), OnlyTheLoop, UNCHANGED <<drained, scalingVars>>
    PROVE  Inv'
<1>1. UNCHANGED <<tasks, container, abandoned, phase, mine, reserved, doubled, replicas, cooling, measured,
                  drained, health, seen, boot, faults, drains, nodeStatus, used, taskCount>>
  BY DEF OnlyTheLoop, NotTheLoops
<1>2. \/ rec' = IdleReconcile /\ snap' = NoTasks
      \/ /\ \E s \in Services : rec' = [IdleReconcile EXCEPT !.pc = "restart", !.svc = s,
                                                             !.servicesLeft = left \ {s}]
         /\ UNCHANGED snap
  BY DEF ToNextService
<1>3. /\ rec' \in ReconcileRegisters /\ rec'.picked = None /\ rec'.queue = {}
      /\ rec'.pc = "idle" \/ (rec'.pc = "restart" /\ rec'.svc \in Services)
  <2>1. CASE rec' = IdleReconcile
    BY <2>1 DEF IdleReconcile, ReconcileRegisters, PassSteps
  <2>2. ASSUME NEW s \in Services,
               rec' = [IdleReconcile EXCEPT !.pc = "restart", !.svc = s,
                                            !.servicesLeft = left \ {s}]
        PROVE  /\ rec' \in ReconcileRegisters /\ rec'.picked = None /\ rec'.queue = {}
               /\ rec'.pc = "restart" /\ rec'.svc \in Services
    <3>1. left \ {s} \in SUBSET Services
      OBVIOUS
    <3>2. QED
      BY <2>2, <3>1 DEF IdleReconcile, ReconcileRegisters, PassSteps
  <2>3. QED
    BY <1>2, <2>1, <2>2
<1>4. snap' \in [Tasks -> Record]
  BY <1>2, AbsentIsRecord DEF NoTasks, Inv, TypeOK
<1>5. TypeOK'
  BY <1>1, <1>3, <1>4 DEF Inv, TypeOK, SchedulerTypeOK
<1>6. ASSUME NEW u \in Tasks PROVE Careful(u)
  <2>1. snap' = snap \/ snap'[u] = Absent
    BY <1>2 DEF NoTasks
  <2>2. SnapKept(u)
    BY <2>1 DEF SnapKept, Absent, Done
  <2>3. ExecutorKept(u)
    BY <1>1, ExecutorUntouched
  <2>4. QED
    BY <1>1, <2>2, <2>3 DEF Careful, RecordKept, DrainedKept, SeenKept
<1>7. RecordsPlaced' /\ CopiesAgree' /\ OwnedAreLeftAlone' /\ ReservedAreWanted'
  BY <1>1, <1>6, CarefulSteps
<1>8. RegistersSound'
  BY <1>1, <1>3 DEF Inv, RegistersSound, Evacuating, Restarting, ScalingDown
<1>9. NothingLeaks' /\ UsedIsHeld'
  BY <1>1, HoldersKept
<1>10. CountsFit'
  BY <1>1, <1>3, NobodyChooses
<1>11. QED
  BY <1>5, <1>7, <1>8, <1>9, <1>10 DEF Inv

(* No draining node is left.                                               *)
LEMMA DrainDoneKeepsInv ==
    ASSUME Inv, DrainDone
    PROVE  Inv'
<1>1. \A u \in Tasks : ~GivingBack(u)
  BY DEF DrainDone, At, GivingBack
<1>2. QED
  BY <1>1, NextServiceKeepsInv DEF DrainDone

(***************************************************************************)
(* Restarts.                                                               *)
(***************************************************************************)

(* A restart is counted in the store.                                      *)
LEMMA RestartIncrementKeepsInv ==
    ASSUME Inv, NEW t \in Tasks, RestartIncrement(t)
    PROVE  Inv'
<1> DEFINE r == [tasks[t] EXCEPT !.restarts = @ + 1]
<1>1. /\ rec.pc = "restart" /\ rec' = [rec EXCEPT !.pc = "restartRelease", !.cur = t]
      /\ NeedsRestart(snap[t]) /\ tasks' = [tasks EXCEPT ![t] = r]
      /\ UNCHANGED <<container, abandoned, phase, mine, reserved, doubled, replicas, cooling, measured, snap,
                     drained, health, seen, boot, faults, drains, nodeStatus, used, taskCount>>
  BY DEF RestartIncrement, At, ToRestart, NotTheLoops
<1>2. tasks[t] \in Record /\ snap[t] \in Record
  BY DEF Inv, TypeOK
<1>3. /\ r \in Record /\ r.status = tasks[t].status /\ r.desired = tasks[t].desired
      /\ r.node = tasks[t].node /\ r.service = tasks[t].service
  BY <1>2 DEF Record
<1> HIDE DEF r
<1>4. phase[t] \notin Owned
  BY <1>1 DEF NeedsRestart, Terminated, Done, Inv, OwnedAreLeftAlone
<1>5. rec \in ReconcileRegisters /\ rec.picked = None /\ rec.svc \in Services
  BY <1>1, PickedOnlyToCreate DEF Inv, TypeOK, RegistersSound, Creating
<1>6. /\ rec' \in ReconcileRegisters /\ rec'.pc = "restartRelease" /\ rec'.cur = t
      /\ rec'.picked = None /\ rec'.svc = rec.svc /\ rec'.queue = rec.queue
  BY <1>1, <1>5 DEF ReconcileRegisters, PassSteps
<1>7. /\ tasks' \in [Tasks -> Record] /\ tasks'[t] = r
      /\ \A u \in Tasks \ {t} : tasks'[u] = tasks[u]
  BY <1>1, <1>3 DEF Inv, TypeOK
<1>8. TypeOK'
  BY <1>1, <1>6, <1>7 DEF Inv, TypeOK, SchedulerTypeOK
<1>9. ASSUME NEW u \in Tasks PROVE Careful(u)
  <2>1. ~GivingBack(u)
    BY <1>1 DEF GivingBack
  <2>2. RecordKept(u)
    <3>1. CASE u = t
      <4>1. Done(r) \/ Placed(r)
        BY <1>3 DEF Inv, RecordsPlaced, Done, Placed
      <4>2. u \in reserved' => r.desired = "running"
        BY <1>1, <1>3, <2>1, <3>1 DEF Inv, ReservedAreWanted
      <4>3. QED
        BY <1>3, <1>7, <3>1, <4>1, <4>2 DEF RecordKept
    <3>2. CASE u # t
      BY <1>7, <3>2 DEF RecordKept
    <3>3. QED
      BY <3>1, <3>2
  <2>3. ExecutorKept(u)
    BY <1>1, <1>4, <1>7, ExecutorUntouched
  <2>4. QED
    BY <1>1, <2>1, <2>2, <2>3 DEF Careful, SnapKept, DrainedKept, SeenKept
<1>10. RecordsPlaced' /\ CopiesAgree' /\ OwnedAreLeftAlone' /\ ReservedAreWanted'
  BY <1>1, <1>9, CarefulSteps
<1>11. RegistersSound'
  BY <1>1, <1>5, <1>6 DEF Inv, RegistersSound, Evacuating, Restarting, ScalingDown
<1>12. NothingLeaks' /\ UsedIsHeld'
  BY <1>1, <1>3, <1>7, HoldersKept DEF Inv, TypeOK
<1>13. CountsFit'
  BY <1>1, <1>6, NobodyChooses
<1>14. QED
  BY <1>8, <1>10, <1>11, <1>12, <1>13 DEF Inv

(* The two handlers that release the task at hand and go on to mark it. *)
LEMMA ReleaseAtHandKeepsInv ==
    ASSUME Inv, NEW to \in {"restartMark", "scaleDownMark"},
           <<rec.pc, to>> \in {<<"restartRelease", "restartMark">>,
                              <<"scaleDownRelease", "scaleDownMark">>},
           Release(rec.cur, snap[rec.cur]), rec' = [rec EXCEPT !.pc = to], NotTheLoops,
           UNCHANGED <<storeVars, dockerVars, executorVars, scalingVars, snap, drained, budgetVars>>
    PROVE  Inv'
<1> DEFINE t == rec.cur
<1>1. /\ rec' = [rec EXCEPT !.pc = to] /\ reserved' = reserved \ {t} /\ Release(t, snap[t])
      /\ UNCHANGED <<tasks, container, abandoned, phase, mine, replicas, cooling, measured, snap,
                     drained, health, seen, boot, faults, drains>>
  BY DEF NotTheLoops, Release
<1>2. /\ t \in Tasks /\ snap[t] \in Record /\ Placed(snap[t])
      /\ t \in reserved => Agree(tasks[t], snap[t])
  BY AtHand DEF Restarting, ScalingDown
<1>3. rec \in ReconcileRegisters /\ rec.picked = None
  BY PickedOnlyToCreate DEF Inv, TypeOK, Creating
<1> HIDE DEF t
<1>4. /\ SchedulerTypeOK' /\ reserved' \subseteq Tasks /\ doubled' \subseteq Nodes
      /\ \A n \in Nodes : used'[n] <= used[n]
      /\ NothingLeaks' /\ UsedIsHeld'
  BY <1>1, <1>2, ReleaseSound
<1>5. /\ rec' \in ReconcileRegisters /\ rec'.pc = to /\ rec'.cur = t /\ rec'.picked = None
      /\ rec'.svc = rec.svc /\ rec'.queue = rec.queue
  BY <1>1, <1>3 DEF ReconcileRegisters, PassSteps, t
<1>6. TypeOK'
  BY <1>1, <1>4, <1>5 DEF Inv, TypeOK
<1>7. RecordsPlaced' /\ CopiesAgree' /\ OwnedAreLeftAlone' /\ ReservedAreWanted'
  BY <1>1, RecordsUntouched DEF GivingBack, t
<1>8. RegistersSound'
  BY <1>1, <1>2, <1>3, <1>5 DEF Inv, RegistersSound, Evacuating, Restarting, ScalingDown, t
<1>9. CountsFit'
  BY <1>1, <1>4, <1>5, ReleaseLightens
<1>10. QED
  BY <1>4, <1>6, <1>7, <1>8, <1>9 DEF Inv

(* The two handlers that mark the task at hand as stopped for good. *)
LEMMA MarkAtHandKeepsInv ==
    ASSUME Inv, rec.pc \in {"restartMark", "scaleDownMark"},
           rec' \in ReconcileRegisters, rec'.picked = None, rec'.svc = rec.svc,
           rec'.pc \in {"restartStop", "restartCreate", "scaleDown"},
           rec'.pc = "restartStop" => rec'.cur = rec.cur,
           rec'.queue = rec.queue, rec.queue # {} => rec'.pc = "scaleDown",
           snap' = [snap EXCEPT ![rec.cur] = Retired(@)],
           Update(rec.cur, Retired(snap[rec.cur])), NotTheLoops,
           UNCHANGED <<dockerVars, executorVars, reserved, doubled, scalingVars, drained, budgetVars,
                       schedulerVars>>
    PROVE  Inv'
<1> DEFINE t == rec.cur
           r == Retired(snap[t])
<1>1. /\ tasks' = [tasks EXCEPT ![t] = r] /\ snap' = [snap EXCEPT ![t] = r]
      /\ UNCHANGED <<container, abandoned, phase, mine, reserved, doubled, replicas, cooling, measured,
                     drained, health, seen, boot, faults, drains, nodeStatus, used, taskCount>>
  BY DEF NotTheLoops, Update, Inv, TypeOK
<1>2. t \in Tasks /\ phase[t] \notin Owned /\ r \in Record /\ Done(r)
  BY AtHand, RetiredIsDone DEF Restarting, ScalingDown
<1>3. t \notin reserved /\ rec.svc \in Services /\ (rec.queue # {} => t \notin rec.queue)
  BY DEF Inv, RegistersSound, ScalingDown
<1> HIDE DEF t, r
<1>4. /\ tasks' \in [Tasks -> Record] /\ snap' \in [Tasks -> Record]
      /\ tasks'[t] = r /\ snap'[t] = r
      /\ \A u \in Tasks \ {t} : tasks'[u] = tasks[u] /\ snap'[u] = snap[u]
  BY <1>1, <1>2 DEF Inv, TypeOK
<1>5. TypeOK'
  BY <1>1, <1>4 DEF Inv, TypeOK, SchedulerTypeOK
<1>6. ASSUME NEW u \in Tasks PROVE Careful(u)
  <2>1. RecordKept(u)
    BY <1>1, <1>2, <1>3, <1>4 DEF RecordKept
  <2>2. ExecutorKept(u)
    BY <1>1, <1>2, <1>4, ExecutorUntouched
  <2>3. SnapKept(u)
    BY <1>2, <1>4 DEF SnapKept
  <2>4. ~GivingBack(u)
    BY DEF GivingBack
  <2>5. QED
    BY <1>1, <2>1, <2>2, <2>3, <2>4 DEF Careful, DrainedKept, SeenKept
<1>7. RecordsPlaced' /\ CopiesAgree' /\ OwnedAreLeftAlone' /\ ReservedAreWanted'
  BY <1>1, <1>6, CarefulSteps
<1>8. RegistersSound'
  <2>1. rec'.pc = "restartStop" => rec'.cur \in Tasks
    BY <1>2 DEF t
  <2>2. \A u \in rec'.queue : snap'[u].status = "running"
    <3>1. ASSUME NEW u \in rec.queue PROVE snap'[u].status = "running"
      BY <1>3, <1>4 DEF Inv, RegistersSound, TypeOK, ReconcileRegisters
    <3>2. QED
      BY <3>1
  <2>3. QED
    BY <1>1, <1>3, <2>1, <2>2 DEF Inv, RegistersSound, Evacuating, Restarting, ScalingDown
<1>9. NothingLeaks' /\ UsedIsHeld'
  BY <1>1, <1>3, <1>4, HoldersKept DEF Inv, TypeOK
<1>10. CountsFit'
  BY <1>1, NobodyChooses
<1>11. QED
  BY <1>5, <1>7, <1>8, <1>9, <1>10 DEF Inv

(* A task to be restarted is released.                                     *)
LEMMA RestartReleaseKeepsInv ==
    ASSUME Inv, RestartRelease
    PROVE  Inv'
BY ReleaseAtHandKeepsInv DEF RestartRelease, At, Goto

(* A task to be restarted is marked.                                       *)
LEMMA RestartMarkKeepsInv ==
    ASSUME Inv, RestartMark
    PROVE  Inv'
<1>1. /\ rec.pc = "restartMark"
      /\ \/ rec' = [rec EXCEPT !.pc = "restartStop"]
         \/ rec' = [rec EXCEPT !.pc = "restartCreate", !.cur = None]
  <2>1. rec.pc = "restartMark" /\ rec \in ReconcileRegisters
    BY DEF RestartMark, At, Inv, TypeOK
  <2>2. QED
    BY <2>1 DEF RestartMark, ReconcileRegisters
<1>2. rec \in ReconcileRegisters /\ rec.picked = None /\ rec.queue = {}
  BY <1>1, PickedOnlyToCreate DEF Inv, TypeOK, Creating, RegistersSound, ScalingDown
<1>3. /\ rec' \in ReconcileRegisters /\ rec'.picked = None /\ rec'.svc = rec.svc
      /\ rec'.pc \in {"restartStop", "restartCreate"}
      /\ rec'.pc = "restartStop" => rec'.cur = rec.cur
      /\ rec'.queue = rec.queue
  BY <1>1, <1>2 DEF ReconcileRegisters, PassSteps
<1>4. QED
  BY <1>1, <1>2, <1>3, MarkAtHandKeepsInv DEF RestartMark

(***************************************************************************)
(* Scaling up.                                                             *)
(***************************************************************************)

(* The loop compares what a service has with what is wanted.               *)
LEMMA ScaleKeepsInv ==
    ASSUME Inv, Scale
    PROVE  Inv'
<1> DEFINE current == Current(rec.svc)
           desired == calculateDesiredReplicas(rec.svc)
<1>1. /\ rec.pc = "restart"
      /\ rec' = [rec EXCEPT !.pc = IF current < desired THEN "scaleUp" ELSE "scaleDown",
                            !.missing = Less(desired, current),
                            !.excess = Less(current, desired),
                            !.stopped = 0,
                            !.queue = IF current > desired THEN RunningCopies(rec.svc) ELSE {}]
      /\ UNCHANGED <<tasks, container, abandoned, phase, mine, reserved, doubled, replicas, cooling,
                     measured, snap, drained, health, seen, boot, faults, drains, nodeStatus,
                     used, taskCount>>
  BY DEF Scale, At, OnlyTheLoop, NotTheLoops
<1>2. rec \in ReconcileRegisters /\ rec.picked = None /\ rec.svc \in Services
  BY <1>1, PickedOnlyToCreate DEF Inv, TypeOK, RegistersSound, Creating
<1>3. current \in Nat /\ desired \in Nat
  BY <1>2, CountsAreNatural DEF Inv, Current, OfStatus
<1>4. Less(desired, current) \in Nat /\ Less(current, desired) \in Nat
  BY <1>3 DEF Less
<1>5. /\ RunningCopies(rec.svc) \subseteq Tasks
      /\ \A t \in RunningCopies(rec.svc) : snap[t].status = "running"
  BY DEF RunningCopies, OfStatus
<1> HIDE DEF current, desired
<1>6. /\ rec' \in ReconcileRegisters /\ rec'.picked = None /\ rec'.svc = rec.svc
      /\ \/ rec'.pc = "scaleUp" /\ rec'.queue = {}
         \/ rec'.pc = "scaleDown" /\ rec'.queue \in {RunningCopies(rec.svc), {}}
  <2>1. CASE current < desired
    <3>1. ~(current > desired)
      BY <1>3, <2>1
    <3>2. rec' = [rec EXCEPT !.pc = "scaleUp", !.missing = Less(desired, current),
                             !.excess = Less(current, desired), !.stopped = 0, !.queue = {}]
      BY <1>1, <2>1, <3>1
    <3>3. QED
      BY <1>2, <1>4, <3>2 DEF ReconcileRegisters, PassSteps
  <2>2. CASE ~(current < desired)
    <3>1. PICK queue \in {RunningCopies(rec.svc), {}} :
             rec' = [rec EXCEPT !.pc = "scaleDown", !.missing = Less(desired, current),
                                !.excess = Less(current, desired), !.stopped = 0,
                                !.queue = queue]
      BY <1>1, <2>2
    <3>2. queue \in SUBSET Tasks
      BY <1>5
    <3>3. QED
      BY <1>2, <1>4, <3>1, <3>2 DEF ReconcileRegisters, PassSteps
  <2>3. QED
    BY <2>1, <2>2
<1>7. TypeOK'
  BY <1>1, <1>6 DEF Inv, TypeOK, SchedulerTypeOK
<1>8. RecordsPlaced' /\ CopiesAgree' /\ OwnedAreLeftAlone' /\ ReservedAreWanted'
  BY <1>1, RecordsUntouched DEF GivingBack
<1>9. RegistersSound'
  BY <1>1, <1>2, <1>5, <1>6 DEF Inv, RegistersSound, Evacuating, Restarting, ScalingDown
<1>10. NothingLeaks' /\ UsedIsHeld'
  BY <1>1, HoldersKept
<1>11. CountsFit'
  BY <1>1, <1>6, NobodyChooses
<1>12. QED
  BY <1>7, <1>8, <1>9, <1>10, <1>11 DEF Inv

(* The loop chooses a node: it has the room, so with what initServices may *)
(* have promised it is at most one request too many.                       *)
LEMMA SelectNodeKeepsInv ==
    ASSUME Inv, SelectNode
    PROVE  Inv'
<1>1. /\ rec.pc \in Creating /\ rec.picked = None /\ rec \in ReconcileRegisters
      /\ rec.pc = "scaleUp" => rec.missing > 0
      /\ UNCHANGED <<tasks, container, abandoned, phase, mine, reserved, doubled, replicas, cooling,
                     measured, snap, drained, health, seen, boot, faults, drains, nodeStatus,
                     used, taskCount>>
  BY DEF SelectNode, At, OnlyTheLoop, NotTheLoops, Inv, TypeOK
<1>2. rec.svc \in Services /\ rec.queue = {}
  BY <1>1 DEF Inv, RegistersSound, Creating, ScalingDown
<1>3. \/ rec' = [rec EXCEPT !.pc = AfterCreate[@], !.missing = 0]
      \/ \E n \in Selectable(Request[rec.svc]) : rec' = [rec EXCEPT !.picked = n]
  BY DEF SelectNode
<1>4. AfterCreate[rec.pc] \in {"evacuate", "restart", "scaleUp"}
  BY <1>1 DEF AfterCreate, Creating
<1>5. NothingLeaks' /\ UsedIsHeld'
  BY <1>1, HoldersKept
<1>6. CASE rec' = [rec EXCEPT !.pc = AfterCreate[@], !.missing = 0]
  <2>1. /\ rec' \in ReconcileRegisters /\ rec'.picked = None /\ rec'.svc = rec.svc
        /\ rec'.pc \in {"evacuate", "restart", "scaleUp"} /\ rec'.queue = rec.queue
    BY <1>1, <1>4, <1>6 DEF ReconcileRegisters, PassSteps
  <2>2. TypeOK'
    BY <1>1, <2>1 DEF Inv, TypeOK, SchedulerTypeOK
  <2>3. RecordsPlaced' /\ CopiesAgree' /\ OwnedAreLeftAlone' /\ ReservedAreWanted'
    BY <1>1, <2>1, RecordsUntouched DEF GivingBack, Creating
  <2>4. RegistersSound'
    BY <1>1, <1>2, <2>1 DEF Inv, RegistersSound, Evacuating, Restarting, ScalingDown
  <2>5. CountsFit'
    BY <1>1, <2>1, NobodyChooses
  <2>6. QED
    BY <1>5, <2>2, <2>3, <2>4, <2>5 DEF Inv
<1>7. CASE \E n \in Selectable(Request[rec.svc]) : rec' = [rec EXCEPT !.picked = n]
  <2>1. PICK n \in Selectable(Request[rec.svc]) : rec' = [rec EXCEPT !.picked = n]
    BY <1>7
  <2>2. n \in Nodes /\ Capacity[n] - used[n] >= Request[rec.svc]
    BY SelectableHasRoom
  <2>3. /\ rec' \in ReconcileRegisters /\ rec'.picked = n /\ rec'.svc = rec.svc
        /\ rec'.pc = rec.pc /\ rec'.cur = rec.cur /\ rec'.queue = rec.queue
        /\ rec'.missing = rec.missing
    BY <1>1, <2>1, <2>2 DEF ReconcileRegisters
  <2>4. TypeOK'
    BY <1>1, <2>3 DEF Inv, TypeOK, SchedulerTypeOK
  <2>5. RecordsPlaced' /\ CopiesAgree' /\ OwnedAreLeftAlone' /\ ReservedAreWanted'
    BY <1>1, <2>3, RecordsUntouched DEF GivingBack
  <2>6. RegistersSound'
    BY <1>1, <1>2, <2>3 DEF Inv, RegistersSound, Evacuating, Restarting, ScalingDown, Creating
  <2>7. CountsFit'
    <3>1. SUFFICES ASSUME NEW m \in Nodes
          PROVE  \/ used'[m] + Promised(m)' <= Capacity[m]
                 \/ \E s \in Services : used'[m] + Promised(m)' <= Capacity[m] + Request[s]
      BY DEF CountsFit
    <3>2. CASE m # n
      <4>1. Promised(m)' = Promised(m) /\ used'[m] = used[m]
        BY <1>1, <2>3, <3>2, NoneIsNone DEF Promised
      <4>2. QED
        BY <4>1 DEF Inv, CountsFit
    <3>3. CASE m = n
      <4>1. used'[m] \in Nat /\ used[m] = used'[m] /\ Capacity[m] \in Nat
            /\ Request[rec.svc] \in Nat
        BY <1>1, <1>2, <2>2, CapacityAssumption, ServiceAssumption
           DEF Inv, TypeOK, SchedulerTypeOK
      <4>2. CASE boot.picked = n
        <5>1. boot.svc \in Services /\ Request[boot.svc] \in Nat
          BY <2>2, <4>2, NoneIsNone, ServiceAssumption DEF Inv, RegistersSound
        <5>2. Promised(m)' = Request[rec.svc] + Request[boot.svc]
          BY <1>1, <2>3, <3>3, <4>2 DEF Promised
        <5>3. QED
          BY <2>2, <3>3, <4>1, <5>1, <5>2
      <4>3. CASE boot.picked # n
        <5>1. Promised(m)' = Request[rec.svc]
          BY <1>1, <2>3, <3>3, <4>1, <4>3 DEF Promised
        <5>2. QED
          BY <2>2, <3>3, <4>1, <5>1
      <4>4. QED
        BY <4>2, <4>3
    <3>4. QED
      BY <3>2, <3>3
  <2>8. QED
    BY <1>5, <2>4, <2>5, <2>6, <2>7 DEF Inv
<1>8. QED
  BY <1>3, <1>6, <1>7

(* The loop launches a task on the node it has chosen.                     *)
LEMMA LaunchPickedKeepsInv ==
    ASSUME Inv, LaunchPicked
    PROVE  Inv'
<1> DEFINE s == rec.svc
           n == rec.picked
<1>1. /\ n # None /\ Launch(s, n)
      /\ rec' = [rec EXCEPT !.picked = None, !.pc = AfterCreate[@], !.missing = Less(@, 1)]
      /\ UNCHANGED <<container, abandoned, replicas, cooling, measured, snap, drained, health, seen,
                     boot, faults, drains>>
  BY DEF LaunchPicked, NotTheLoops
<1>2. rec \in ReconcileRegisters /\ n \in Nodes /\ rec.pc \in Creating /\ s \in Services
  BY <1>1 DEF Inv, TypeOK, ReconcileRegisters, RegistersSound, Creating
<1>3. AfterCreate[rec.pc] \in {"evacuate", "restart", "scaleUp"} /\ Less(rec.missing, 1) \in Nat
  BY <1>2 DEF AfterCreate, Creating, Less, ReconcileRegisters
<1>4. rec.queue = {}
  BY <1>2 DEF Inv, RegistersSound, Creating, ScalingDown
<1>5. /\ rec' \in ReconcileRegisters /\ rec'.picked = None /\ rec'.svc = rec.svc
      /\ rec'.pc \in {"evacuate", "restart", "scaleUp"} /\ rec'.queue = rec.queue
  BY <1>1, <1>2, <1>3 DEF ReconcileRegisters, PassSteps
<1> HIDE DEF s, n
<1>6. \A u \in Tasks : ~GivingBack(u)
  BY <1>2 DEF GivingBack, Creating
<1>7. /\ tasks' \in [Tasks -> Record] /\ mine' \in [Tasks -> Record]
      /\ phase' \in [Tasks -> {"none", "spawned", "creating", "created", "refused", "releasing"}]
      /\ SchedulerTypeOK' /\ reserved' \subseteq Tasks /\ doubled' \subseteq Nodes
      /\ \A m \in Nodes : used'[m] = IF m = n THEN used[m] + Request[s] ELSE used[m]
      /\ RecordsPlaced' /\ CopiesAgree' /\ OwnedAreLeftAlone'
      /\ NothingLeaks' /\ UsedIsHeld' /\ ReservedAreWanted'
  BY <1>1, <1>2, <1>6, LaunchSound
<1>8. TypeOK'
  BY <1>1, <1>5, <1>7 DEF Inv, TypeOK
<1>9. RegistersSound'
  BY <1>1, <1>2, <1>4, <1>5 DEF Inv, RegistersSound, Evacuating, Restarting, ScalingDown, s
<1>10. CountsFit'
  <2>1. ASSUME NEW m \in Nodes
        PROVE  /\ used'[m] + Promised(m)' = used[m] + Promised(m)
               /\ used[m] + Promised(m) \in Int
    <3>1. used[m] \in Nat /\ Promised(m) \in Nat /\ Request[s] \in Nat
      BY <1>2, PromisesAreNatural, ServiceAssumption DEF Inv
    <3>2. boot.picked = m => Request[boot.svc] \in Nat
      BY NoneIsNone, ServiceAssumption DEF Inv, RegistersSound
    <3>3. /\ Promised(m) = Promised(m)' + (IF m = n THEN Request[s] ELSE 0)
          /\ Promised(m)' \in Int
      BY <1>1, <1>5, <3>1, <3>2, NoneIsNone DEF Promised, s, n
    <3>4. QED
      BY <1>7, <3>1, <3>3
  <2>2. QED
    BY <2>1, LoadKept
<1>11. QED
  BY <1>7, <1>8, <1>9, <1>10 DEF Inv

(***************************************************************************)
(* Scaling down.                                                           *)
(***************************************************************************)

(* Scale down passes over a task it may not stop.                          *)
LEMMA ScaleDownSkipKeepsInv ==
    ASSUME Inv, NEW t \in Tasks, ScaleDownSkip(t)
    PROVE  Inv'
<1>1. /\ rec.pc = "scaleDown" /\ rec' = [rec EXCEPT !.queue = @ \ {t}]
      /\ UNCHANGED <<tasks, container, abandoned, phase, mine, reserved, doubled, replicas, cooling,
                     measured, snap, drained, health, seen, boot, faults, drains, nodeStatus,
                     used, taskCount>>
  BY DEF ScaleDownSkip, NextToStop, At, OnlyTheLoop, NotTheLoops
<1>2. rec \in ReconcileRegisters /\ rec.picked = None /\ rec.svc \in Services
  BY <1>1, PickedOnlyToCreate DEF Inv, TypeOK, RegistersSound, Creating
<1>3. /\ rec' \in ReconcileRegisters /\ rec'.pc = "scaleDown" /\ rec'.picked = None
      /\ rec'.svc = rec.svc /\ rec'.queue \subseteq rec.queue
  BY <1>1, <1>2 DEF ReconcileRegisters
<1>4. TypeOK'
  BY <1>1, <1>3 DEF Inv, TypeOK, SchedulerTypeOK
<1>5. RecordsPlaced' /\ CopiesAgree' /\ OwnedAreLeftAlone' /\ ReservedAreWanted'
  BY <1>1, RecordsUntouched DEF GivingBack
<1>6. RegistersSound'
  BY <1>1, <1>2, <1>3 DEF Inv, RegistersSound, Evacuating, Restarting, ScalingDown
<1>7. NothingLeaks' /\ UsedIsHeld'
  BY <1>1, HoldersKept
<1>8. CountsFit'
  BY <1>1, <1>3, NobodyChooses
<1>9. QED
  BY <1>4, <1>5, <1>6, <1>7, <1>8 DEF Inv

(* Scale down writes that the task is not wanted: from here to the release *)
(* it is the one task whose reservation stands though nobody wants it.     *)
LEMMA ScaleDownDesireKeepsInv ==
    ASSUME Inv, NEW t \in Tasks, ScaleDownDesire(t)
    PROVE  Inv'
<1> DEFINE r == [snap[t] EXCEPT !.desired = "stopped"]
<1>1. /\ rec.pc = "scaleDown" /\ t \in rec.queue
      /\ snap' = [snap EXCEPT ![t] = r]
      /\ UNCHANGED <<container, abandoned, phase, mine, reserved, doubled, replicas, cooling, measured,
                     drained, health, seen, boot, faults, drains, nodeStatus, used, taskCount>>
  BY DEF ScaleDownDesire, NextToStop, At, NotTheLoops
<1>2. /\ snap[t] \in Record /\ snap[t].status = "running" /\ Placed(snap[t])
      /\ phase[t] \notin Owned /\ ~Done(snap[t])
      /\ t \in reserved => Agree(tasks[t], snap[t])
  <2>1. snap[t].status = "running"
    BY <1>1 DEF Inv, RegistersSound
  <2>2. ~Done(snap[t])
    BY <2>1 DEF Done, Terminated
  <2>3. QED
    BY <2>1, <2>2 DEF Inv, TypeOK, RecordsPlaced, CopiesAgree, OwnedAreLeftAlone
<1>3. /\ r \in Record /\ r.status = "running" /\ r.node = snap[t].node
      /\ r.service = snap[t].service
  BY <1>2 DEF Record
<1> HIDE DEF r
<1>4. /\ snap' \in [Tasks -> Record] /\ snap'[t] = r
      /\ \A u \in Tasks \ {t} : snap'[u] = snap[u]
  BY <1>1, <1>3 DEF Inv, TypeOK
<1>5. tasks' = [tasks EXCEPT ![t] = r]
  BY <1>4 DEF ScaleDownDesire, Update
<1>6. /\ tasks' \in [Tasks -> Record] /\ tasks'[t] = r
      /\ \A u \in Tasks \ {t} : tasks'[u] = tasks[u]
  BY <1>3, <1>5 DEF Inv, TypeOK
<1>7. rec \in ReconcileRegisters /\ rec.picked = None /\ rec.svc \in Services
  BY <1>1, PickedOnlyToCreate DEF Inv, TypeOK, RegistersSound, Creating
<1>8. PICK pc \in {"scaleDownStop", "scaleDownRelease"} :
         rec' = [rec EXCEPT !.queue = @ \ {t}, !.cur = t, !.pc = pc]
  BY DEF ScaleDownDesire
<1>9. /\ rec' \in ReconcileRegisters /\ rec'.pc = pc /\ rec'.cur = t /\ rec'.picked = None
      /\ rec'.svc = rec.svc /\ rec'.queue = rec.queue \ {t}
  BY <1>7, <1>8 DEF ReconcileRegisters, PassSteps
<1>10. TypeOK'
  BY <1>1, <1>4, <1>6, <1>9 DEF Inv, TypeOK, SchedulerTypeOK
<1>11. ASSUME NEW u \in Tasks PROVE Careful(u)
  <2>1. ~GivingBack(u) /\ (u = t => GivingBack(u)')
    BY <1>1, <1>9 DEF GivingBack
  <2>2. RecordKept(u)
    BY <1>1, <1>2, <1>3, <1>6, <2>1 DEF RecordKept, Placed
  <2>3. ExecutorKept(u)
    BY <1>1, <1>2, <1>6, ExecutorUntouched
  <2>4. SnapKept(u)
    BY <1>1, <1>2, <1>3, <1>4 DEF SnapKept
  <2>5. QED
    BY <1>1, <2>1, <2>2, <2>3, <2>4 DEF Careful, DrainedKept, SeenKept
<1>12. RecordsPlaced' /\ CopiesAgree' /\ OwnedAreLeftAlone' /\ ReservedAreWanted'
  BY <1>1, <1>11, CarefulSteps
<1>13. RegistersSound'
  <2>1. \A u \in rec'.queue : snap'[u].status = "running"
    BY <1>4, <1>7, <1>9 DEF Inv, RegistersSound, ReconcileRegisters
  <2>2. QED
    BY <1>1, <1>3, <1>4, <1>7, <1>9, <2>1
       DEF Inv, RegistersSound, Evacuating, Restarting, ScalingDown
<1>14. NothingLeaks' /\ UsedIsHeld'
  BY <1>1, <1>2, <1>3, <1>6, HoldersKept DEF Inv, TypeOK
<1>15. CountsFit'
  BY <1>1, <1>9, NobodyChooses
<1>16. QED
  BY <1>10, <1>12, <1>13, <1>14, <1>15 DEF Inv

(* Scale down releases the task.                                           *)
LEMMA ScaleDownReleaseKeepsInv ==
    ASSUME Inv, ScaleDownRelease
    PROVE  Inv'
BY ReleaseAtHandKeepsInv DEF ScaleDownRelease, At, Goto

(* Scale down marks the task.                                              *)
LEMMA ScaleDownMarkKeepsInv ==
    ASSUME Inv, ScaleDownMark
    PROVE  Inv'
<1>1. /\ rec.pc = "scaleDownMark"
      /\ rec' = [rec EXCEPT !.pc = "scaleDown", !.cur = None, !.stopped = @ + 1]
  BY DEF ScaleDownMark, At
<1>2. rec \in ReconcileRegisters /\ rec.picked = None
  BY <1>1, PickedOnlyToCreate DEF Inv, TypeOK, Creating
<1>3. /\ rec' \in ReconcileRegisters /\ rec'.picked = None /\ rec'.svc = rec.svc
      /\ rec'.pc = "scaleDown" /\ rec'.queue = rec.queue
  <2>1. rec.stopped + 1 \in Nat
    BY <1>2 DEF ReconcileRegisters
  <2>2. QED
    BY <1>1, <1>2, <2>1 DEF ReconcileRegisters, PassSteps
<1>4. QED
  BY <1>1, <1>3, MarkAtHandKeepsInv DEF ScaleDownMark

(***************************************************************************)
(* Taking a container down.                                                *)
(***************************************************************************)

(* A container is stopped or removed, or is not.                           *)
LEMMA TakeDownKeepsInv ==
    ASSUME Inv, TakeDown
    PROVE  Inv'
<1>1. UNCHANGED <<tasks, phase, mine, reserved, doubled, replicas, cooling, measured, snap, drained, health,
                  seen, boot, drains, nodeStatus, used, taskCount>>
  BY DEF TakeDown, NotTheLoops, StopContainer, RemoveContainer
<1>2. container' \in [Tasks -> {"none", "up", "down"}]
  BY DEF TakeDown, StopContainer, RemoveContainer, Inv, TypeOK
<1>3. faults' \in 0..MaxFaults
  BY BoundsAssumption DEF TakeDown, StopContainer, RemoveContainer, Fault, NoFault, Inv, TypeOK
<1>4. rec \in ReconcileRegisters
  BY DEF Inv, TypeOK
<1>5. /\ rec.pc \in DOMAIN Stopping \cup DOMAIN Removing
      /\ \/ /\ rec.pc \in DOMAIN Stopping
            /\ rec' = [rec EXCEPT !.pc = Stopping[rec.pc]]
         \/ /\ rec.pc \in DOMAIN Removing /\ rec.pc # "restartRemove"
            /\ rec' = [rec EXCEPT !.pc = Removing[rec.pc]]
         \/ /\ rec.pc = "restartRemove"
            /\ rec' = [rec EXCEPT !.pc = "restartCreate", !.cur = None]
  <2>1. CASE rec.pc \in DOMAIN Stopping /\ Goto(Stopping[rec.pc])
    BY <2>1 DEF Goto
  <2>2. CASE /\ rec.pc \in DOMAIN Removing
             /\ rec' = [rec EXCEPT !.pc = Removing[@],
                                   !.cur = IF At("restartRemove") THEN None ELSE @]
    <3>1. CASE rec.pc = "restartRemove"
      BY <2>2, <3>1 DEF At, Removing
    <3>2. CASE rec.pc # "restartRemove"
      <4>1. rec' = [rec EXCEPT !.pc = Removing[rec.pc], !.cur = rec.cur]
        BY <2>2, <3>2 DEF At
      <4>2. rec' = [rec EXCEPT !.pc = Removing[rec.pc]]
        BY <1>4, <4>1 DEF ReconcileRegisters
      <4>3. QED
        BY <2>2, <3>2, <4>2
    <3>3. QED
      BY <3>1, <3>2
  <2>3. QED
    BY <2>1, <2>2 DEF TakeDown
<1>6. rec.cur \in Tasks /\ rec.svc \in Services /\ rec.picked = None
  BY <1>5, PickedOnlyToCreate
     DEF Inv, RegistersSound, Stopping, Removing, Evacuating, ScalingDown, Creating
<1>7. abandoned' \subseteq Tasks
  BY <1>6 DEF TakeDown, StopContainer, RemoveContainer, Inv, TypeOK
<1>8. /\ rec' \in ReconcileRegisters /\ rec'.picked = None /\ rec'.svc = rec.svc
      /\ rec'.queue = rec.queue
      /\ \/ rec.pc \in Evacuating /\ rec'.pc \in Evacuating /\ rec'.cur = rec.cur
         \/ rec.pc = "restartStop" /\ rec'.pc = "restartRemove" /\ rec'.cur = rec.cur
         \/ rec.pc = "restartRemove" /\ rec'.pc = "restartCreate"
         \/ /\ rec.pc \in {"scaleDownStop", "scaleDownRemove"}
            /\ rec'.pc \in {"scaleDownRemove", "scaleDownRelease"} /\ rec'.cur = rec.cur
  <2>1. CASE rec.pc = "evacuateStop" /\ rec' = [rec EXCEPT !.pc = "evacuateRemove"]
    BY <1>4, <1>6, <2>1 DEF ReconcileRegisters, PassSteps, Evacuating
  <2>2. CASE rec.pc = "evacuateRemove" /\ rec' = [rec EXCEPT !.pc = "evacuateMark"]
    BY <1>4, <1>6, <2>2 DEF ReconcileRegisters, PassSteps, Evacuating
  <2>3. CASE rec.pc = "restartStop" /\ rec' = [rec EXCEPT !.pc = "restartRemove"]
    BY <1>4, <1>6, <2>3 DEF ReconcileRegisters, PassSteps
  <2>4. CASE rec.pc = "restartRemove"
                /\ rec' = [rec EXCEPT !.pc = "restartCreate", !.cur = None]
    BY <1>4, <1>6, <2>4 DEF ReconcileRegisters, PassSteps
  <2>5. CASE rec.pc = "scaleDownStop" /\ rec' = [rec EXCEPT !.pc = "scaleDownRemove"]
    BY <1>4, <1>6, <2>5 DEF ReconcileRegisters, PassSteps
  <2>6. CASE rec.pc = "scaleDownRemove" /\ rec' = [rec EXCEPT !.pc = "scaleDownRelease"]
    BY <1>4, <1>6, <2>6 DEF ReconcileRegisters, PassSteps
  <2>7. QED
    BY <1>5, <2>1, <2>2, <2>3, <2>4, <2>5, <2>6 DEF Stopping, Removing
<1>9. TypeOK'
  BY <1>1, <1>2, <1>3, <1>7, <1>8 DEF Inv, TypeOK, SchedulerTypeOK
<1>10. RecordsPlaced' /\ CopiesAgree' /\ OwnedAreLeftAlone' /\ ReservedAreWanted'
  BY <1>1, <1>8, RecordsUntouched DEF GivingBack, Evacuating
<1>11. RegistersSound'
  BY <1>1, <1>6, <1>8 DEF Inv, RegistersSound, Evacuating, Restarting, ScalingDown
<1>12. NothingLeaks' /\ UsedIsHeld'
  BY <1>1, HoldersKept
<1>13. CountsFit'
  BY <1>1, <1>8, NobodyChooses
<1>14. QED
  BY <1>9, <1>10, <1>11, <1>12, <1>13 DEF Inv

(***************************************************************************)
(* Predictive scaling, and the next service.                               *)
(***************************************************************************)

(* Where predictive scaling and the next service begin, no task is at      *)
(* hand.                                                                   *)
LEMMA ScalingDoneSound ==
    ASSUME Inv, ScalingDone
    PROVE  /\ rec.picked = None /\ rec \in ReconcileRegisters /\ rec.svc \in Services
           /\ rec.pc \in {"scaleUp", "scaleDown"}
           /\ \A u \in Tasks : ~GivingBack(u)
<1>1. (rec.pc = "scaleUp" /\ rec.missing = 0) \/ rec.pc = "scaleDown"
  BY DEF ScalingDone, At
<1>2. rec.pc \in {"scaleUp", "scaleDown"}
  BY <1>1
<1>3. rec.picked = None
  BY <1>1, PickedOnlyToCreate DEF Creating
<1>4. QED
  BY <1>2, <1>3 DEF Inv, TypeOK, RegistersSound, GivingBack

(* Predictive scaling asks for more tasks.                                 *)
LEMMA performScaleUpKeepsInv ==
    ASSUME Inv, NEW f \in 1..3, performScaleUp(f)
    PROVE  Inv'
<1>1. /\ rec' = [rec EXCEPT !.pc = "scaleUp", !.scaling = "predictive", !.missing = f,
                            !.queue = {}]
      /\ cooling' = cooling \cup {rec.svc}
      /\ replicas' = [replicas EXCEPT ![rec.svc] = AtMost(@ + f, MaxReplicas[rec.svc])]
      /\ UNCHANGED <<tasks, container, abandoned, phase, mine, reserved, doubled, measured, snap, drained,
                     health, seen, boot, faults, drains, nodeStatus, used, taskCount>>
  BY DEF performScaleUp, OnlyTheLoop, NotTheLoops
<1>2. /\ rec.picked = None /\ rec \in ReconcileRegisters /\ rec.svc \in Services
      /\ \A u \in Tasks : ~GivingBack(u)
  BY ScalingDoneSound DEF performScaleUp, Predicting
<1>3. /\ rec' \in ReconcileRegisters /\ rec'.pc = "scaleUp" /\ rec'.picked = None
      /\ rec'.svc = rec.svc /\ rec'.queue = {}
  <2>1. f \in Nat
    OBVIOUS
  <2>2. QED
    BY <1>1, <1>2, <2>1 DEF ReconcileRegisters, PassSteps
<1>4. replicas' \in [Services -> Nat] /\ cooling' \subseteq Services
  <2>1. replicas \in [Services -> Nat] /\ cooling \subseteq Services
    BY DEF Inv, TypeOK
  <2>2. AtMost(replicas[rec.svc] + f, MaxReplicas[rec.svc]) \in Nat
    BY <1>2, <2>1, ServiceAssumption DEF AtMost
  <2>3. QED
    BY <1>1, <1>2, <2>1, <2>2
<1>5. TypeOK'
  BY <1>1, <1>3, <1>4 DEF Inv, TypeOK, SchedulerTypeOK
<1>6. RecordsPlaced' /\ CopiesAgree' /\ OwnedAreLeftAlone' /\ ReservedAreWanted'
  BY <1>1, <1>2, RecordsUntouched DEF Inv, TypeOK
<1>7. RegistersSound'
  BY <1>1, <1>2, <1>3 DEF Inv, RegistersSound, Evacuating, Restarting, ScalingDown
<1>8. NothingLeaks' /\ UsedIsHeld'
  BY <1>1, HoldersKept
<1>9. CountsFit'
  BY <1>1, <1>3, NobodyChooses
<1>10. QED
  BY <1>5, <1>6, <1>7, <1>8, <1>9 DEF Inv

(* Predictive scaling stops one task, from a fresh copy of the service.    *)
LEMMA performScaleDownKeepsInv ==
    ASSUME Inv, performScaleDown
    PROVE  Inv'
<1> DEFINE queue == {t \in Tasks : tasks[t].service = rec.svc /\ tasks[t].status = "running"}
<1>1. /\ rec' = [rec EXCEPT !.pc = "scaleDown", !.scaling = "predictive", !.stopped = 0,
                            !.excess = 1, !.queue = queue]
      /\ cooling' = cooling \cup {rec.svc}
      /\ replicas[rec.svc] > MinReplicas[rec.svc]
      /\ replicas' = [replicas EXCEPT ![rec.svc] = @ - 1]
      /\ snap' = [t \in Tasks |-> IF tasks[t].service = rec.svc /\ ~Done(tasks[t]) THEN tasks[t]
                                  ELSE IF snap[t].service = rec.svc THEN Absent ELSE snap[t]]
      /\ UNCHANGED <<tasks, container, abandoned, phase, mine, reserved, doubled, measured, drained, health,
                     seen, boot, faults, drains, nodeStatus, used, taskCount>>
  BY DEF performScaleDown, OnlyTheLoop, NotTheLoops
<1>2. /\ rec.picked = None /\ rec \in ReconcileRegisters /\ rec.svc \in Services
      /\ \A u \in Tasks : ~GivingBack(u)
  BY ScalingDoneSound DEF performScaleDown, Predicting
<1>3. \A u \in queue : u \in Tasks /\ snap'[u].status = "running"
  BY <1>1 DEF Done, Terminated
<1> HIDE DEF queue
<1>4. /\ rec' \in ReconcileRegisters /\ rec'.pc = "scaleDown" /\ rec'.picked = None
      /\ rec'.svc = rec.svc /\ rec'.queue = queue
  <2>1. queue \in SUBSET Tasks
    BY <1>3
  <2>2. QED
    BY <1>1, <1>2, <2>1 DEF ReconcileRegisters, PassSteps
<1>5. replicas' \in [Services -> Nat] /\ cooling' \subseteq Services
  <2>1. replicas \in [Services -> Nat] /\ cooling \subseteq Services
    BY DEF Inv, TypeOK
  <2>2. replicas[rec.svc] - 1 \in Nat
    BY <1>1, <1>2, <2>1, ServiceAssumption
  <2>3. QED
    BY <1>1, <1>2, <2>1, <2>2
<1>6. snap' \in [Tasks -> Record]
  BY <1>1, AbsentIsRecord DEF Inv, TypeOK
<1>7. TypeOK'
  BY <1>1, <1>4, <1>5, <1>6 DEF Inv, TypeOK, SchedulerTypeOK
<1>8. ASSUME NEW u \in Tasks PROVE Careful(u)
  <2>1. SnapKept(u)
    BY <1>1 DEF SnapKept, Absent, Done
  <2>2. ExecutorKept(u)
    BY <1>1, ExecutorUntouched
  <2>3. QED
    BY <1>1, <1>2, <2>1, <2>2 DEF Careful, RecordKept, DrainedKept, SeenKept
<1>9. RecordsPlaced' /\ CopiesAgree' /\ OwnedAreLeftAlone' /\ ReservedAreWanted'
  BY <1>1, <1>8, CarefulSteps
<1>10. RegistersSound'
  BY <1>1, <1>2, <1>3, <1>4 DEF Inv, RegistersSound, Evacuating, Restarting, ScalingDown
<1>11. NothingLeaks' /\ UsedIsHeld'
  BY <1>1, HoldersKept
<1>12. CountsFit'
  BY <1>1, <1>4, NobodyChooses
<1>13. QED
  BY <1>7, <1>9, <1>10, <1>11, <1>12 DEF Inv

(* A service is done.                                                      *)
LEMMA ServiceDoneKeepsInv ==
    ASSUME Inv, ServiceDone
    PROVE  Inv'
<1>1. /\ \A u \in Tasks : ~GivingBack(u)
      /\ rec.servicesLeft \in SUBSET Services
  BY ScalingDoneSound DEF ServiceDone, ReconcileRegisters
<1>2. QED
  BY <1>1, NextServiceKeepsInv DEF ServiceDone

(***************************************************************************)
(* The theorems.                                                           *)
(***************************************************************************)

(* The invariant holds when Start has launched the loops.                  *)
LEMMA InitInv == Init => Inv
<1> SUFFICES ASSUME Init PROVE Inv
  OBVIOUS
<1>1. /\ tasks = NoTasks /\ mine = NoTasks /\ snap = NoTasks /\ drained = NoTasks
      /\ seen = NoTasks /\ reserved = {} /\ doubled = {} /\ rec = IdleReconcile
      /\ health = [pc |-> "check", cur |-> None]
      /\ boot = [servicesLeft |-> Services, svc |-> None, missing |-> 0, picked |-> None]
      /\ \A n \in Nodes : used[n] = 0 /\ taskCount[n] = 0
      /\ \A t \in Tasks : phase[t] = "none"
  BY DEF Init, SchedulerInit
<1>2. TypeOK
  <2>1. NoTasks \in [Tasks -> Record]
    BY AbsentIsRecord DEF NoTasks
  <2>2. IdleReconcile \in ReconcileRegisters
    BY DEF IdleReconcile, ReconcileRegisters, PassSteps
  <2>3. health \in HealthRegisters /\ boot \in BootRegisters
    BY <1>1 DEF HealthRegisters, BootRegisters
  <2>4. QED
    BY <2>1, <2>2, <2>3, ServiceAssumption, BoundsAssumption
       DEF Init, SchedulerInit, TypeOK, SchedulerTypeOK
<1>3. RecordsPlaced /\ CopiesAgree /\ OwnedAreLeftAlone /\ ReservedAreWanted
  BY <1>1 DEF RecordsPlaced, CopiesAgree, OwnedAreLeftAlone, ReservedAreWanted, NoTasks, Absent,
              Done, Owned
<1>4. RegistersSound
  BY <1>1 DEF RegistersSound, IdleReconcile, Evacuating, Restarting, ScalingDown
<1>5. NothingLeaks
  <2>1. ASSUME NEW n \in Nodes PROVE Cardinality(HeldOn(n)) = 0
    BY <1>1, FS_EmptySet DEF HeldOn
  <2>2. QED
    BY <1>1, <2>1 DEF NothingLeaks
<1>6. UsedIsHeld
  <2>1. ASSUME NEW n \in Nodes PROVE Held(n) = 0
    <3> DEFINE f == Load(n)
    <3>1. f \in [Tasks -> Int] /\ \A t \in Tasks : f[t] = 0
      BY <1>1 DEF Load, HeldOn
    <3> HIDE DEF f
    <3>2. SumFunction(f) = 0
      BY <3>1, FiniteTasks, SumOfZeros
    <3>3. QED
      BY <3>2 DEF f, Held
  <2>2. QED
    BY <1>1, <2>1 DEF UsedIsHeld
<1>7. CountsFit
  BY <1>1, NoneIsNone, CapacityAssumption DEF CountsFit, Promised, IdleReconcile
<1>8. QED
  BY <1>2, <1>3, <1>4, <1>5, <1>6, <1>7 DEF Inv

(* Every step of an executeTask keeps the invariant.                       *)
LEMMA ExecutorKeepsInv ==
    ASSUME Inv, NEW t \in Tasks, Executor(t)
    PROVE  Inv'
BY ExecStartingKeepsInv, ExecCreateContainerKeepsInv, ExecRunningKeepsInv, ExecFailedKeepsInv,
   ExecReleaseKeepsInv DEF Executor

(* Every step of initServices keeps the invariant.                         *)
LEMMA BootKeepsInv ==
    ASSUME Inv, Boot
    PROVE  Inv'
BY BootServiceKeepsInv, BootSelectKeepsInv, BootLaunchKeepsInv DEF Boot

(* Every step of the health check loop keeps the invariant.                *)
LEMMA HealthKeepsInv ==
    ASSUME Inv, Health
    PROVE  Inv'
BY HealthListKeepsInv, HealthCheckKeepsInv, HealthFailKeepsInv, HealthReleaseKeepsInv DEF Health

(* Every step of the reconcile loop keeps the invariant.                   *)
LEMMA ReconcileKeepsInv ==
    ASSUME Inv, Reconcile
    PROVE  Inv'
<1>1. CASE StartPass \/ EvacuateMark \/ EvacuateDone \/ DrainDone \/ \E n \in Nodes : DrainNode(n)
  BY <1>1, StartPassKeepsInv, EvacuateMarkKeepsInv, EvacuateDoneKeepsInv, DrainDoneKeepsInv,
     DrainNodeKeepsInv
<1>2. CASE \E t \in Tasks : \/ EvacuateRelease(t) \/ RestartIncrement(t)
                            \/ ScaleDownSkip(t) \/ ScaleDownDesire(t)
  BY <1>2, EvacuateReleaseKeepsInv, RestartIncrementKeepsInv, ScaleDownSkipKeepsInv,
     ScaleDownDesireKeepsInv
<1>3. CASE RestartRelease \/ RestartMark \/ Scale \/ SelectNode \/ LaunchPicked
  BY <1>3, RestartReleaseKeepsInv, RestartMarkKeepsInv, ScaleKeepsInv, SelectNodeKeepsInv,
     LaunchPickedKeepsInv
<1>4. CASE ScaleDownRelease \/ ScaleDownMark \/ TakeDown
  BY <1>4, ScaleDownReleaseKeepsInv, ScaleDownMarkKeepsInv, TakeDownKeepsInv
<1>5. CASE (\E f \in 1..3 : performScaleUp(f)) \/ performScaleDown \/ ServiceDone
  BY <1>5, performScaleUpKeepsInv, performScaleDownKeepsInv, ServiceDoneKeepsInv
<1>6. QED
  BY <1>1, <1>2, <1>3, <1>4, <1>5 DEF Reconcile

(* So does a step in which nothing happens.                                *)
LEMMA StutterKeepsInv ==
    ASSUME Inv, UNCHANGED vars
    PROVE  Inv'
<1>1. UNCHANGED <<tasks, container, abandoned, phase, mine, reserved, doubled, replicas, cooling, measured,
                  rec, snap, drained, health, seen, boot, faults, drains, nodeStatus, used,
                  taskCount>>
  BY DEF vars
<1>2. TypeOK'
  BY <1>1 DEF Inv, TypeOK, SchedulerTypeOK
<1>3. QED
  BY <1>1, <1>2, FrameKeepsInv

(* Whatever the interleaving of initServices, the two loops, the           *)
(* executors, the daemon and the API, the invariant holds.                 *)
THEOREM Inductive == Spec => []Inv
<1>1. Inv /\ [Next]_vars => Inv'
  BY ExecutorKeepsInv, BootKeepsInv, HealthKeepsInv, ReconcileKeepsInv, EnvironmentKeepsInv,
     StutterKeepsInv DEF Next
<1>2. QED
  BY InitInv, <1>1, PTL DEF Spec

(* Every variable of the orchestrator keeps its type: above all, no count  *)
(* of resources or tasks ever falls below zero.                            *)
THEOREM TypeCorrect == Spec => []TypeOK
<1>1. Inv => TypeOK
  BY DEF Inv
<1>2. QED
  BY Inductive, <1>1, PTL

(* ReleaseNodeResources is called by executeTask, evacuation, restarts,    *)
(* scale down and the health check, on copies of any age; still no node    *)
(* ever counts more tasks than there are reservations that stand, and a    *)
(* node where no task was released twice counts exactly as many.           *)
THEOREM NoCapacityIsLost == Spec => []NothingLeaks
<1>1. Inv => NothingLeaks
  BY DEF Inv
<1>2. QED
  BY Inductive, <1>1, PTL

(* No handler gives a task up and forgets its reservation, also when       *)
(* another one writes an older copy over the record in between.            *)
THEOREM ReservationsAreWanted == Spec => []ReservedAreWanted
<1>1. Inv => ReservedAreWanted
  BY DEF Inv
<1>2. QED
  BY Inductive, <1>1, PTL

(* SelectNode and the reservation are not atomic and two goroutines create *)
(* tasks; still the tasks that hold resources on a node, with those about  *)
(* to be given some there, never ask for more than one request above what  *)
(* the node offers, on any node where no task was released twice: there    *)
(* the scheduler counts what the tasks hold (UsedIsHeld), and what it      *)
(* counts fits (CountsFit).                                                *)
THEOREM OvercommitIsBounded == Spec => []OvercommitBounded
<1>1. Inv => OvercommitBounded
  BY DEF Inv, UsedIsHeld, CountsFit, OvercommitBounded
<1>2. QED
  BY Inductive, <1>1, PTL

(* executeTask writes its own task object over the record; until it has    *)
(* written its outcome nobody else has written there.                      *)
THEOREM ExecutorLosesNothing == Spec => []ExecutorOwnsRecord
<1>1. Inv => ExecutorOwnsRecord
  BY DEF Inv, OwnedAreLeftAlone, Owned, ExecutorOwnsRecord
<1>2. QED
  BY Inductive, <1>1, PTL

(* Only predictive scaling writes service.Replicas. *)
LEMMA OthersKeepReplicas ==
    ASSUME Next, ~performScaleDown, \A f \in 1..3 : ~performScaleUp(f)
    PROVE  UNCHANGED replicas
<1>1. CASE Boot
  BY <1>1 DEF Boot, BootService, BootSelect, BootLaunch
<1>2. CASE Reconcile
  <2>1. CASE StartPass \/ EvacuateMark \/ EvacuateDone \/ DrainDone \/ \E n \in Nodes : DrainNode(n)
    BY <2>1 DEF StartPass, EvacuateMark, EvacuateDone, DrainDone, DrainNode
  <2>2. CASE \E t \in Tasks : \/ EvacuateRelease(t) \/ RestartIncrement(t)
                              \/ ScaleDownSkip(t) \/ ScaleDownDesire(t)
    BY <2>2 DEF EvacuateRelease, RestartIncrement, ScaleDownSkip, ScaleDownDesire
  <2>3. CASE RestartRelease \/ RestartMark \/ Scale \/ SelectNode \/ LaunchPicked
    BY <2>3 DEF RestartRelease, RestartMark, Scale, SelectNode, LaunchPicked
  <2>4. CASE ScaleDownRelease \/ ScaleDownMark \/ TakeDown \/ ServiceDone
    BY <2>4 DEF ScaleDownRelease, ScaleDownMark, TakeDown, ServiceDone
  <2>5. QED
    BY <1>2, <2>1, <2>2, <2>3, <2>4 DEF Reconcile
<1>3. CASE Health
  BY <1>3 DEF Health, HealthList, HealthCheck, HealthFail, HealthRelease, OnlyHealth
<1>4. CASE Environment
  BY <1>4 DEF Environment, ContainerLost, SetNodeStatus, CooldownOver
<1>5. CASE \E t \in Tasks : Executor(t)
  BY <1>5 DEF Executor, ExecStarting, ExecCreateContainer, ExecRunning, ExecFailed, ExecRelease
<1>6. QED
  BY <1>1, <1>2, <1>3, <1>4, <1>5 DEF Next

(* Predictive scaling never takes service.Replicas over max_replicas nor   *)
(* under min_replicas, unless the configuration started there.             *)
THEOREM ReplicasStayInPolicy == Spec => []ReplicasInPolicy
<1>1. Init => ReplicasInPolicy
  BY ServiceAssumption DEF Init, ReplicasInPolicy, AtLeast, AtMost
<1>2. ASSUME Inv, ReplicasInPolicy, [Next]_vars
      PROVE  ReplicasInPolicy'
  <2>1. replicas \in [Services -> Nat]
    BY <1>2 DEF Inv, TypeOK
  <2>2. CASE performScaleDown
    <3>1. rec.svc \in Services
      BY <1>2, <2>2, ScalingDoneSound DEF performScaleDown, Predicting
    <3>2. /\ replicas[rec.svc] > MinReplicas[rec.svc]
          /\ replicas' = [replicas EXCEPT ![rec.svc] = @ - 1]
      BY <2>2 DEF performScaleDown
    <3>3. ASSUME NEW s \in Services
          PROVE  /\ replicas'[s] <= AtLeast(MaxReplicas[s], Replicas[s])
                 /\ replicas'[s] >= AtMost(MinReplicas[s], Replicas[s])
      <4>1. /\ replicas[s] \in Nat /\ MaxReplicas[s] \in Nat /\ MinReplicas[s] \in Nat
            /\ Replicas[s] \in Nat
            /\ replicas[s] <= AtLeast(MaxReplicas[s], Replicas[s])
            /\ replicas[s] >= AtMost(MinReplicas[s], Replicas[s])
        BY <1>2, <2>1, ServiceAssumption DEF ReplicasInPolicy
      <4>2. CASE s = rec.svc
        <5>1. replicas'[s] = replicas[s] - 1
          BY <2>1, <3>2, <4>2
        <5>2. QED
          BY <4>1, <4>2, <5>1, <3>2 DEF AtLeast, AtMost
      <4>3. CASE s # rec.svc
        <5>1. replicas'[s] = replicas[s]
          BY <2>1, <3>2, <4>3
        <5>2. QED
          BY <4>1, <5>1
      <4>4. QED
        BY <4>2, <4>3
    <3>4. QED
      BY <3>3 DEF ReplicasInPolicy
  <2>3. CASE \E f \in 1..3 : performScaleUp(f)
    <3>1. PICK f \in 1..3 : performScaleUp(f)
      BY <2>3
    <3>2. rec.svc \in Services
      BY <1>2, <3>1, ScalingDoneSound DEF performScaleUp, Predicting
    <3>3. /\ replicas[rec.svc] < MaxReplicas[rec.svc]
          /\ replicas' = [replicas EXCEPT ![rec.svc] = AtMost(@ + f, MaxReplicas[rec.svc])]
      BY <3>1 DEF performScaleUp
    <3>4. ASSUME NEW s \in Services
          PROVE  /\ replicas'[s] <= AtLeast(MaxReplicas[s], Replicas[s])
                 /\ replicas'[s] >= AtMost(MinReplicas[s], Replicas[s])
      <4>1. /\ replicas[s] \in Nat /\ MaxReplicas[s] \in Nat /\ MinReplicas[s] \in Nat
            /\ Replicas[s] \in Nat
            /\ replicas[s] <= AtLeast(MaxReplicas[s], Replicas[s])
            /\ replicas[s] >= AtMost(MinReplicas[s], Replicas[s])
        BY <1>2, <2>1, ServiceAssumption DEF ReplicasInPolicy
      <4>2. CASE s = rec.svc
        <5>1. replicas'[s] = AtMost(replicas[s] + f, MaxReplicas[s]) /\ f \in Nat
          BY <2>1, <3>3, <4>2
        <5>2. QED
          BY <4>1, <4>2, <5>1, <3>3 DEF AtLeast, AtMost
      <4>3. CASE s # rec.svc
        <5>1. replicas'[s] = replicas[s]
          BY <2>1, <3>3, <4>3
        <5>2. QED
          BY <4>1, <5>1
      <4>4. QED
        BY <4>2, <4>3
    <3>5. QED
      BY <3>4 DEF ReplicasInPolicy
  <2>4. CASE ~performScaleDown /\ \A f \in 1..3 : ~performScaleUp(f)
    <3>1. UNCHANGED replicas
      BY <1>2, <2>4, OthersKeepReplicas DEF vars
    <3>2. QED
      BY <1>2, <3>1 DEF ReplicasInPolicy
  <2>5. QED
    BY <2>2, <2>3, <2>4
<1>3. QED
  BY <1>1, <1>2, Inductive, PTL DEF Spec
(***************************************************************************)
(* Every service is scaled as ReplicaScaling says, with its own policy and *)
(* whatever else goes on: executors, drains, health checks, failures, and  *)
(* the scaling of other services.                                          *)
(***************************************************************************)

(* A cooldown starts where the replicas change, and ends by itself. *)
LEMMA OthersKeepCooling ==
    ASSUME Next, ~performScaleDown, \A f \in 1..3 : ~performScaleUp(f)
    PROVE  UNCHANGED cooling \/ \E s \in Services : CooldownOver(s)
<1>1. CASE Boot
  BY <1>1 DEF Boot, BootService, BootSelect, BootLaunch
<1>2. CASE Reconcile
  <2>1. CASE StartPass \/ EvacuateMark \/ EvacuateDone \/ DrainDone \/ \E n \in Nodes : DrainNode(n)
    BY <2>1 DEF StartPass, EvacuateMark, EvacuateDone, DrainDone, DrainNode
  <2>2. CASE \E t \in Tasks : \/ EvacuateRelease(t) \/ RestartIncrement(t)
                              \/ ScaleDownSkip(t) \/ ScaleDownDesire(t)
    BY <2>2 DEF EvacuateRelease, RestartIncrement, ScaleDownSkip, ScaleDownDesire
  <2>3. CASE RestartRelease \/ RestartMark \/ Scale \/ SelectNode \/ LaunchPicked
    BY <2>3 DEF RestartRelease, RestartMark, Scale, SelectNode, LaunchPicked
  <2>4. CASE ScaleDownRelease \/ ScaleDownMark \/ TakeDown \/ ServiceDone
    BY <2>4 DEF ScaleDownRelease, ScaleDownMark, TakeDown, ServiceDone
  <2>5. QED
    BY <1>2, <2>1, <2>2, <2>3, <2>4 DEF Reconcile
<1>3. CASE Health
  BY <1>3 DEF Health, HealthList, HealthCheck, HealthFail, HealthRelease, OnlyHealth
<1>4. CASE Environment
  BY <1>4 DEF Environment, ContainerLost, SetNodeStatus
<1>5. CASE \E t \in Tasks : Executor(t)
  BY <1>5 DEF Executor, ExecStarting, ExecCreateContainer, ExecRunning, ExecFailed, ExecRelease
<1>6. QED
  BY <1>1, <1>2, <1>3, <1>4, <1>5 DEF Next

(* performScaleUp is ScaleUp for the service at hand. *)
LEMMA ScaleUpIsAllowed ==
    ASSUME Inv, NEW f \in 1..3, performScaleUp(f), NEW s \in Services
    PROVE  [Scaling(s)!Next]_(Scaling(s)!vars)
<1>1. rec.svc \in Services
  BY ScalingDoneSound DEF performScaleUp, Predicting
<1>2. replicas \in [Services -> Nat]
  BY DEF Inv, TypeOK
<1>3. /\ replicas[rec.svc] < MaxReplicas[rec.svc] /\ rec.svc \notin cooling
      /\ cooling' = cooling \cup {rec.svc}
      /\ replicas' = [replicas EXCEPT ![rec.svc] = AtMost(@ + f, MaxReplicas[rec.svc])]
  BY DEF performScaleUp
<1>4. CASE s = rec.svc
  <2>1. replicas'[s] = AtMost(replicas[s] + f, MaxReplicas[s])
    BY <1>1, <1>2, <1>3, <1>4
  <2>2. replicas[s] \in Nat /\ MaxReplicas[s] \in Nat /\ f \in Nat
    BY <1>2, ServiceAssumption
  <2>3. replicas'[s] = Scaling(s)!AtMost(replicas[s] + f, MaxReplicas[s])
    BY <2>1, <2>2 DEF AtMost, Scaling!AtMost
  <2>4. Scaling(s)!ScaleUp(f)
    BY <1>3, <1>4, <2>3 DEF Scaling!ScaleUp
  <2> QED
    BY <2>4 DEF Scaling!Next
<1>5. CASE s # rec.svc
  BY <1>1, <1>2, <1>3, <1>5 DEF Scaling!vars
<1> QED
  BY <1>4, <1>5

(* performScaleDown is ScaleDown for the service at hand. *)
LEMMA ScaleDownIsAllowed ==
    ASSUME Inv, performScaleDown, NEW s \in Services
    PROVE  [Scaling(s)!Next]_(Scaling(s)!vars)
<1>1. rec.svc \in Services
  BY ScalingDoneSound DEF performScaleDown, Predicting
<1>2. replicas \in [Services -> Nat]
  BY DEF Inv, TypeOK
<1>3. /\ replicas[rec.svc] > MinReplicas[rec.svc] /\ rec.svc \notin cooling
      /\ cooling' = cooling \cup {rec.svc}
      /\ replicas' = [replicas EXCEPT ![rec.svc] = @ - 1]
  BY DEF performScaleDown
<1>4. CASE s = rec.svc
  <2>1. Scaling(s)!ScaleDown
    BY <1>1, <1>2, <1>3, <1>4 DEF Scaling!ScaleDown
  <2> QED
    BY <2>1 DEF Scaling!Next
<1>5. CASE s # rec.svc
  BY <1>1, <1>2, <1>3, <1>5 DEF Scaling!vars
<1> QED
  BY <1>4, <1>5

(* Every other step leaves the replicas and at most ends a cooldown. *)
LEMMA StepIsAllowed ==
    ASSUME Inv, [Next]_vars, NEW s \in Services
    PROVE  [Scaling(s)!Next]_(Scaling(s)!vars)
<1>1. CASE performScaleDown
  BY <1>1, ScaleDownIsAllowed
<1>2. CASE \E f \in 1..3 : performScaleUp(f)
  BY <1>2, ScaleUpIsAllowed
<1>3. CASE Next /\ ~performScaleDown /\ \A f \in 1..3 : ~performScaleUp(f)
  <2>1. UNCHANGED replicas
    BY <1>3, OthersKeepReplicas
  <2>2. CASE CooldownOver(s)
    <3>1. Scaling(s)!CooldownEnds
      BY <2>1, <2>2 DEF CooldownOver, Scaling!CooldownEnds
    <3> QED
      BY <3>1 DEF Scaling!Next
  <2>3. CASE ~CooldownOver(s)
    <3>1. (s \in cooling)' = (s \in cooling)
      BY <1>3, <2>3, OthersKeepCooling DEF CooldownOver
    <3> QED
      BY <2>1, <3>1 DEF Scaling!vars
  <2> QED
    BY <2>2, <2>3
<1>4. CASE UNCHANGED vars
  BY <1>4 DEF vars, Scaling!vars
<1> QED
  BY <1>1, <1>2, <1>3, <1>4

(* The loop scales every service as its policy allows, and not within the  *)
(* cooldown of the last time.                                              *)
THEOREM EachServiceScales == Spec => EachScalesAsAllowed
<1>1. Init => \A s \in Services : Scaling(s)!Init
  BY ServiceAssumption DEF Init, Scaling!Init
<1>2. Inv /\ [Next]_vars => [\A s \in Services : [Scaling(s)!Next]_(Scaling(s)!vars)]_vars
  BY StepIsAllowed
<1> QED
  BY Inductive, <1>1, <1>2, PTL DEF Spec, EachScalesAsAllowed

(* Which is to say that the orchestrator implements ReplicaScaling once    *)
(* for every service.                                                      *)
THEOREM ServicesImplementReplicaScaling == Spec => \A s \in Services : Scaling(s)!Spec
<1> SUFFICES ASSUME NEW s \in Services PROVE Spec => Scaling(s)!Spec
  OBVIOUS
<1>1. Init => Scaling(s)!Init
  BY ServiceAssumption DEF Init, Scaling!Init
<1>2. Inv /\ [Next]_vars => [Scaling(s)!Next]_(Scaling(s)!vars)
  BY StepIsAllowed
<1> QED
  BY Inductive, <1>1, <1>2, PTL DEF Spec, Scaling!Spec

(***************************************************************************)
(* Passes come to their end.  What is left of a pass is measured in five   *)
(* numbers, of which the first that changes becomes smaller; there is a    *)
(* lemma for every action of the loop.                                     *)
(***************************************************************************)

(* The first number in which they differ decides. *)
LEMMA FirstDecides ==
    ASSUME NEW a \in [1..5 -> Nat], NEW b \in [1..5 -> Nat],
           \/ a[1] < b[1]
           \/ a[1] = b[1] /\ a[2] < b[2]
           \/ a[1] = b[1] /\ a[2] = b[2] /\ a[3] < b[3]
           \/ a[1] = b[1] /\ a[2] = b[2] /\ a[3] = b[3] /\ a[4] < b[4]
           \/ a[1] = b[1] /\ a[2] = b[2] /\ a[3] = b[3] /\ a[4] = b[4] /\ a[5] < b[5]
    PROVE  <<a, b>> \in Shorter
<1>1. PICK j \in 1..5 : a[j] < b[j] /\ \A i \in 1..(j - 1) : a[i] = b[i]
  <2>1. \A i \in 1..0 : a[i] = b[i]
    OBVIOUS
  <2>2. a[1] = b[1] => \A i \in 1..1 : a[i] = b[i]
    OBVIOUS
  <2>3. a[1] = b[1] /\ a[2] = b[2] => \A i \in 1..2 : a[i] = b[i]
    OBVIOUS
  <2>4. a[1] = b[1] /\ a[2] = b[2] /\ a[3] = b[3] => \A i \in 1..3 : a[i] = b[i]
    OBVIOUS
  <2>5. a[1] = b[1] /\ a[2] = b[2] /\ a[3] = b[3] /\ a[4] = b[4]
           => \A i \in 1..4 : a[i] = b[i]
    OBVIOUS
  <2> QED
    BY <2>1, <2>2, <2>3, <2>4, <2>5
<1>2. <<a[j], b[j]>> \in OpToRel(<, Nat)
  BY <1>1 DEF OpToRel
<1> DEFINE R == OpToRel(<, Nat)
<1> HIDE DEF R
<1>3. <<a, b>> \in LexProductOrdering(R, Nat, 5)
  BY <1>1, <1>2 DEF LexProductOrdering, R
<1> QED
  BY <1>3 DEF Shorter, R

(* Nothing becomes shorter for ever. *)
LEMMA ShorterIsWellFounded == IsWellFoundedOn(Shorter, [1..5 -> Nat])
<1> DEFINE R == OpToRel(<, Nat)
<1>1. IsWellFoundedOn(R, Nat)
  BY NatLessThanWellFounded
<1> HIDE DEF R
<1>2. IsWellFoundedOn(LexProductOrdering(R, Nat, 5), [1..5 -> Nat])
  BY <1>1, WFLexProductOrdering
<1> QED
  BY <1>2 DEF Shorter, R

(* A set that loses a member is smaller. *)
LEMMA Fewer ==
    ASSUME NEW S, IsFiniteSet(S), NEW T, T \subseteq S, T # S
    PROVE  Cardinality(T) \in Nat /\ Cardinality(S) \in Nat /\ Cardinality(T) < Cardinality(S)
BY FS_Subset, FS_CardinalityType

(* How many steps may be left with the task at hand. *)
LEMMA StepsAreNumbers ==
    ASSUME NEW r \in ReconcileRegisters, r.pc \notin {"idle", "drain"}
    PROVE  StepsLeft(r) \in Nat
<1>1. r.pc \in PassSteps \ {"idle", "drain"}
  BY DEF ReconcileRegisters
<1>2. StepsOf[r.pc] \in Nat /\ StepsOf[r.pc] > 1
  BY <1>1 DEF PassSteps, StepsOf
<1> QED
  BY <1>2 DEF StepsLeft

(* What is left, in each part of a pass, is counted in natural numbers. *)
LEMMA PartsOfPass ==
    ASSUME NEW r \in ReconcileRegisters, NEW M, IsFiniteSet(M), NEW F, IsFiniteSet(F)
    PROVE  /\ Cardinality(r.nodesLeft) \in Nat /\ Cardinality(r.servicesLeft) \in Nat
           /\ Cardinality(r.queue) \in Nat /\ Cardinality(M) \in Nat /\ Cardinality(F) \in Nat
           /\ r.missing \in Nat
<1>1. r.nodesLeft \subseteq Nodes /\ r.servicesLeft \subseteq Services /\ r.queue \subseteq Tasks
      /\ r.missing \in Nat
  BY DEF ReconcileRegisters
<1>2. IsFiniteSet(r.nodesLeft) /\ IsFiniteSet(r.servicesLeft) /\ IsFiniteSet(r.queue)
  BY <1>1, FiniteTasks, FiniteServices, FiniteNodes, FS_Subset
<1> QED
  BY <1>1, <1>2, FS_CardinalityType

(* What is left, by the part of the pass that the loop is in. *)
LEMMA WorkByPart ==
    ASSUME NEW r \in ReconcileRegisters, NEW M, IsFiniteSet(M), NEW F, IsFiniteSet(F),
           NEW w, w = WorkOf(r, M, F)
    PROVE  /\ w \in [1..5 -> Nat]
           /\ r.pc = "idle" => w[1] = 0
           /\ r.pc = "drain" => w[1] = 2 /\ w[2] = Cardinality(r.nodesLeft) /\ w[3] = 0
           /\ r.pc \in EvacuateSteps =>
                /\ w[1] = 2 /\ w[2] = Cardinality(r.nodesLeft) /\ w[3] = 1
                /\ w[4] = Cardinality(M) /\ w[5] = StepsLeft(r)
           /\ r.pc \in RestartSteps =>
                /\ w[1] = 1 /\ w[2] = Cardinality(r.servicesLeft) /\ w[3] = 2
                /\ w[4] = Cardinality(F) /\ w[5] = StepsLeft(r)
           /\ r.pc \in {"scaleUp", "scaleDown"} \cup ScalingDown =>
                /\ w[1] = 1 /\ w[2] = Cardinality(r.servicesLeft)
                /\ w[3] = IF r.scaling = "replicas" THEN 1 ELSE 0
                /\ w[4] = IF r.pc = "scaleUp" THEN r.missing ELSE Cardinality(r.queue)
                /\ w[5] = StepsLeft(r)
<1> DEFINE nodes == Cardinality(r.nodesLeft)
           services == Cardinality(r.servicesLeft)
           queued == Cardinality(r.queue)
           steps == StepsLeft(r)
           moves == Cardinality(M)
           restarts == Cardinality(F)
           stage == IF r.scaling = "replicas" THEN 1 ELSE 0
           items == IF r.pc = "scaleUp" THEN r.missing ELSE queued
<1>1. /\ nodes \in Nat /\ services \in Nat /\ moves \in Nat /\ restarts \in Nat /\ stage \in Nat
      /\ items \in Nat
  BY PartsOfPass
<1>2. r.pc \notin {"idle", "drain"} => steps \in Nat
  BY StepsAreNumbers
<1>3. /\ EvacuateSteps \cap RestartSteps = {} /\ "idle" \notin EvacuateSteps \cup RestartSteps
      /\ "drain" \notin EvacuateSteps \cup RestartSteps
      /\ ({"scaleUp", "scaleDown"} \cup ScalingDown)
            \cap (EvacuateSteps \cup RestartSteps \cup {"idle", "drain"}) = {}
      /\ PassSteps \subseteq {"idle", "drain"} \cup EvacuateSteps \cup RestartSteps
                                \cup {"scaleUp", "scaleDown"} \cup ScalingDown
  BY DEF EvacuateSteps, Evacuating, RestartSteps, Restarting, ScalingDown, PassSteps
<1>4. CASE r.pc = "idle"
  <2>1. w = <<0, 0, 0, 0, 0>>
    BY <1>3, <1>4 DEF WorkOf
  <2> QED
    BY <1>3, <1>4, <2>1
<1>5. CASE r.pc = "drain"
  <2>1. w = <<2, nodes, 0, 0, 0>>
    BY <1>3, <1>5 DEF WorkOf
  <2> QED
    BY <1>1, <1>3, <1>5, <2>1
<1>6. CASE r.pc \in EvacuateSteps
  <2>1. w = <<2, nodes, 1, moves, steps>>
    BY <1>3, <1>6 DEF WorkOf
  <2> QED
    BY <1>1, <1>2, <1>3, <1>6, <2>1
<1>7. CASE r.pc \in RestartSteps
  <2>1. w = <<1, services, 2, restarts, steps>>
    BY <1>3, <1>7 DEF WorkOf
  <2> QED
    BY <1>1, <1>2, <1>3, <1>7, <2>1
<1>8. CASE r.pc \in {"scaleUp", "scaleDown"} \cup ScalingDown
  <2>1. w = <<1, services, stage, items, steps>>
    BY <1>3, <1>8 DEF WorkOf
  <2> HIDE DEF stage, items
  <2>2. w \in [1..5 -> Nat] /\ w[1] = 1 /\ w[2] = services /\ w[3] = stage /\ w[4] = items
        /\ w[5] = steps
    BY <1>1, <1>2, <1>3, <1>8, <2>1
  <2> QED
    BY <1>3, <1>8, <2>2 DEF stage, items
<1>9. r.pc \in PassSteps
  BY DEF ReconcileRegisters
<1> QED
  BY <1>3, <1>4, <1>5, <1>6, <1>7, <1>8, <1>9


(* The tasks to restart, in the loop's copy. *)
ToBeRestarted == {t \in Tasks : NeedsRestart(snap[t])}

LEMMA WorkLeftByPart ==
    ASSUME Inv
    PROVE  /\ WorkLeft \in [1..5 -> Nat]
           /\ rec.pc = "idle" => WorkLeft[1] = 0
           /\ rec.pc = "drain" =>
                /\ WorkLeft[1] = 2 /\ WorkLeft[2] = Cardinality(rec.nodesLeft)
                /\ WorkLeft[3] = 0
           /\ rec.pc \in EvacuateSteps =>
                /\ WorkLeft[1] = 2 /\ WorkLeft[2] = Cardinality(rec.nodesLeft)
                /\ WorkLeft[3] = 1 /\ WorkLeft[4] = Cardinality(ToMove)
                /\ WorkLeft[5] = StepsLeft(rec)
           /\ rec.pc \in RestartSteps =>
                /\ WorkLeft[1] = 1 /\ WorkLeft[2] = Cardinality(rec.servicesLeft)
                /\ WorkLeft[3] = 2 /\ WorkLeft[4] = Cardinality(ToBeRestarted)
                /\ WorkLeft[5] = StepsLeft(rec)
           /\ rec.pc \in {"scaleUp", "scaleDown"} \cup ScalingDown =>
                /\ WorkLeft[1] = 1 /\ WorkLeft[2] = Cardinality(rec.servicesLeft)
                /\ WorkLeft[3] = (IF rec.scaling = "replicas" THEN 1 ELSE 0)
                /\ WorkLeft[4] = (IF rec.pc = "scaleUp" THEN rec.missing
                                    ELSE Cardinality(rec.queue))
                /\ WorkLeft[5] = StepsLeft(rec)
<1>1. /\ rec \in ReconcileRegisters /\ IsFiniteSet(ToMove) /\ IsFiniteSet(ToBeRestarted)
      /\ WorkLeft = WorkOf(rec, ToMove, ToBeRestarted)
  BY FiniteTasks, FS_Subset DEF Inv, TypeOK, ToMove, ToBeRestarted, WorkLeft
<1> QED
  BY <1>1, WorkByPart

LEMMA WorkLeftByPartNext ==
    ASSUME Inv'
    PROVE  /\ WorkLeft' \in [1..5 -> Nat]
           /\ rec'.pc = "idle" => WorkLeft'[1] = 0
           /\ rec'.pc = "drain" =>
                /\ WorkLeft'[1] = 2 /\ WorkLeft'[2] = Cardinality(rec'.nodesLeft)
                /\ WorkLeft'[3] = 0
           /\ rec'.pc \in EvacuateSteps =>
                /\ WorkLeft'[1] = 2 /\ WorkLeft'[2] = Cardinality(rec'.nodesLeft)
                /\ WorkLeft'[3] = 1 /\ WorkLeft'[4] = Cardinality(ToMove')
                /\ WorkLeft'[5] = StepsLeft(rec')
           /\ rec'.pc \in RestartSteps =>
                /\ WorkLeft'[1] = 1 /\ WorkLeft'[2] = Cardinality(rec'.servicesLeft)
                /\ WorkLeft'[3] = 2 /\ WorkLeft'[4] = Cardinality(ToBeRestarted')
                /\ WorkLeft'[5] = StepsLeft(rec')
           /\ rec'.pc \in {"scaleUp", "scaleDown"} \cup ScalingDown =>
                /\ WorkLeft'[1] = 1 /\ WorkLeft'[2] = Cardinality(rec'.servicesLeft)
                /\ WorkLeft'[3] = (IF rec'.scaling = "replicas" THEN 1 ELSE 0)
                /\ WorkLeft'[4] = (IF rec'.pc = "scaleUp" THEN rec'.missing
                                    ELSE Cardinality(rec'.queue))
                /\ WorkLeft'[5] = StepsLeft(rec')
<1>1. /\ rec' \in ReconcileRegisters /\ IsFiniteSet(ToMove') /\ IsFiniteSet(ToBeRestarted')
      /\ WorkLeft' = WorkOf(rec', ToMove', ToBeRestarted')
  BY FiniteTasks, FS_Subset DEF Inv, TypeOK, ToMove, ToBeRestarted, WorkLeft
<1> QED
  BY <1>1, WorkByPart

LEMMA WorkIsFinite ==
    ASSUME Inv
    PROVE  /\ rec \in ReconcileRegisters
           /\ IsFiniteSet(ToMove) /\ IsFiniteSet(ToBeRestarted)
           /\ IsFiniteSet(rec.nodesLeft) /\ IsFiniteSet(rec.servicesLeft) /\ IsFiniteSet(rec.queue)
BY FiniteTasks, FiniteNodes, FiniteServices, FS_Subset
   DEF Inv, TypeOK, ToMove, ToBeRestarted, ReconcileRegisters


(***************************************************************************)
(* What makes a pass shorter.                                              *)
(***************************************************************************)

(* A step nearer to the next task. *)
LEMMA NearerToNext ==
    ASSUME Inv, Inv',
           rec'.nodesLeft = rec.nodesLeft, rec'.servicesLeft = rec.servicesLeft,
           rec'.scaling = rec.scaling,
           \/ rec.pc \in EvacuateSteps /\ rec'.pc \in EvacuateSteps /\ ToMove' = ToMove
           \/ rec.pc \in RestartSteps /\ rec'.pc \in RestartSteps /\ ToBeRestarted' = ToBeRestarted
           \/ /\ rec.pc \in {"scaleDown"} \cup ScalingDown
              /\ rec'.pc \in {"scaleDown"} \cup ScalingDown
              /\ rec'.queue = rec.queue
           \/ rec.pc = "scaleUp" /\ rec'.pc = "scaleUp" /\ rec'.missing = rec.missing,
           StepsLeft(rec') < StepsLeft(rec)
    PROVE  <<WorkLeft', WorkLeft>> \in Shorter
<1>1. "scaleUp" \notin {"scaleDown"} \cup ScalingDown
  BY DEF ScalingDown
<1>2. /\ WorkLeft'[1] = WorkLeft[1] /\ WorkLeft'[2] = WorkLeft[2] /\ WorkLeft'[3] = WorkLeft[3]
      /\ WorkLeft'[4] = WorkLeft[4] /\ WorkLeft'[5] < WorkLeft[5]
  BY <1>1, WorkLeftByPart, WorkLeftByPartNext
<1> QED
  BY <1>2, WorkLeftByPart, WorkLeftByPartNext, FirstDecides

(* One task fewer. *)
LEMMA TaskDealtWith ==
    ASSUME Inv, Inv',
           rec'.nodesLeft = rec.nodesLeft, rec'.servicesLeft = rec.servicesLeft,
           rec'.scaling = rec.scaling,
           \/ /\ rec.pc \in EvacuateSteps /\ rec'.pc \in EvacuateSteps
              /\ ToMove' \subseteq ToMove /\ ToMove' # ToMove
           \/ /\ rec.pc \in RestartSteps /\ rec'.pc \in RestartSteps
              /\ ToBeRestarted' \subseteq ToBeRestarted /\ ToBeRestarted' # ToBeRestarted
           \/ /\ rec.pc \in {"scaleDown"} \cup ScalingDown
              /\ rec'.pc \in {"scaleDown"} \cup ScalingDown
              /\ rec'.queue \subseteq rec.queue /\ rec'.queue # rec.queue
           \/ rec.pc = "scaleUp" /\ rec'.pc = "scaleUp" /\ rec'.missing < rec.missing
    PROVE  <<WorkLeft', WorkLeft>> \in Shorter
<1>1. "scaleUp" \notin {"scaleDown"} \cup ScalingDown
  BY DEF ScalingDown
<1>2. /\ ToMove' \subseteq ToMove /\ ToMove' # ToMove
            => Cardinality(ToMove') < Cardinality(ToMove)
      /\ ToBeRestarted' \subseteq ToBeRestarted /\ ToBeRestarted' # ToBeRestarted
            => Cardinality(ToBeRestarted') < Cardinality(ToBeRestarted)
      /\ rec'.queue \subseteq rec.queue /\ rec'.queue # rec.queue
            => Cardinality(rec'.queue) < Cardinality(rec.queue)
  BY WorkIsFinite, Fewer
<1>3. /\ WorkLeft'[1] = WorkLeft[1] /\ WorkLeft'[2] = WorkLeft[2] /\ WorkLeft'[3] = WorkLeft[3]
      /\ WorkLeft'[4] < WorkLeft[4]
  BY <1>1, <1>2, WorkLeftByPart, WorkLeftByPartNext
<1> QED
  BY <1>3, WorkLeftByPart, WorkLeftByPartNext, FirstDecides

(* Steps of the loop over the nodes. *)
LEMMA DrainNodeShrinks ==
    ASSUME Inv, Inv', NEW n \in Nodes, DrainNode(n)
    PROVE  <<WorkLeft', WorkLeft>> \in Shorter
<1>1. PICK passed \in SUBSET (rec.nodesLeft \cap filterReadyNodes) :
         rec' = [rec EXCEPT !.nodesLeft = @ \ ({n} \cup passed), !.pc = "evacuate"]
  BY DEF DrainNode
<1>2. /\ rec.pc = "drain" /\ rec'.pc = "evacuate" /\ n \in rec.nodesLeft
      /\ rec'.nodesLeft = rec.nodesLeft \ ({n} \cup passed)
  BY <1>1, WorkIsFinite DEF DrainNode, At, ReconcileRegisters
<1>3. Cardinality(rec'.nodesLeft) < Cardinality(rec.nodesLeft)
  BY <1>2, WorkIsFinite, Fewer
<1>4. rec'.pc \in EvacuateSteps
  BY <1>2 DEF EvacuateSteps
<1>5. WorkLeft'[1] = WorkLeft[1] /\ WorkLeft'[2] < WorkLeft[2]
  BY <1>2, <1>3, <1>4, WorkLeftByPart, WorkLeftByPartNext
<1> QED
  BY <1>5, WorkLeftByPart, WorkLeftByPartNext, FirstDecides

LEMMA EvacuateDoneShrinks ==
    ASSUME Inv, Inv', EvacuateDone
    PROVE  <<WorkLeft', WorkLeft>> \in Shorter
<1>1. rec.pc = "evacuate" /\ rec'.pc = "drain" /\ rec'.nodesLeft = rec.nodesLeft
  BY WorkIsFinite DEF EvacuateDone, At, Goto, ReconcileRegisters
<1>2. rec.pc \in EvacuateSteps
  BY <1>1 DEF EvacuateSteps
<1>3. /\ WorkLeft'[1] = WorkLeft[1] /\ WorkLeft'[2] = WorkLeft[2] /\ WorkLeft'[3] < WorkLeft[3]
  BY <1>1, <1>2, WorkLeftByPart, WorkLeftByPartNext
<1> QED
  BY <1>3, WorkLeftByPart, WorkLeftByPartNext, FirstDecides

(* Going on to one of the services that are left. *)
LEMMA NextServiceShrinks ==
    ASSUME Inv, Inv', NEW left \in SUBSET Services, ToNextService(left),
           \/ WorkLeft[1] = 2
           \/ WorkLeft[1] = 1 /\ WorkLeft[2] = Cardinality(left)
    PROVE  <<WorkLeft', WorkLeft>> \in Shorter
<1>1. CASE left = {}
  <2>1. rec'.pc = "idle"
    BY <1>1 DEF ToNextService, IdleReconcile
  <2>2. WorkLeft'[1] < WorkLeft[1]
    BY <2>1, WorkLeftByPartNext
  <2> QED
    BY <2>2, WorkLeftByPart, WorkLeftByPartNext, FirstDecides
<1>2. CASE left # {}
  <2>1. PICK s \in left : rec' = [IdleReconcile EXCEPT !.pc = "restart", !.svc = s,
                                                      !.servicesLeft = left \ {s}]
    BY <1>2 DEF ToNextService
  <2>2. rec'.pc = "restart" /\ rec'.servicesLeft = left \ {s}
    BY <2>1 DEF IdleReconcile
  <2>3. Cardinality(rec'.servicesLeft) < Cardinality(left)
    BY <2>2, FiniteServices, FS_Subset, Fewer
  <2>4. rec'.pc \in RestartSteps
    BY <2>2 DEF RestartSteps
  <2>5. WorkLeft'[1] = 1 /\ WorkLeft'[2] < Cardinality(left)
    BY <2>3, <2>4, WorkLeftByPartNext
  <2> QED
    BY <2>5, WorkLeftByPart, WorkLeftByPartNext, FirstDecides
<1> QED
  BY <1>1, <1>2

LEMMA DrainDoneShrinks ==
    ASSUME Inv, Inv', DrainDone
    PROVE  <<WorkLeft', WorkLeft>> \in Shorter
<1>1. rec.pc = "drain" /\ ToNextService(Services)
  BY DEF DrainDone, At
<1> QED
  BY <1>1, WorkLeftByPart, NextServiceShrinks

LEMMA ServiceDoneShrinks ==
    ASSUME Inv, Inv', ServiceDone
    PROVE  <<WorkLeft', WorkLeft>> \in Shorter
<1>1. rec.pc \in {"scaleUp", "scaleDown"} /\ ToNextService(rec.servicesLeft)
  BY DEF ServiceDone, ScalingDone, At
<1>2. rec.servicesLeft \in SUBSET Services
  BY WorkIsFinite DEF ReconcileRegisters
<1> QED
  BY <1>1, <1>2, WorkLeftByPart, NextServiceShrinks


(* Steps from task to task. *)
LEMMA EvacuateReleaseShrinks ==
    ASSUME Inv, Inv', NEW t \in Tasks, EvacuateRelease(t)
    PROVE  <<WorkLeft', WorkLeft>> \in Shorter
<1>1. rec' = [rec EXCEPT !.cur = t, !.svc = drained[t].service,
                         !.pc = IF drained[t].container THEN "evacuateStop" ELSE "evacuateMark"]
  BY DEF EvacuateRelease
<1>2. /\ rec.pc = "evacuate" /\ rec'.pc \in {"evacuateStop", "evacuateMark"}
      /\ rec'.nodesLeft = rec.nodesLeft /\ rec'.servicesLeft = rec.servicesLeft
      /\ rec'.scaling = rec.scaling /\ rec'.picked = rec.picked
  BY <1>1, WorkIsFinite DEF EvacuateRelease, At, ReconcileRegisters
<1>3. ToMove' = ToMove
  BY DEF EvacuateRelease, ToMove
<1>4. rec.pc \in EvacuateSteps /\ rec'.pc \in EvacuateSteps
  BY <1>2 DEF EvacuateSteps, Evacuating
<1>5. StepsLeft(rec') < StepsLeft(rec)
  BY <1>2 DEF StepsLeft, StepsOf
<1> QED
  BY <1>2, <1>3, <1>4, <1>5, NearerToNext

LEMMA EvacuateMarkShrinks ==
    ASSUME Inv, Inv', EvacuateMark
    PROVE  <<WorkLeft', WorkLeft>> \in Shorter
<1>1. rec' = [rec EXCEPT !.pc = "evacuateCreate", !.cur = None]
  BY DEF EvacuateMark
<1>2. /\ rec.pc = "evacuateMark" /\ rec'.pc = "evacuateCreate"
      /\ rec'.nodesLeft = rec.nodesLeft /\ rec'.servicesLeft = rec.servicesLeft
      /\ rec'.scaling = rec.scaling
  BY <1>1, WorkIsFinite DEF EvacuateMark, At, ReconcileRegisters
<1>3. rec.cur \in Tasks /\ drained[rec.cur] # Absent
  BY <1>2 DEF Inv, RegistersSound, Evacuating
<1>4. ToMove' = ToMove \ {rec.cur} /\ rec.cur \in ToMove
  <2>1. drained' = [drained EXCEPT ![rec.cur] = Absent]
    BY DEF EvacuateMark
  <2>2. drained \in [Tasks -> Record]
    BY DEF Inv, TypeOK
  <2> QED
    BY <1>3, <2>1, <2>2 DEF ToMove
<1>5. rec.pc \in EvacuateSteps /\ rec'.pc \in EvacuateSteps
  BY <1>2 DEF EvacuateSteps, Evacuating
<1> QED
  BY <1>2, <1>4, <1>5, TaskDealtWith

LEMMA RestartReleaseShrinks ==
    ASSUME Inv, Inv', RestartRelease \/ \E t \in Tasks : RestartIncrement(t)
    PROVE  <<WorkLeft', WorkLeft>> \in Shorter
<1>1. /\ <<rec.pc, rec'.pc>> \in {<<"restart", "restartRelease">>,
                                  <<"restartRelease", "restartMark">>}
      /\ rec'.nodesLeft = rec.nodesLeft /\ rec'.servicesLeft = rec.servicesLeft
      /\ rec'.scaling = rec.scaling /\ rec'.picked = rec.picked
  BY WorkIsFinite DEF RestartRelease, RestartIncrement, At, Goto, ReconcileRegisters
<1>2. ToBeRestarted' = ToBeRestarted
  BY DEF RestartRelease, RestartIncrement, ToBeRestarted
<1>3. rec.pc \in RestartSteps /\ rec'.pc \in RestartSteps
  BY <1>1 DEF RestartSteps, Restarting
<1>4. StepsLeft(rec') < StepsLeft(rec)
  BY <1>1 DEF StepsLeft, StepsOf
<1> QED
  BY <1>1, <1>2, <1>3, <1>4, NearerToNext

LEMMA RestartMarkShrinks ==
    ASSUME Inv, Inv', RestartMark
    PROVE  <<WorkLeft', WorkLeft>> \in Shorter
<1>1. rec' = [rec EXCEPT
                !.pc = IF snap[rec.cur].container THEN "restartStop" ELSE "restartCreate",
                !.cur = IF snap[rec.cur].container THEN @ ELSE None]
  BY DEF RestartMark
<1>2. /\ rec.pc = "restartMark" /\ rec'.pc \in {"restartStop", "restartCreate"}
      /\ rec'.nodesLeft = rec.nodesLeft /\ rec'.servicesLeft = rec.servicesLeft
      /\ rec'.scaling = rec.scaling
  BY <1>1, WorkIsFinite DEF RestartMark, At, ReconcileRegisters
<1>3. rec.cur \in Tasks /\ NeedsRestart(snap[rec.cur])
  BY <1>2 DEF Inv, RegistersSound, Restarting
<1>4. ToBeRestarted' = ToBeRestarted \ {rec.cur} /\ rec.cur \in ToBeRestarted
  <2>1. snap' = [snap EXCEPT ![rec.cur] = Retired(snap[rec.cur])]
    BY DEF RestartMark
  <2>2. snap \in [Tasks -> Record]
    BY DEF Inv, TypeOK
  <2>3. ~NeedsRestart(Retired(snap[rec.cur]))
    <3>1. Retired(snap[rec.cur]).desired = "stopped"
      BY <1>3, <2>2 DEF Retired, Record
    <3> QED
      BY <3>1 DEF NeedsRestart
  <2> QED
    BY <1>3, <2>1, <2>2, <2>3 DEF ToBeRestarted
<1>5. rec.pc \in RestartSteps /\ rec'.pc \in RestartSteps
  BY <1>2 DEF RestartSteps, Restarting
<1> QED
  BY <1>2, <1>4, <1>5, TaskDealtWith

LEMMA ScaleShrinks ==
    ASSUME Inv, Inv', Scale
    PROVE  <<WorkLeft', WorkLeft>> \in Shorter
<1>1. /\ rec.pc = "restart" /\ rec'.pc \in {"scaleUp", "scaleDown"}
      /\ rec'.servicesLeft = rec.servicesLeft
  BY WorkIsFinite DEF Scale, At, ReconcileRegisters
<1>2. rec.pc \in RestartSteps
  BY <1>1 DEF RestartSteps
<1>3. WorkLeft'[1] = WorkLeft[1] /\ WorkLeft'[2] = WorkLeft[2] /\ WorkLeft'[3] < WorkLeft[3]
  BY <1>1, <1>2, WorkLeftByPart, WorkLeftByPartNext
<1> QED
  BY <1>3, WorkLeftByPart, WorkLeftByPartNext, FirstDecides

LEMMA SelectNodeShrinks ==
    ASSUME Inv, Inv', SelectNode
    PROVE  <<WorkLeft', WorkLeft>> \in Shorter
<1>1. /\ rec.pc \in Creating /\ rec.picked = None /\ UNCHANGED <<snap, drained>>
      /\ rec.pc = "scaleUp" => rec.missing > 0
  BY DEF SelectNode, At
<1>2. ToMove' = ToMove /\ ToBeRestarted' = ToBeRestarted
  BY <1>1 DEF ToMove, ToBeRestarted
<1>3. CASE \E n \in Selectable(Request[rec.svc]) : rec' = [rec EXCEPT !.picked = n]
  <2>1. PICK n \in Nodes : rec' = [rec EXCEPT !.picked = n]
    BY <1>3, SelectableHasRoom
  <2>2. /\ rec'.pc = rec.pc /\ rec'.nodesLeft = rec.nodesLeft /\ rec'.missing = rec.missing
        /\ rec'.servicesLeft = rec.servicesLeft /\ rec'.scaling = rec.scaling /\ rec'.picked = n
    BY <2>1, WorkIsFinite DEF ReconcileRegisters
  <2>3. StepsLeft(rec') < StepsLeft(rec)
    BY <1>1, <2>2, NoneIsNone DEF StepsLeft, StepsOf, Creating
  <2>4. rec.pc = "scaleUp" \/ rec.pc \in EvacuateSteps \/ rec.pc \in RestartSteps
    BY <1>1 DEF Creating, EvacuateSteps, RestartSteps
  <2> QED
    BY <1>2, <2>2, <2>3, <2>4, NearerToNext
<1>4. CASE rec' = [rec EXCEPT !.pc = AfterCreate[@], !.missing = 0]
  <2>1. /\ rec'.pc = AfterCreate[rec.pc] /\ rec'.nodesLeft = rec.nodesLeft /\ rec'.missing = 0
        /\ rec'.servicesLeft = rec.servicesLeft /\ rec'.scaling = rec.scaling
        /\ rec'.picked = rec.picked
    BY <1>4, WorkIsFinite DEF ReconcileRegisters
  <2>2. CASE rec.pc = "scaleUp"
    <3>1. rec'.pc = "scaleUp"
      BY <2>1, <2>2 DEF AfterCreate
    <3> QED
      BY <1>1, <2>1, <2>2, <3>1, TaskDealtWith
  <2>3. CASE rec.pc \in {"evacuateCreate", "restartCreate"}
    <3>1. <<rec.pc, rec'.pc>> \in {<<"evacuateCreate", "evacuate">>,
                                   <<"restartCreate", "restart">>}
      BY <2>1, <2>3 DEF AfterCreate
    <3>2. StepsLeft(rec') < StepsLeft(rec)
      BY <1>1, <2>1, <3>1 DEF StepsLeft, StepsOf
    <3>3. \/ rec.pc \in EvacuateSteps /\ rec'.pc \in EvacuateSteps
          \/ rec.pc \in RestartSteps /\ rec'.pc \in RestartSteps
      BY <3>1 DEF EvacuateSteps, RestartSteps
    <3> QED
      BY <1>2, <2>1, <3>2, <3>3, NearerToNext
  <2> QED
    BY <1>1, <2>2, <2>3 DEF Creating
<1> QED
  BY <1>3, <1>4 DEF SelectNode


LEMMA LaunchPickedShrinks ==
    ASSUME Inv, Inv', LaunchPicked
    PROVE  <<WorkLeft', WorkLeft>> \in Shorter
<1>1. /\ rec' = [rec EXCEPT !.picked = None, !.pc = AfterCreate[@], !.missing = Less(@, 1)]
      /\ rec.picked # None /\ UNCHANGED <<snap, drained>>
  BY DEF LaunchPicked
<1>2. rec.pc \in Creating /\ (rec.pc = "scaleUp" => rec.missing > 0)
  BY <1>1 DEF Inv, RegistersSound
<1>3. ToMove' = ToMove /\ ToBeRestarted' = ToBeRestarted
  BY <1>1 DEF ToMove, ToBeRestarted
<1>4. /\ rec'.pc = AfterCreate[rec.pc] /\ rec'.nodesLeft = rec.nodesLeft
      /\ rec'.missing = Less(rec.missing, 1) /\ rec.missing \in Nat
      /\ rec'.servicesLeft = rec.servicesLeft /\ rec'.scaling = rec.scaling
      /\ rec'.picked = None
  BY <1>1, WorkIsFinite DEF ReconcileRegisters
<1>5. CASE rec.pc = "scaleUp"
  <2>1. rec'.pc = "scaleUp" /\ rec'.missing < rec.missing
    BY <1>2, <1>4, <1>5 DEF AfterCreate, Less
  <2> QED
    BY <1>4, <1>5, <2>1, TaskDealtWith
<1>6. CASE rec.pc \in {"evacuateCreate", "restartCreate"}
  <2>1. <<rec.pc, rec'.pc>> \in {<<"evacuateCreate", "evacuate">>,
                                 <<"restartCreate", "restart">>}
    BY <1>4, <1>6 DEF AfterCreate
  <2>2. StepsLeft(rec') < StepsLeft(rec)
    BY <1>1, <1>4, <2>1 DEF StepsLeft, StepsOf
  <2>3. \/ rec.pc \in EvacuateSteps /\ rec'.pc \in EvacuateSteps
        \/ rec.pc \in RestartSteps /\ rec'.pc \in RestartSteps
    BY <2>1 DEF EvacuateSteps, RestartSteps
  <2> QED
    BY <1>3, <1>4, <2>2, <2>3, NearerToNext
<1> QED
  BY <1>2, <1>5, <1>6 DEF Creating

LEMMA ScaleDownSkipShrinks ==
    ASSUME Inv, Inv', NEW t \in Tasks, ScaleDownSkip(t) \/ ScaleDownDesire(t)
    PROVE  <<WorkLeft', WorkLeft>> \in Shorter
<1>1. /\ rec.pc = "scaleDown" /\ t \in rec.queue
      /\ rec'.pc \in {"scaleDown", "scaleDownStop", "scaleDownRelease"}
      /\ rec'.queue = rec.queue \ {t} /\ rec'.nodesLeft = rec.nodesLeft
      /\ rec'.servicesLeft = rec.servicesLeft /\ rec'.scaling = rec.scaling
  <2>1. CASE ScaleDownSkip(t)
    BY <2>1, WorkIsFinite DEF ScaleDownSkip, NextToStop, At, ReconcileRegisters
  <2>2. CASE ScaleDownDesire(t)
    <3>1. rec' = [rec EXCEPT
                    !.queue = @ \ {t}, !.cur = t,
                    !.pc = IF snap[t].container THEN "scaleDownStop" ELSE "scaleDownRelease"]
      BY <2>2 DEF ScaleDownDesire
    <3> QED
      BY <2>2, <3>1, WorkIsFinite DEF ScaleDownDesire, NextToStop, At, ReconcileRegisters
  <2> QED
    BY <2>1, <2>2
<1>2. rec.pc \in {"scaleDown"} \cup ScalingDown /\ rec'.pc \in {"scaleDown"} \cup ScalingDown
  BY <1>1 DEF ScalingDown
<1> QED
  BY <1>1, <1>2, TaskDealtWith

LEMMA ScaleDownReleaseShrinks ==
    ASSUME Inv, Inv', ScaleDownRelease \/ ScaleDownMark
    PROVE  <<WorkLeft', WorkLeft>> \in Shorter
<1>1. /\ <<rec.pc, rec'.pc>> \in {<<"scaleDownRelease", "scaleDownMark">>,
                                  <<"scaleDownMark", "scaleDown">>}
      /\ rec'.nodesLeft = rec.nodesLeft /\ rec'.servicesLeft = rec.servicesLeft
      /\ rec'.scaling = rec.scaling /\ rec'.picked = rec.picked /\ rec'.queue = rec.queue
  BY WorkIsFinite DEF ScaleDownRelease, ScaleDownMark, At, Goto, ReconcileRegisters
<1>2. rec.pc \in {"scaleDown"} \cup ScalingDown /\ rec'.pc \in {"scaleDown"} \cup ScalingDown
  BY <1>1 DEF ScalingDown
<1>3. StepsLeft(rec') < StepsLeft(rec)
  BY <1>1 DEF StepsLeft, StepsOf
<1> QED
  BY <1>1, <1>2, <1>3, NearerToNext

LEMMA TakeDownShrinks ==
    ASSUME Inv, Inv', TakeDown
    PROVE  <<WorkLeft', WorkLeft>> \in Shorter
<1>1. /\ \/ rec.pc \in DOMAIN Stopping /\ rec'.pc = Stopping[rec.pc]
         \/ rec.pc \in DOMAIN Removing /\ rec'.pc = Removing[rec.pc]
      /\ rec'.nodesLeft = rec.nodesLeft /\ rec'.servicesLeft = rec.servicesLeft
      /\ rec'.scaling = rec.scaling /\ rec'.picked = rec.picked /\ rec'.queue = rec.queue
  <2>1. CASE rec.pc \in DOMAIN Stopping /\ Goto(Stopping[rec.pc])
    BY <2>1, WorkIsFinite DEF Goto, ReconcileRegisters
  <2>2. CASE /\ rec.pc \in DOMAIN Removing
             /\ rec' = [rec EXCEPT !.pc = Removing[@],
                                   !.cur = IF At("restartRemove") THEN None ELSE @]
    BY <2>2, WorkIsFinite DEF ReconcileRegisters
  <2> QED
    BY <2>1, <2>2 DEF TakeDown
<1>2. <<rec.pc, rec'.pc>> \in {<<"evacuateStop", "evacuateRemove">>,
                               <<"restartStop", "restartRemove">>,
                               <<"scaleDownStop", "scaleDownRemove">>,
                               <<"evacuateRemove", "evacuateMark">>,
                               <<"restartRemove", "restartCreate">>,
                               <<"scaleDownRemove", "scaleDownRelease">>}
  BY <1>1 DEF Stopping, Removing
<1>3. ToMove' = ToMove /\ ToBeRestarted' = ToBeRestarted
  BY DEF TakeDown, ToMove, ToBeRestarted
<1>4. \/ rec.pc \in EvacuateSteps /\ rec'.pc \in EvacuateSteps
      \/ rec.pc \in RestartSteps /\ rec'.pc \in RestartSteps
      \/ rec.pc \in {"scaleDown"} \cup ScalingDown /\ rec'.pc \in {"scaleDown"} \cup ScalingDown
  BY <1>2 DEF EvacuateSteps, Evacuating, RestartSteps, ScalingDown
<1>5. StepsLeft(rec') < StepsLeft(rec)
  BY <1>1, <1>2 DEF StepsLeft, StepsOf
<1> QED
  BY <1>1, <1>3, <1>4, <1>5, NearerToNext

(* Predictive scaling comes once, when the replicas are seen to. *)
LEMMA PredictionShrinks ==
    ASSUME Inv, Inv', performScaleDown \/ \E f \in 1..3 : performScaleUp(f)
    PROVE  <<WorkLeft', WorkLeft>> \in Shorter
<1>1. /\ rec.pc \in {"scaleUp", "scaleDown"} /\ rec'.pc \in {"scaleUp", "scaleDown"}
      /\ rec.scaling = "replicas" /\ rec'.scaling = "predictive"
      /\ rec'.servicesLeft = rec.servicesLeft
  <2>1. CASE performScaleDown
    BY <2>1, WorkIsFinite
       DEF performScaleDown, Predicting, ScalingDone, At, ReconcileRegisters
  <2>2. CASE \E f \in 1..3 : performScaleUp(f)
    BY <2>2, WorkIsFinite DEF performScaleUp, Predicting, ScalingDone, At, ReconcileRegisters
  <2> QED
    BY <2>1, <2>2
<1>2. WorkLeft'[1] = WorkLeft[1] /\ WorkLeft'[2] = WorkLeft[2] /\ WorkLeft'[3] < WorkLeft[3]
  BY <1>1, WorkLeftByPart, WorkLeftByPartNext
<1> QED
  BY <1>2, WorkLeftByPart, WorkLeftByPartNext, FirstDecides

(* Whatever the loop does within a pass leaves less of it. *)
LEMMA PassShrinks ==
    ASSUME Inv, Inv', Reconcile, rec.pc # "idle"
    PROVE  <<WorkLeft', WorkLeft>> \in Shorter
<1>1. CASE EvacuateMark \/ EvacuateDone \/ DrainDone \/ \E n \in Nodes : DrainNode(n)
  BY <1>1, EvacuateMarkShrinks, EvacuateDoneShrinks, DrainDoneShrinks, DrainNodeShrinks
<1>2. CASE \E t \in Tasks : \/ EvacuateRelease(t) \/ RestartIncrement(t)
                            \/ ScaleDownSkip(t) \/ ScaleDownDesire(t)
  BY <1>2, EvacuateReleaseShrinks, RestartReleaseShrinks, ScaleDownSkipShrinks
<1>3. CASE RestartRelease \/ RestartMark \/ Scale \/ SelectNode \/ LaunchPicked
  BY <1>3, RestartReleaseShrinks, RestartMarkShrinks, ScaleShrinks, SelectNodeShrinks,
     LaunchPickedShrinks
<1>4. CASE ScaleDownRelease \/ ScaleDownMark \/ TakeDown
  BY <1>4, ScaleDownReleaseShrinks, TakeDownShrinks
<1>5. CASE (\E f \in 1..3 : performScaleUp(f)) \/ performScaleDown \/ ServiceDone
  BY <1>5, PredictionShrinks, ServiceDoneShrinks
<1>6. ~StartPass
  BY DEF StartPass, At
<1> QED
  BY <1>1, <1>2, <1>3, <1>4, <1>5, <1>6 DEF Reconcile

(* PassesShrink: a pass of the reconcile loop is finite, however many      *)
(* tasks the other goroutines create, fail or stop meanwhile.              *)
THEOREM PassesGetShorter == Spec => PassesShrink
<1>1. ASSUME Next, ~Reconcile PROVE UNCHANGED reconcileVars
  <2>1. CASE Boot
    BY <2>1 DEF Boot, BootSelect, BootLaunch, BootService
  <2>2. CASE Health
    BY <2>2 DEF Health, HealthList, HealthCheck, HealthFail, HealthRelease, OnlyHealth
  <2>3. CASE Environment
    BY <2>3 DEF Environment, ContainerLost, SetNodeStatus, CooldownOver
  <2>4. CASE \E t \in Tasks : Executor(t)
    BY <2>4 DEF Executor, ExecStarting, ExecCreateContainer, ExecRunning, ExecFailed, ExecRelease
  <2> QED
    BY <1>1, <2>1, <2>2, <2>3, <2>4 DEF Next
<1>2. Inv /\ Inv' /\ [Next]_vars
        => At("idle") \/ UNCHANGED reconcileVars \/ <<WorkLeft', WorkLeft>> \in Shorter
  <2> SUFFICES ASSUME Inv, Inv', [Next]_vars, rec.pc # "idle", ~UNCHANGED reconcileVars
               PROVE  <<WorkLeft', WorkLeft>> \in Shorter
    BY DEF At
  <2>1. UNCHANGED vars => UNCHANGED reconcileVars
    BY DEF vars
  <2>2. Next
    BY <2>1
  <2>3. Reconcile
    BY <1>1, <2>2
  <2> QED
    BY <2>3, PassShrinks
<1> QED
  BY Inductive, <1>2, PTL DEF Spec, PassesShrink

(* So a pass comes to its end unless the loop stops taking steps: what is  *)
(* left is always five natural numbers, and these do not become smaller    *)
(* for ever.                                                               *)
THEOREM PassesAreFinite ==
    Spec => [](WorkLeft \in [1..5 -> Nat] /\ IsWellFoundedOn(Shorter, [1..5 -> Nat]))
<1>1. Inv => WorkLeft \in [1..5 -> Nat] /\ IsWellFoundedOn(Shorter, [1..5 -> Nat])
  BY WorkLeftByPart, ShorterIsWellFounded
<1> QED
  BY Inductive, <1>1, PTL
=============================================================================
