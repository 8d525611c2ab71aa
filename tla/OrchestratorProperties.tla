----------------------- MODULE OrchestratorProperties -----------------------
(***************************************************************************)
(* What the orchestrator's goroutines keep to, whatever their order.       *)
(***************************************************************************)
EXTENDS Orchestrator, Functions, WellFoundedInduction

PassSteps == {"idle", "drain", "evacuate", "evacuateStop", "evacuateRemove", "evacuateMark",
              "evacuateCreate", "restart", "restartRelease", "restartMark", "restartStop",
              "restartRemove", "restartCreate", "scaleUp", "scaleDown", "scaleDownStop",
              "scaleDownRemove", "scaleDownRelease", "scaleDownMark"}

ReconcileRegisters ==
    [pc : PassSteps, cur : Tasks \cup {None}, nodesLeft : SUBSET Nodes,
     servicesLeft : SUBSET Services, svc : Services \cup {None},
     scaling : {"replicas", "predictive"}, queue : SUBSET Tasks, missing : Nat,
     excess : Nat, stopped : Nat, picked : Nodes \cup {None}]
HealthRegisters == [pc : {"check", "fail", "release"}, cur : Tasks \cup {None}]
BootRegisters == [servicesLeft : SUBSET Services, svc : Services \cup {None}, missing : Nat,
                  picked : Nodes \cup {None}]

(* The type of every variable. *)
TypeOK ==
    /\ SchedulerTypeOK
    /\ tasks \in [Tasks -> Record]
    /\ container \in [Tasks -> {"none", "up", "down"}]
    /\ abandoned \subseteq Tasks
    /\ phase \in [Tasks -> {"none", "spawned", "creating", "created", "refused", "releasing"}]
    /\ mine \in [Tasks -> Record]
    /\ reserved \subseteq Tasks /\ doubled \subseteq Nodes
    /\ replicas \in [Services -> Nat]
    /\ cooling \subseteq Services /\ measured \subseteq Services
    /\ rec \in ReconcileRegisters
    /\ snap \in [Tasks -> Record]
    /\ drained \in [Tasks -> Record]
    /\ health \in HealthRegisters
    /\ seen \in [Tasks -> Record]
    /\ boot \in BootRegisters
    /\ faults \in 0..MaxFaults
    /\ drains \in 0..MaxDrains

(***************************************************************************)
(* Reservations.                                                           *)
(***************************************************************************)

(* The tasks whose place on node n nobody has given back. *)
HeldOn(n) == {t \in reserved : tasks[t].node = n}

(* No capacity is lost: what the scheduler counts on a node never exceeds  *)
(* the tasks whose reservation stands, whichever of the four handlers that *)
(* release a task has run and however they interleave.  It falls short of  *)
(* them only where a task has been released that held nothing any more.    *)
NothingLeaks ==
    \A n \in Nodes :
       /\ taskCount[n] <= Cardinality(HeldOn(n))
       /\ n \notin doubled => taskCount[n] = Cardinality(HeldOn(n))

(* The reconcile loop is about to give back the reservation of t. *)
GivingBack(t) ==
    rec.cur = t /\ rec.pc \in {"scaleDownStop", "scaleDownRemove", "scaleDownRelease"}

(* A reservation stands only for a task that is still wanted, or that      *)
(* scale down is stopping: no handler gives a task up and forgets to       *)
(* release it, also when another one rewrites its record in between.       *)
ReservedAreWanted == \A t \in reserved : tasks[t].desired = "running" \/ GivingBack(t)

(* The resources a creator has chosen node n for and not reserved yet. *)
Promised(n) ==
    (IF rec.picked = n THEN Request[rec.svc] ELSE 0)
    + (IF boot.picked = n THEN Request[boot.svc] ELSE 0)

(* What the scheduler counts on a node, with what is promised there,       *)
(* exceeds what the node offers by no more than one request.               *)
CountsFit ==
    \A n \in Nodes :
       \/ used[n] + Promised(n) <= Capacity[n]
       \/ \E s \in Services : used[n] + Promised(n) <= Capacity[n] + Request[s]

(* The resources that the tasks hold whose place on n stands. *)
Load(n) == [t \in Tasks |-> IF t \in HeldOn(n) THEN Request[tasks[t].service] ELSE 0]
Held(n) == SumFunction(Load(n))

(* SelectNode and the reservation are not atomic, and initServices runs    *)
(* beside the loops; still the tasks on a node are never given more than   *)
(* it offers by more than one task's request, as long as no task has been  *)
(* released there that held nothing any more.  (Where one has, the node is *)
(* given more: see NoOvercommit.)                                          *)
OvercommitBounded ==
    \A n \in Nodes \ doubled :
       \/ Held(n) + Promised(n) <= Capacity[n]
       \/ \E s \in Services : Held(n) + Promised(n) <= Capacity[n] + Request[s]

(***************************************************************************)
(* Records and containers.                                                 *)
(***************************************************************************)

(* executeTask writes its own task object over the record three times.  It *)
(* never loses another goroutine's change: until it has written its        *)
(* outcome nobody else writes to the task.                                 *)
ExecutorOwnsRecord ==
    \A t \in Tasks :
       phase[t] \in {"spawned", "creating", "created", "refused"} => tasks[t] = mine[t]

(* Whoever works from a copy of a running task may name its container:     *)
(* the health check and the handlers that stop a task cut ContainerID to   *)
(* 12 characters, which panics on a running task that has none.            *)
RunningNamesContainer ==
    \A t \in Tasks : \A copy \in {tasks[t], snap[t], drained[t], seen[t]} :
       copy.status = "running" => copy.container

(* t's container is being taken down by the loop. *)
TakingDown(t) == rec.cur = t /\ rec.pc \in DOMAIN Stopping \cup DOMAIN Removing

(* No container is forgotten: one that exists is recorded with a task the  *)
(* system wants, or is about to be recorded, or is being removed; the rest *)
(* are those the daemon refused to remove.                                 *)
ContainersTracked ==
    \A t \in Tasks : container[t] # "none" =>
       \/ tasks[t].container /\ tasks[t].desired = "running"
       \/ phase[t] = "created" \/ TakingDown(t) \/ t \in abandoned

(***************************************************************************)
(* Scaling.                                                                *)
(***************************************************************************)

(* The tasks of s that run and are meant to. *)
Serving(s) == {t \in Tasks : tasks[t].service = s /\ tasks[t].status = "running"
                                /\ tasks[t].desired = "running"}

(* Scale down gives up t in this step. *)
GivesUp(t) == tasks[t].desired = "running" /\ tasks'[t].desired = "stopped"
                 /\ tasks'[t].status = "running"

(* The tasks of s that run in the copy and have stopped or failed since. *)
OutdatedOf(s) ==
    {t \in Tasks : snap[t].service = s /\ snap[t].status = "running" /\ tasks[t].status # "running"}

(* Scale down takes no service below min_replicas, as far as its copy of   *)
(* the tasks is up to date: the tasks that remain, with those that this    *)
(* pass has evacuated or that have failed since the copy was made, are as  *)
(* many as the policy asks for.                                            *)
MinReplicasButForOutdated ==
    [][\A t \in Tasks : GivesUp(t) =>
          LET s == tasks[t].service
          IN  Cardinality(Serving(s)') + Cardinality(OutdatedOf(s)) >= MinReplicas[s]]_vars

(* The same without the exception.  It holds as long as no node is drained *)
(* and no container exits or is found sick, for then no copy is outdated.  *)
MinReplicasKept ==
    [][\A t \in Tasks : GivesUp(t) =>
          LET s == tasks[t].service IN Cardinality(Serving(s)') >= MinReplicas[s]]_vars

(* A running task on n in the loop's copy that does not run any more: this *)
(* pass has evacuated it.                                                  *)
Outdated(n) == \E u \in Tasks : snap[u].node = n /\ snap[u].status = "running"
                                  /\ tasks[u].status # "running"

(* Scale down never takes the last task of a stateful service out of a     *)
(* zone, nor the last task of a daemon service off a node, as far as its   *)
(* copy of the tasks is up to date there.                                  *)
LastOnesKept ==
    [][\A t \in Tasks : GivesUp(t) =>
          LET s == tasks[t].service
              n == tasks[t].node
          IN  /\ ServiceType[s] = "stateful" =>
                    \/ \E u \in Serving(s)' : Zone[tasks[u].node] = Zone[n]
                    \/ \E m \in Nodes : Zone[m] = Zone[n] /\ Outdated(m)
              /\ ServiceType[s] = "daemon" =>
                    (\E u \in Serving(s)' : tasks[u].node = n) \/ Outdated(n)
      ]_vars

(* Predictive scaling keeps the wanted replicas within the policy.         *)
ReplicasInPolicy ==
    \A s \in Services : /\ replicas[s] <= AtLeast(MaxReplicas[s], Replicas[s])
                        /\ replicas[s] >= AtMost(MinReplicas[s], Replicas[s])

(* The replica count of a service under its policy, as ReplicaScaling has  *)
(* it.                                                                     *)
Scaling(s) == INSTANCE ReplicaScaling
                WITH min <- MinReplicas[s], max <- MaxReplicas[s],
                     replicas <- replicas[s], cooling <- (s \in cooling)

(* Whatever goes on in between and whichever other services are scaled,    *)
(* the loop scales every service as ReplicaScaling says: a few replicas    *)
(* more, cut to the maximum, or one less, not below the minimum, and never *)
(* within the cooldown of the last time.                                   *)
EachScalesAsAllowed ==
    /\ \A s \in Services : Scaling(s)!Init
    /\ [][\A s \in Services : [Scaling(s)!Next]_(Scaling(s)!vars)]_vars

(***************************************************************************)
(* Why the reservations are safe: the parts of an inductive invariant.     *)
(***************************************************************************)
Owned == {"spawned", "creating", "created", "refused"}
Evacuating == {"evacuateStop", "evacuateRemove", "evacuateMark"}
Restarting == {"restartRelease", "restartMark"}
ScalingDown == {"scaleDownStop", "scaleDownRemove", "scaleDownRelease", "scaleDownMark"}

(* A record that names what Release needs. *)
Placed(r) == r.service \in Services /\ r.node \in Nodes

(* A record anybody may act on is placed; the copies of running tasks are  *)
(* copies of running tasks.                                                *)
RecordsPlaced ==
    \A t \in Tasks :
       /\ ~Done(tasks[t]) => Placed(tasks[t])
       /\ ~Done(snap[t]) => Placed(snap[t])
       /\ drained[t] # Absent => drained[t].status = "running" /\ Placed(drained[t])
       /\ seen[t] # Absent => seen[t].status = "running" /\ Placed(seen[t])
       /\ phase[t] # "none" => mine[t].desired = "running" /\ Placed(mine[t])

(* What a release goes by. *)
Agree(r, q) == r.node = q.node /\ r.service = q.service

(* As long as its reservation stands, all copies of a task name the node   *)
(* and the service that its record names, and a copy that says that the    *)
(* task is not wanted any more has got that from scale down.               *)
CopiesAgree ==
    \A t \in reserved :
       /\ ~Done(snap[t]) => Agree(snap[t], tasks[t])
       /\ drained[t] # Absent => Agree(drained[t], tasks[t])
       /\ seen[t] # Absent => /\ Agree(seen[t], tasks[t])
                              /\ seen[t].desired = "running" \/ GivingBack(t)
       /\ phase[t] # "none" => Agree(mine[t], tasks[t])

(* While an executor owns a record, nobody holds a copy to act on. *)
OwnedAreLeftAlone ==
    \A t \in Tasks : phase[t] \in Owned =>
       /\ tasks[t] = mine[t] /\ mine[t].status \in {"pending", "starting"}
       /\ Done(snap[t]) \/ snap[t].status \in {"pending", "starting"}
       /\ drained[t] = Absent /\ seen[t] = Absent

(* What is counted as used on a node is what the tasks hold there, unless  *)
(* a task has been released that held nothing any more.                    *)
UsedIsHeld == \A n \in Nodes \ doubled : used[n] = Held(n)

(* What the registers of the goroutines hold at each step: the task at     *)
(* hand, of which kind it is, and that its reservation is gone once the    *)
(* loop has released it.                                                   *)
RegistersSound ==
    /\ rec.pc \notin {"idle", "drain", "evacuate"} => rec.svc \in Services
    /\ rec.picked # None => rec.pc \in Creating
    /\ rec.picked # None /\ rec.pc = "scaleUp" => rec.missing > 0
    /\ rec.pc \in Evacuating \cup Restarting \cup ScalingDown
                    \cup {"restartStop", "restartRemove"} => rec.cur \in Tasks
    /\ rec.pc \in Evacuating => drained[rec.cur] # Absent /\ rec.cur \notin reserved
    /\ rec.pc \in Restarting => NeedsRestart(snap[rec.cur])
    /\ rec.pc \in ScalingDown => snap[rec.cur].status = "running"
    /\ rec.pc \in {"restartMark", "scaleDownMark"} => rec.cur \notin reserved
    /\ \A t \in rec.queue : snap[t].status = "running"
    /\ rec.queue # {} => rec.pc \in {"scaleDown"} \cup ScalingDown
    /\ rec.pc \in ScalingDown => rec.cur \notin rec.queue
    /\ boot.picked # None => boot.missing > 0
    /\ boot.missing > 0 => boot.svc \in Services
    /\ health.pc \in {"fail", "release"} => health.cur \in Tasks /\ seen[health.cur] # Absent

(* Inductive: every step keeps it. *)
Inv ==
    /\ TypeOK /\ RecordsPlaced /\ CopiesAgree /\ OwnedAreLeftAlone /\ RegistersSound
    /\ NothingLeaks /\ UsedIsHeld /\ ReservedAreWanted /\ CountsFit

(***************************************************************************)
(* Why a pass comes to its end: what is left of it, most important first.  *)
(***************************************************************************)
EvacuateSteps == {"evacuate", "evacuateCreate"} \cup Evacuating
RestartSteps == {"restart", "restartStop", "restartRemove", "restartCreate"} \cup Restarting

(* The steps at most that the loop makes before it comes to the next task. *)
StepsOf == [evacuateCreate |-> 7, evacuate |-> 5, evacuateStop |-> 4, evacuateRemove |-> 3,
            evacuateMark |-> 2,
            restartStop |-> 9, restartRemove |-> 8, restartCreate |-> 7, restart |-> 5,
            restartRelease |-> 4, restartMark |-> 3,
            scaleUp |-> 7, scaleDownStop |-> 9, scaleDownRemove |-> 8, scaleDownRelease |-> 7,
            scaleDownMark |-> 6, scaleDown |-> 5]
StepsLeft(r) == IF r.picked = None THEN StepsOf[r.pc] ELSE StepsOf[r.pc] - 1

(* First the nodes with the tasks to evacuate from each, then the services *)
(* with the tasks to restart, those to create or to stop, and the same for *)
(* predictive scaling.                                                     *)
WorkOf(r, toMove, toRestart) ==
    CASE r.pc = "idle" -> <<0, 0, 0, 0, 0>>
      [] r.pc = "drain" -> <<2, Cardinality(r.nodesLeft), 0, 0, 0>>
      [] r.pc \in EvacuateSteps ->
            <<2, Cardinality(r.nodesLeft), 1, Cardinality(toMove), StepsLeft(r)>>
      [] r.pc \in RestartSteps ->
            <<1, Cardinality(r.servicesLeft), 2, Cardinality(toRestart), StepsLeft(r)>>
      [] OTHER ->
            <<1, Cardinality(r.servicesLeft), IF r.scaling = "replicas" THEN 1 ELSE 0,
              IF r.pc = "scaleUp" THEN r.missing ELSE Cardinality(r.queue), StepsLeft(r)>>
WorkLeft == WorkOf(rec, ToMove, {t \in Tasks : NeedsRestart(snap[t])})

(* Lexicographic, which is well-founded: it does not go on for ever. *)
Shorter == LexProductOrdering(OpToRel(<, Nat), Nat, 5)

(* Within a pass every step of the loop brings it nearer to its end, and   *)
(* no other goroutine gives it more to do: tasks that fail, nodes that are *)
(* drained and tasks that are created meanwhile are left to the next pass. *)
PassesShrink ==
    [][At("idle") \/ UNCHANGED reconcileVars \/ <<WorkLeft', WorkLeft>> \in Shorter]_vars

(***************************************************************************)
(* Progress, under FairSpec.                                               *)
(***************************************************************************)

(* A pass of the reconcile loop always ends, whatever fails in it. *)
PassesEnd == []<>(rec.pc = "idle")

(* A wanted task that has failed is restarted: it does not stay so. *)
FailedAndWanted(t) == tasks[t].status = "failed" /\ tasks[t].desired = "running"
FailedAreRestarted == \A t \in Tasks : FailedAndWanted(t) ~> ~FailedAndWanted(t)

(* A task of a service with a health check does not stay recorded as       *)
(* running once its container has exited.  (Nobody looks at the containers *)
(* of the other services.)                                                 *)
Exited(t) == /\ tasks[t].status = "running" /\ container[t] = "down"
             /\ tasks[t].service \in HealthChecked
ExitsAreNoticed == \A t \in Tasks : Exited(t) ~> ~Exited(t)

(* A draining node is emptied: it does not keep a running task. *)
DrainedNodesEmpty ==
    \A n \in Nodes, t \in Tasks :
       (nodeStatus[n] = "draining" /\ tasks[t].node = n /\ tasks[t].status = "running")
          ~> ~(nodeStatus[n] = "draining" /\ tasks[t].node = n /\ tasks[t].status = "running")

(* A service with a health check comes back: again and again it has the    *)
(* tasks it needs, unless a container has vanished, which nobody notices.  *)
Vanished(t) == tasks[t].status = "running" /\ container[t] = "none"
Recovers ==
    \A s \in HealthChecked :
       []<>(\/ Cardinality(Serving(s)) >= calculateDesiredReplicas(s)
            \/ \E t \in Serving(s) : Vanished(t))

(***************************************************************************)
(* What the documentation says and the code does not keep.                 *)
(***************************************************************************)

(* scheduler.go, DefaultConfig: "no overcommit".                           *)
NoOvercommit == \A n \in Nodes : Held(n) <= Capacity[n]

(* orchestrator.go, reconcile: a restart is counted, and stays counted.    *)
RestartsCounted ==
    [][\A t \in Tasks : phase'[t] = phase[t] => tasks'[t].restarts >= tasks[t].restarts]_vars

(* README, scale policy: max_replicas is the maximum replica count.        *)
Alive(s) == {t \in Tasks : tasks[t].service = s
                              /\ tasks[t].status \in {"pending", "starting", "running"}}
AtMostMaxReplicas ==
    \A s \in Services : MaxReplicas[s] > 0 => Cardinality(Alive(s)) <= MaxReplicas[s]

(* README, features: the actual state is compared with the desired state   *)
(* continuously.  A task does not stay running without its container.      *)
VanishedAreNoticed == \A t \in Tasks : Vanished(t) ~> ~Vanished(t)
==============================================================================
