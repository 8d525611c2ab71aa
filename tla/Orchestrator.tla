---------------------------- MODULE Orchestrator ----------------------------
(***************************************************************************)
(* The orchestrator (core/orchestrator.go): the goroutines that share its  *)
(* task store, its scheduler and the Docker daemon.                        *)
(*                                                                         *)
(*   - initServices, which Start runs beside the loops it has launched;    *)
(*   - the reconcile loop, that works from a copy of all the tasks;        *)
(*   - the health check loop, that works from a copy of the running ones;  *)
(*   - one executeTask per task created, that makes the task's container;  *)
(*   - the API, that drains nodes and activates them again;                *)
(*   - the daemon, whose containers exit, vanish, and resist removal.      *)
(*                                                                         *)
(* An action is one access to shared state (one call of the store, of the  *)
(* scheduler or of the daemon) with the local work up to the next one, so  *)
(* any goroutine may run between two accesses of another.  The store is    *)
(* the plain map of TaskStore, which memory.go implements.                 *)
(*                                                                         *)
(* A task that is stopped for good is never looked at again except to be   *)
(* counted, so the model forgets its node and container (Retired); once    *)
(* nobody holds a copy of it, its ID may stand for a fresh UUID (Fresh).   *)
(***************************************************************************)
EXTENDS Scheduler

CONSTANTS Tasks,            \* task IDs
          Services,         \* the configured services
          Replicas,         \* service -> replicas
          MinReplicas,      \* service -> scale_policy.min_replicas
          MaxReplicas,      \* service -> scale_policy.max_replicas
          ServiceType,      \* service -> "stateless", "stateful" or "daemon"
          Request,          \* service -> resources of one task
          HealthChecked,    \* services with a health_check
          Predictive,       \* services with predictive scaling enabled
          NodeOrder,        \* node -> rank of its ID in string order
          Zone,             \* node -> label "zone"
          PreferredZones,   \* service -> the values of its zone affinity rules
          None,
          Failures,         \* what may fail: a subset of FailureKinds
          MaxFaults,        \* bound: failures in one behaviour
          MaxDrains         \* bound: drain and activate calls of the API

(* Containers exit, vanish or are found sick by the check of their image;  *)
(* the daemon's calls create, stop, remove and inspect fail.               *)
FailureKinds == {"exit", "vanish", "sick", "create", "stop", "remove", "inspect"}

ASSUME ServiceAssumption ==
    /\ Replicas \in [Services -> Nat]
    /\ MinReplicas \in [Services -> Nat]
    /\ MaxReplicas \in [Services -> Nat]
    /\ Request \in [Services -> Nat]
    /\ HealthChecked \subseteq Services
    /\ Predictive \subseteq Services
ASSUME NoneIsNone == None \notin Nodes \cup Services \cup Tasks
ASSUME BoundsAssumption == Failures \subseteq FailureKinds /\ MaxFaults \in Nat /\ MaxDrains \in Nat
ASSUME FiniteTasks == IsFiniteSet(Tasks)
ASSUME FiniteServices == IsFiniteSet(Services)

VARIABLES
    tasks,      \* the task store: task ID -> record
    container,  \* task ID -> state of its container: "none", "up", "down"
    abandoned,  \* tasks whose container the daemon refused to remove
    phase,      \* task ID -> where its executeTask is
    mine,       \* task ID -> the task object its executeTask works on
    reserved,   \* history: tasks whose reservation nobody has released yet
    doubled,    \* history: nodes on which a task has been released once more
    replicas,   \* service -> service.Replicas, which predictive scaling changes
    cooling,    \* services within the cooldown of their last scaling
    measured,   \* predictive services of which the metrics store has a history
    rec,        \* registers of the reconcile loop
    snap,       \* its copy of the tasks
    drained,    \* its copy of the running tasks of a draining node
    health,     \* registers of the health check loop
    seen,       \* its copy of the running tasks
    boot,       \* registers of initServices
    faults,     \* failures so far
    drains      \* drain and activate calls so far

storeVars == <<tasks>>
dockerVars == <<container, abandoned>>
executorVars == <<phase, mine>>
scalingVars == <<replicas, cooling, measured>>
reconcileVars == <<rec, snap, drained>>
healthVars == <<health, seen>>
budgetVars == <<faults, drains>>
vars == <<tasks, container, abandoned, phase, mine, reserved, doubled, replicas, cooling, measured,
          rec, snap, drained, health, seen, boot, faults, drains, nodeStatus, used, taskCount>>

(***************************************************************************)
(* Task records.                                                           *)
(***************************************************************************)

(* "dead" is a status of the code that no code assigns. *)
Terminated == {"stopped", "failed", "dead"}
Record == [status : {"absent", "pending", "starting", "running"} \cup Terminated,
           desired : {"running", "stopped"}, service : Services \cup {None},
           node : Nodes \cup {None}, container : BOOLEAN, restarts : Nat]

(* The record at an ID that is not in use. *)
Absent == [status |-> "absent", desired |-> "stopped", service |-> None,
           node |-> None, container |-> FALSE, restarts |-> 0]
NoTasks == [t \in Tasks |-> Absent]

NewTask(s, n) == [status |-> "pending", desired |-> "running", service |-> s,
                  node |-> n, container |-> FALSE, restarts |-> 0]

(* Mutant: whatever does not run is restarted. *)
RestartsWhatStarts(r) == r.desired = "running" /\ r.status # "running"

(* Mutant: a failed task is not taken for terminated. *)
ForgetsFailed(r) == r.desired = "running" /\ r.status \in {"stopped", "dead"}

NeedsRestart(r) == r.desired = "running" /\ r.status \in Terminated

(* The tasks of a copy of the store, of one service, of one status. *)
OfStatus(copy, s, statuses) ==
    {t \in Tasks : copy[t].service = s /\ copy[t].status \in statuses}

(* What the copy keeps of the tasks for which keep holds. *)
Copied(keep) == [t \in Tasks |-> IF t \in keep THEN tasks[t] ELSE Absent]

(* What is kept of a record once the status and the desired state are      *)
(* both "stopped".                                                         *)
Retired(r) == [r EXCEPT !.status = "stopped", !.desired = "stopped",
                        !.node = None, !.container = FALSE]

(* Terminated and not to be restarted: nothing in the program acts on it. *)
Done(r) == r.desired = "stopped" /\ r.status \in {"absent"} \cup Terminated

(* An ID nobody works on: it may stand for the next UUID.  Its old record  *)
(* is kept as long as initServices may count it.                           *)
Unused(t) ==
    /\ phase[t] = "none" /\ container[t] = "none" /\ rec.cur # t
    /\ Done(snap[t]) /\ drained[t] = Absent /\ seen[t] = Absent
Fresh(t) ==
    /\ Unused(t) /\ Done(tasks[t])
    /\ boot.servicesLeft # {} => tasks[t] = Absent

(***************************************************************************)
(* The initial state: Start has launched everything, no task exists yet.   *)
(***************************************************************************)
IdleReconcile ==
    [pc |-> "idle", cur |-> None, nodesLeft |-> {}, servicesLeft |-> {}, svc |-> None,
     scaling |-> "replicas", queue |-> {}, missing |-> 0, excess |-> 0, stopped |-> 0,
     picked |-> None]

Init ==
    /\ SchedulerInit
    /\ tasks = NoTasks
    /\ container = [t \in Tasks |-> "none"]
    /\ abandoned = {}
    /\ phase = [t \in Tasks |-> "none"]
    /\ mine = NoTasks
    /\ reserved = {} /\ doubled = {}
    /\ replicas = Replicas
    /\ cooling = {}
    /\ measured = {}
    /\ rec = IdleReconcile
    /\ snap = NoTasks
    /\ drained = NoTasks
    /\ health = [pc |-> "check", cur |-> None]
    /\ seen = NoTasks
    /\ boot = [servicesLeft |-> Services, svc |-> None, missing |-> 0, picked |-> None]
    /\ faults = 0
    /\ drains = 0

(***************************************************************************)
(* Calls that several goroutines make.                                     *)
(***************************************************************************)

(* taskStore.Update: the record becomes the caller's copy, whatever it is  *)
(* by now.  It fails only for an unknown ID, and no record is deleted.     *)
Update(t, r) == tasks' = [tasks EXCEPT ![t] = r]

(* scheduler.ReleaseNodeResources for the task whose record is r.  The     *)
(* scheduler does not know whose resources they are: a task that holds     *)
(* none any more gives those of another one back.                          *)
Release(t, r) ==
    /\ ReleaseNodeResources(r.node, Request[r.service])
    /\ reserved' = reserved \ {t}
    /\ doubled' = IF t \in reserved THEN doubled ELSE doubled \cup {r.node}

Fault(kind) == kind \in Failures /\ faults < MaxFaults /\ faults' = faults + 1
NoFault == UNCHANGED faults

(* dockerClient.StopContainer and DisconnectFromNetwork: an error is       *)
(* ignored.  A container that is already gone is left alone.               *)
StopContainer(t) ==
    /\ \/ /\ container' = [container EXCEPT ![t] = IF @ = "up" THEN "down" ELSE @]
          /\ NoFault
       \/ Fault("stop") /\ UNCHANGED container
    /\ UNCHANGED <<abandoned, drains>>

(* dockerClient.RemoveContainer: an error is logged and never retried. *)
RemoveContainer(t) ==
    /\ \/ /\ container' = [container EXCEPT ![t] = "none"]
          /\ NoFault
          /\ UNCHANGED abandoned
       \/ /\ container[t] # "none"
          /\ Fault("remove")
          /\ abandoned' = abandoned \cup {t}
          /\ UNCHANGED container
    /\ UNCHANGED drains

(* The second half of createServiceTask, on the node SelectNode chose: the *)
(* reservation, taskStore.Create (which cannot fail on a fresh UUID) and   *)
(* go executeTask.  Nobody looks at the record between the reservation and *)
(* its creation.                                                           *)
Launch(s, n) ==
    \E t \in Tasks :
       /\ Fresh(t)
       /\ updateNodeResources(n, Request[s])
       /\ reserved' = reserved \cup {t} /\ UNCHANGED doubled
       /\ tasks' = [tasks EXCEPT ![t] = NewTask(s, n)]
       /\ mine' = [mine EXCEPT ![t] = NewTask(s, n)]
       /\ phase' = [phase EXCEPT ![t] = "spawned"]

(* calculateDesiredReplicas. *)
AtLeast(a, b) == IF a < b THEN b ELSE a
AtMost(a, b) == IF a > b THEN b ELSE a
Wanted(s) == IF ServiceType[s] = "daemon" THEN replicas[s] * Cardinality(Nodes) ELSE replicas[s]
calculateDesiredReplicas(s) ==
    LET floor == AtLeast(Wanted(s), MinReplicas[s])
    IN  IF MaxReplicas[s] > 0 THEN AtMost(floor, MaxReplicas[s]) ELSE floor

(***************************************************************************)
(* executeTask.                                                            *)
(***************************************************************************)
ExecutorStep(t, from, to) ==
    phase[t] = from /\ phase' = [phase EXCEPT ![t] = to]

(* The executor changes its own task object and writes it to the store. *)
ExecutorUpdate(t, r) ==
    /\ mine' = [mine EXCEPT ![t] = IF phase'[t] = "none" THEN Absent ELSE r]
    /\ Update(t, r)

(* Mutant: the task is recorded as running before its container exists. *)
RunningAtOnce(t) ==
    /\ ExecutorStep(t, "spawned", "creating")
    /\ ExecutorUpdate(t, [mine[t] EXCEPT !.status = "running"])
    /\ UNCHANGED <<dockerVars, reserved, doubled, scalingVars, reconcileVars, healthVars, boot,
                   budgetVars, schedulerVars>>

ExecStarting(t) ==
    /\ ExecutorStep(t, "spawned", "creating")
    /\ ExecutorUpdate(t, [mine[t] EXCEPT !.status = "starting"])
    /\ UNCHANGED <<dockerVars, reserved, doubled, scalingVars, reconcileVars, healthVars, boot,
                   budgetVars, schedulerVars>>

(* CreateContainer may fail; when it is the start that fails, or that is   *)
(* not answered in time, the removal of what was created may fail as well, *)
(* and that error is ignored.                                              *)
ExecCreateContainer(t) ==
    /\ \/ /\ ExecutorStep(t, "creating", "created")
          /\ container' = [container EXCEPT ![t] = "up"]
          /\ NoFault /\ UNCHANGED abandoned
       \/ /\ ExecutorStep(t, "creating", "refused")
          /\ Fault("create")
          /\ \/ UNCHANGED dockerVars
             \/ /\ \E state \in {"up", "down"} : container' = [container EXCEPT ![t] = state]
                /\ abandoned' = abandoned \cup {t}
    /\ UNCHANGED <<storeVars, mine, reserved, doubled, scalingVars, reconcileVars,
                   healthVars, boot, drains, schedulerVars>>

ExecRunning(t) ==
    /\ ExecutorStep(t, "created", "none")
    /\ ExecutorUpdate(t, [mine[t] EXCEPT !.status = "running", !.container = TRUE])
    /\ UNCHANGED <<dockerVars, reserved, doubled, scalingVars, reconcileVars, healthVars, boot,
                   budgetVars, schedulerVars>>

ExecFailed(t) ==
    /\ ExecutorStep(t, "refused", "releasing")
    /\ ExecutorUpdate(t, [mine[t] EXCEPT !.status = "failed"])
    /\ UNCHANGED <<dockerVars, reserved, doubled, scalingVars, reconcileVars, healthVars, boot,
                   budgetVars, schedulerVars>>

ExecRelease(t) ==
    /\ ExecutorStep(t, "releasing", "none")
    /\ Release(t, mine[t])
    /\ mine' = [mine EXCEPT ![t] = Absent]
    /\ UNCHANGED <<storeVars, dockerVars, scalingVars, reconcileVars, healthVars, boot,
                   budgetVars>>

Executor(t) ==
    ExecStarting(t) \/ ExecCreateContainer(t) \/ ExecRunning(t) \/ ExecFailed(t) \/ ExecRelease(t)

(***************************************************************************)
(* initServices: the replicas each service lacks.                          *)
(***************************************************************************)
BootService(s) ==
    /\ boot.missing = 0 /\ s \in boot.servicesLeft
    /\ LET existing == Cardinality({t \in Tasks : tasks[t].service = s})
       IN  boot' = [boot EXCEPT !.servicesLeft = @ \ {s}, !.svc = s,
                                !.missing = Less(Wanted(s), existing)]
    /\ UNCHANGED <<storeVars, dockerVars, executorVars, reserved, doubled, scalingVars,
                   reconcileVars,
                   healthVars, budgetVars, schedulerVars>>

(* A failure to select a node is logged, and the next replica is tried. *)
BootSelect ==
    /\ boot.missing > 0 /\ boot.picked = None
    /\ LET nodes == Selectable(Request[boot.svc])
       IN  \/ \E n \in nodes : boot' = [boot EXCEPT !.picked = n]
           \/ nodes = {} /\ boot' = [boot EXCEPT !.missing = @ - 1]
    /\ UNCHANGED <<storeVars, dockerVars, executorVars, reserved, doubled, scalingVars,
                   reconcileVars,
                   healthVars, budgetVars, schedulerVars>>

BootLaunch ==
    /\ boot.picked # None
    /\ Launch(boot.svc, boot.picked)
    /\ boot' = [boot EXCEPT !.picked = None, !.missing = @ - 1]
    /\ UNCHANGED <<dockerVars, scalingVars, reconcileVars, healthVars, budgetVars>>

Boot == BootSelect \/ BootLaunch \/ \E s \in Services : BootService(s)

(***************************************************************************)
(* The reconcile loop.                                                     *)
(***************************************************************************)
At(pc) == rec.pc = pc
Goto(pc) == rec' = [rec EXCEPT !.pc = pc]

(* What the steps of the loop leave alone besides what they name. *)
NotTheLoops == UNCHANGED <<healthVars, boot>>
OnlyTheLoop ==
    /\ NotTheLoops
    /\ UNCHANGED <<storeVars, dockerVars, executorVars, reserved, doubled, budgetVars,
                   schedulerVars>>

(* taskStore.List, then collectMetrics, which adds to the history of the   *)
(* services that have a running task.  It is read for the predictive ones; *)
(* how long it must be to predict from it is left out.                     *)
StartPass ==
    /\ At("idle")
    /\ snap' = Copied({t \in Tasks : ~Done(tasks[t])})
    /\ measured' = measured \cup {s \in Predictive : OfStatus(tasks, s, {"running"}) # {}}
    /\ rec' = [rec EXCEPT !.pc = "drain", !.nodesLeft = Nodes]
    /\ OnlyTheLoop /\ UNCHANGED <<drained, replicas, cooling>>

(* Mutant: only the tasks that are starting are evacuated. *)
DrainsStarting(n) ==
    /\ At("drain") /\ n \in rec.nodesLeft /\ nodeStatus[n] = "draining"
    /\ drained' = Copied({t \in Tasks : tasks[t].node = n /\ tasks[t].status = "starting"})
    /\ rec' = [rec EXCEPT !.nodesLeft = @ \ {n}, !.pc = "evacuate"]
    /\ OnlyTheLoop /\ UNCHANGED <<snap, scalingVars>>

(* Mutant: the node stays on the list until it is empty. *)
DrainsUntilEmpty(n) ==
    /\ At("drain") /\ n \in rec.nodesLeft /\ nodeStatus[n] = "draining"
    /\ drained' = Copied({t \in Tasks : tasks[t].node = n /\ tasks[t].status = "running"})
    /\ Goto("evacuate")
    /\ OnlyTheLoop /\ UNCHANGED <<snap, scalingVars>>

(* The loop comes to node n and finds it draining, having passed by some   *)
(* that were ready.  Of ListByNodeID only the running tasks matter.        *)
DrainNode(n) ==
    /\ At("drain") /\ n \in rec.nodesLeft /\ nodeStatus[n] = "draining"
    /\ drained' = Copied({t \in Tasks : tasks[t].node = n /\ tasks[t].status = "running"})
    /\ \E passed \in SUBSET (rec.nodesLeft \cap filterReadyNodes) :
          rec' = [rec EXCEPT !.nodesLeft = @ \ ({n} \cup passed), !.pc = "evacuate"]
    /\ OnlyTheLoop /\ UNCHANGED <<snap, scalingVars>>

ToMove == {t \in Tasks : drained[t] # Absent}

(* Mutant: the task's reservation is not released. *)
EvacuatesHolding(t) ==
    /\ At("evacuate") /\ t \in ToMove
    /\ rec' = [rec EXCEPT !.cur = t, !.svc = drained[t].service,
                          !.pc = IF drained[t].container THEN "evacuateStop" ELSE "evacuateMark"]
    /\ OnlyTheLoop /\ UNCHANGED <<scalingVars, snap, drained>>

(* Mutant: the container is left as it is. *)
EvacuatesRecordOnly(t) ==
    /\ At("evacuate") /\ t \in ToMove
    /\ Release(t, drained[t])
    /\ rec' = [rec EXCEPT !.cur = t, !.svc = drained[t].service, !.pc = "evacuateMark"]
    /\ NotTheLoops
    /\ UNCHANGED <<storeVars, dockerVars, executorVars, scalingVars, snap, drained, budgetVars>>

EvacuateRelease(t) ==
    /\ At("evacuate") /\ t \in ToMove
    /\ Release(t, drained[t])
    /\ rec' = [rec EXCEPT !.cur = t, !.svc = drained[t].service,
                          !.pc = IF drained[t].container THEN "evacuateStop" ELSE "evacuateMark"]
    /\ NotTheLoops
    /\ UNCHANGED <<storeVars, dockerVars, executorVars, scalingVars, snap, drained, budgetVars>>

EvacuateMark ==
    /\ At("evacuateMark")
    /\ Update(rec.cur, Retired(drained[rec.cur]))
    /\ drained' = [drained EXCEPT ![rec.cur] = Absent]
    /\ rec' = [rec EXCEPT !.pc = "evacuateCreate", !.cur = None]
    /\ NotTheLoops
    /\ UNCHANGED <<dockerVars, executorVars, reserved, doubled, scalingVars, snap, budgetVars,
                   schedulerVars>>

(* The last task of the node: the drain loop moves on. *)
EvacuateDone ==
    /\ At("evacuate") /\ ToMove = {} /\ Goto("drain")
    /\ OnlyTheLoop /\ UNCHANGED <<snap, drained, scalingVars>>

(* The loop over the services; after the last one the pass is over.        *)
(* cleanupOrphanedTasks finds no task of an unconfigured service, as the   *)
(* configuration does not change.                                          *)
ToNextService(left) ==
    IF left = {}
    THEN rec' = IdleReconcile /\ snap' = NoTasks
    ELSE /\ \E s \in left : rec' = [IdleReconcile EXCEPT !.pc = "restart", !.svc = s,
                                                        !.servicesLeft = left \ {s}]
         /\ UNCHANGED snap

(* The nodes left are ready. *)
DrainDone ==
    /\ At("drain") /\ rec.nodesLeft \subseteq filterReadyNodes
    /\ ToNextService(Services)
    /\ OnlyTheLoop /\ UNCHANGED <<drained, scalingVars>>

ToRestart == {t \in Tasks : snap[t].service = rec.svc /\ NeedsRestart(snap[t])}

(* taskStore.IncrementRestartCounter, in the store only. *)
RestartIncrement(t) ==
    /\ At("restart") /\ t \in ToRestart
    /\ tasks' = [tasks EXCEPT ![t].restarts = @ + 1]
    /\ rec' = [rec EXCEPT !.pc = "restartRelease", !.cur = t]
    /\ NotTheLoops
    /\ UNCHANGED <<dockerVars, executorVars, reserved, doubled, scalingVars, snap, drained,
                   budgetVars,
                   schedulerVars>>

(* Mutant: the old task's reservation is not released. *)
RestartsHolding ==
    /\ At("restartRelease") /\ Goto("restartMark")
    /\ OnlyTheLoop /\ UNCHANGED <<scalingVars, snap, drained>>

RestartRelease ==
    /\ At("restartRelease")
    /\ Release(rec.cur, snap[rec.cur])
    /\ Goto("restartMark")
    /\ NotTheLoops
    /\ UNCHANGED <<storeVars, dockerVars, executorVars, scalingVars, snap, drained, budgetVars>>

(* The copy of the task, of before the increment, becomes the record. *)
RestartMark ==
    /\ At("restartMark")
    /\ snap' = [snap EXCEPT ![rec.cur] = Retired(@)]
    /\ Update(rec.cur, Retired(snap[rec.cur]))
    /\ rec' = [rec EXCEPT !.pc = IF snap[rec.cur].container THEN "restartStop" ELSE "restartCreate",
                          !.cur = IF snap[rec.cur].container THEN @ ELSE None]
    /\ NotTheLoops
    /\ UNCHANGED <<dockerVars, executorVars, reserved, doubled, scalingVars, drained, budgetVars,
                   schedulerVars>>

(* Every terminated task is dealt with: compare what runs or is pending in *)
(* the copy with what is wanted.  Starting and failed tasks do not count.  *)
Current(s) == Cardinality(OfStatus(snap, s, {"running", "pending"}))
RunningCopies(s) == OfStatus(snap, s, {"running"})

Scale ==
    /\ At("restart") /\ ToRestart = {}
    /\ LET current == Current(rec.svc)
           desired == calculateDesiredReplicas(rec.svc)
       IN  rec' = [rec EXCEPT !.pc = IF current < desired THEN "scaleUp" ELSE "scaleDown",
                              !.missing = Less(desired, current),
                              !.excess = Less(current, desired),
                              !.stopped = 0,
                              !.queue = IF current > desired THEN RunningCopies(rec.svc) ELSE {}]
    /\ OnlyTheLoop /\ UNCHANGED <<snap, drained, scalingVars>>

(* Where createServiceTask is called, and where the caller goes on. *)
Creating == {"evacuateCreate", "restartCreate", "scaleUp"}
AfterCreate == [evacuateCreate |-> "evacuate", restartCreate |-> "restart", scaleUp |-> "scaleUp"]

(* Mutant: the failure to select a node is retried until it succeeds. *)
SelectsForever ==
    /\ rec.pc \in Creating /\ rec.picked = None
    /\ At("scaleUp") => rec.missing > 0
    /\ \E n \in Selectable(Request[rec.svc]) : rec' = [rec EXCEPT !.picked = n]
    /\ OnlyTheLoop /\ UNCHANGED <<snap, drained, scalingVars>>

(* The first half of createServiceTask.  When no node can be selected, the *)
(* scale up loop breaks and the others go on with their next task.         *)
SelectNode ==
    /\ rec.pc \in Creating /\ rec.picked = None
    /\ At("scaleUp") => rec.missing > 0
    /\ LET nodes == Selectable(Request[rec.svc])
       IN  \/ \E n \in nodes : rec' = [rec EXCEPT !.picked = n]
           \/ nodes = {} /\ rec' = [rec EXCEPT !.pc = AfterCreate[@], !.missing = 0]
    /\ OnlyTheLoop /\ UNCHANGED <<snap, drained, scalingVars>>

LaunchPicked ==
    /\ rec.picked # None
    /\ Launch(rec.svc, rec.picked)
    /\ rec' = [rec EXCEPT !.picked = None, !.pc = AfterCreate[@], !.missing = Less(@, 1)]
    /\ NotTheLoops
    /\ UNCHANGED <<dockerVars, scalingVars, snap, drained, budgetVars>>

(***************************************************************************)
(* scaleDownService.                                                       *)
(***************************************************************************)

(* sortTasksForScaleDown: u comes before t.  The daemon services' order,   *)
(* by CreatedAt, is left open.                                             *)
IsPreferred(r) == Zone[r.node] \in PreferredZones[rec.svc]
Precedes(u, t) ==
    \/ ServiceType[rec.svc] = "stateless" /\ NodeOrder[snap[u].node] > NodeOrder[snap[t].node]
    \/ ServiceType[rec.svc] = "stateful" /\ IsPreferred(snap[u]) /\ ~IsPreferred(snap[t])

(* canStopTask.  The copy already shows the tasks this call has stopped,   *)
(* and their number is subtracted once more.  The configuration loader     *)
(* gives every service scheduling constraints, if only empty ones.         *)
OnItsNode(t) == {u \in RunningCopies(rec.svc) : snap[u].node = snap[t].node}
InItsZone(t) == {u \in RunningCopies(rec.svc) : Zone[snap[u].node] = Zone[snap[t].node]}

(* Mutant: the last task on the node may go. *)
LeavesNode(t) == Cardinality(OnItsNode(t)) - rec.stopped > 0
NotLastOnNode(t) == Cardinality(OnItsNode(t)) - rec.stopped > 1

NotLastInZone(t) == Cardinality(InItsZone(t) \ {t}) - rec.stopped > 0

(* Mutant: the task that is about to stop still counts. *)
CountsItself(s) == Cardinality(RunningCopies(s)) - rec.stopped >= MinReplicas[s]
EnoughRemain(s) == Cardinality(RunningCopies(s)) - rec.stopped - 1 >= MinReplicas[s]

canStopTask(t) ==
    /\ ServiceType[rec.svc] = "daemon" => NotLastOnNode(t)
    /\ ServiceType[rec.svc] = "stateful" => NotLastInZone(t)
    /\ EnoughRemain(rec.svc)

NextToStop(t) ==
    /\ At("scaleDown") /\ rec.cur = None
    /\ t \in rec.queue /\ rec.stopped < rec.excess
    /\ \A u \in rec.queue : ~Precedes(u, t)

ScaleDownSkip(t) ==
    /\ NextToStop(t) /\ ~canStopTask(t)
    /\ rec' = [rec EXCEPT !.queue = @ \ {t}]
    /\ OnlyTheLoop /\ UNCHANGED <<snap, drained, scalingVars>>

(* The desired state is written with the status the copy has. *)
ScaleDownDesire(t) ==
    /\ NextToStop(t) /\ canStopTask(t)
    /\ snap' = [snap EXCEPT ![t].desired = "stopped"]
    /\ Update(t, snap'[t])
    /\ rec' = [rec EXCEPT !.queue = @ \ {t}, !.cur = t,
                          !.pc = IF snap[t].container THEN "scaleDownStop" ELSE "scaleDownRelease"]
    /\ NotTheLoops
    /\ UNCHANGED <<dockerVars, executorVars, reserved, doubled, scalingVars, drained, budgetVars,
                   schedulerVars>>

ScaleDownRelease ==
    /\ At("scaleDownRelease")
    /\ Release(rec.cur, snap[rec.cur])
    /\ Goto("scaleDownMark")
    /\ NotTheLoops
    /\ UNCHANGED <<storeVars, dockerVars, executorVars, scalingVars, snap, drained, budgetVars>>

ScaleDownMark ==
    /\ At("scaleDownMark")
    /\ snap' = [snap EXCEPT ![rec.cur] = Retired(@)]
    /\ Update(rec.cur, Retired(snap[rec.cur]))
    /\ rec' = [rec EXCEPT !.pc = "scaleDown", !.cur = None, !.stopped = @ + 1]
    /\ NotTheLoops
    /\ UNCHANGED <<dockerVars, executorVars, reserved, doubled, scalingVars, drained, budgetVars,
                   schedulerVars>>

(***************************************************************************)
(* Taking a container down, in all three handlers: stop, then remove.      *)
(***************************************************************************)
(* Mutant: a restarted task's container is stopped and never removed. *)
StopsOnly == [evacuateStop |-> "evacuateRemove", restartStop |-> "restartCreate",
              scaleDownStop |-> "scaleDownRemove"]

Stopping == [evacuateStop |-> "evacuateRemove", restartStop |-> "restartRemove",
             scaleDownStop |-> "scaleDownRemove"]
Removing == [evacuateRemove |-> "evacuateMark", restartRemove |-> "restartCreate",
             scaleDownRemove |-> "scaleDownRelease"]

TakeDown ==
    /\ \/ rec.pc \in DOMAIN Stopping /\ StopContainer(rec.cur) /\ Goto(Stopping[rec.pc])
       \/ /\ rec.pc \in DOMAIN Removing /\ RemoveContainer(rec.cur)
          /\ rec' = [rec EXCEPT !.pc = Removing[@],
                                !.cur = IF At("restartRemove") THEN None ELSE @]
    /\ NotTheLoops
    /\ UNCHANGED <<storeVars, executorVars, reserved, doubled, scalingVars, snap, drained,
                   schedulerVars>>

(***************************************************************************)
(* applyPredictiveScaling, once the replicas are seen to.  The load and    *)
(* its prediction are anything.                                            *)
(***************************************************************************)
ScalingDone ==
    \/ At("scaleUp") /\ rec.missing = 0
    \/ At("scaleDown") /\ rec.cur = None /\ (rec.queue = {} \/ rec.stopped >= rec.excess)

Predicting ==
    /\ ScalingDone /\ rec.scaling = "replicas"
    /\ rec.svc \in Predictive \cap measured

(* Mutant: the cooldown is started but not looked at. *)
WithinCooldown(scaleFactor) ==
    /\ Predicting /\ replicas[rec.svc] < MaxReplicas[rec.svc]
    /\ cooling' = cooling \cup {rec.svc}
    /\ replicas' = [replicas EXCEPT ![rec.svc] = AtMost(@ + scaleFactor, MaxReplicas[rec.svc])]
    /\ rec' = [rec EXCEPT !.pc = "scaleUp", !.scaling = "predictive", !.missing = scaleFactor,
                          !.queue = {}]
    /\ OnlyTheLoop /\ UNCHANGED <<snap, drained, measured>>

(* performScaleUp: as many tasks as the load asks for are created, also    *)
(* when fewer are left to the maximum.                                     *)
performScaleUp(scaleFactor) ==
    /\ Predicting /\ replicas[rec.svc] < MaxReplicas[rec.svc] /\ rec.svc \notin cooling
    /\ cooling' = cooling \cup {rec.svc}
    /\ replicas' = [replicas EXCEPT ![rec.svc] = AtMost(@ + scaleFactor, MaxReplicas[rec.svc])]
    /\ rec' = [rec EXCEPT !.pc = "scaleUp", !.scaling = "predictive", !.missing = scaleFactor,
                          !.queue = {}]
    /\ OnlyTheLoop /\ UNCHANGED <<snap, drained, measured>>

(* performScaleDown: one task fewer, from a fresh copy of the service. *)
performScaleDown ==
    /\ Predicting /\ replicas[rec.svc] > MinReplicas[rec.svc] /\ rec.svc \notin cooling
    /\ cooling' = cooling \cup {rec.svc}
    /\ replicas' = [replicas EXCEPT ![rec.svc] = @ - 1]
    /\ snap' = [t \in Tasks |-> IF tasks[t].service = rec.svc /\ ~Done(tasks[t]) THEN tasks[t]
                                ELSE IF snap[t].service = rec.svc THEN Absent ELSE snap[t]]
    /\ rec' = [rec EXCEPT !.pc = "scaleDown", !.scaling = "predictive", !.stopped = 0,
                          !.excess = 1,
                          !.queue = {t \in Tasks : tasks[t].service = rec.svc
                                                      /\ tasks[t].status = "running"}]
    /\ OnlyTheLoop /\ UNCHANGED <<drained, measured>>

(* Nothing (more) to scale: the next service. *)
ServiceDone ==
    /\ ScalingDone /\ ToNextService(rec.servicesLeft)
    /\ OnlyTheLoop /\ UNCHANGED <<drained, scalingVars>>

Reconcile ==
    \/ StartPass \/ EvacuateMark \/ EvacuateDone \/ DrainDone
    \/ \E n \in Nodes : DrainNode(n)
    \/ \E t \in Tasks : EvacuateRelease(t) \/ RestartIncrement(t)
                           \/ ScaleDownSkip(t) \/ ScaleDownDesire(t)
    \/ RestartRelease \/ RestartMark \/ Scale \/ SelectNode \/ LaunchPicked
    \/ ScaleDownRelease \/ ScaleDownMark \/ TakeDown
    \/ \E f \in 1..3 : performScaleUp(f)
    \/ performScaleDown \/ ServiceDone

(***************************************************************************)
(* The health check loop.                                                  *)
(***************************************************************************)
ToCheck == {t \in Tasks : seen[t] # Absent}
OnlyHealth == UNCHANGED <<dockerVars, executorVars, scalingVars, reconcileVars, boot, drains>>

(* ListByStatus(running); tasks without a health check are skipped. *)
HealthList ==
    /\ health.pc = "check" /\ ToCheck = {}
    /\ seen' = Copied({t \in Tasks : tasks[t].status = "running"
                                        /\ tasks[t].service \in HealthChecked})
    /\ OnlyHealth /\ UNCHANGED <<health, storeVars, reserved, doubled, faults, schedulerVars>>

(* GetConatinerStatus and CheckContainerHealth.  Only a container that has *)
(* exited, or that fails the health check of its own image, is unhealthy:  *)
(* the configured check reports a failure as an error, and on an error, as *)
(* when the container is gone or the daemon does not answer, the task is   *)
(* left alone.                                                             *)
HealthCheck(t) ==
    /\ health.pc = "check" /\ t \in ToCheck
    /\ \/ /\ \/ container[t] = "down" /\ NoFault
             \/ container[t] = "up" /\ Fault("sick")
          /\ health' = [pc |-> "fail", cur |-> t]
          /\ UNCHANGED seen
       \/ /\ \/ container[t] # "down" /\ NoFault
             \/ container[t] = "down" /\ Fault("inspect")
          /\ seen' = [seen EXCEPT ![t] = Absent]
          /\ UNCHANGED health
    /\ OnlyHealth /\ UNCHANGED <<storeVars, reserved, doubled, schedulerVars>>

(* Mutant: only the copy of the task is changed. *)
FailsCopyOnly ==
    /\ health.pc = "fail" /\ health' = [health EXCEPT !.pc = "release"]
    /\ OnlyHealth /\ UNCHANGED <<storeVars, reserved, doubled, seen, faults, schedulerVars>>

HealthFail ==
    /\ health.pc = "fail" /\ health' = [health EXCEPT !.pc = "release"]
    /\ Update(health.cur, [seen[health.cur] EXCEPT !.status = "failed"])
    /\ OnlyHealth /\ UNCHANGED <<reserved, doubled, seen, faults, schedulerVars>>

HealthRelease ==
    /\ health.pc = "release"
    /\ Release(health.cur, seen[health.cur])
    /\ seen' = [seen EXCEPT ![health.cur] = Absent]
    /\ health' = [pc |-> "check", cur |-> None]
    /\ OnlyHealth /\ UNCHANGED <<storeVars, faults>>

Health == HealthList \/ HealthFail \/ HealthRelease \/ \E t \in Tasks : HealthCheck(t)

(***************************************************************************)
(* What happens around the program.                                        *)
(***************************************************************************)

(* A container exits, or is removed behind the orchestrator's back. *)
ContainerLost(t) ==
    /\ container[t] = "up"
    /\ \/ Fault("exit") /\ container' = [container EXCEPT ![t] = "down"]
       \/ Fault("vanish") /\ container' = [container EXCEPT ![t] = "none"]
    /\ UNCHANGED <<storeVars, abandoned, executorVars, reserved, doubled, scalingVars,
                   reconcileVars,
                   healthVars, boot, drains, schedulerVars>>

(* PUT /nodes/{id}/drain and PUT /nodes/{id}/activate. *)
SetNodeStatus(n, status) ==
    /\ nodeStatus[n] # status /\ drains < MaxDrains
    /\ UpdateNodeStatus(n, status)
    /\ drains' = drains + 1
    /\ UNCHANGED <<storeVars, dockerVars, executorVars, reserved, doubled, scalingVars,
                   reconcileVars,
                   healthVars, boot, faults>>

(* CooldownSeconds have passed since the last scaling of s. *)
CooldownOver(s) ==
    /\ s \in cooling /\ cooling' = cooling \ {s}
    /\ UNCHANGED <<storeVars, dockerVars, executorVars, reserved, doubled, replicas, measured,
                   reconcileVars, healthVars, boot, budgetVars, schedulerVars>>

Environment ==
    \/ \E t \in Tasks : ContainerLost(t)
    \/ \E n \in Nodes, status \in {"ready", "draining"} : SetNodeStatus(n, status)
    \/ \E s \in Services : CooldownOver(s)

Next ==
    \/ Boot \/ Reconcile \/ Health \/ Environment
    \/ \E t \in Tasks : Executor(t)

Spec == Init /\ [][Next]_vars

(* The tickers keep the two loops coming back, and a goroutine that can go *)
(* on does; nothing makes a container fail or an operator drain a node.    *)
Fairness ==
    /\ WF_vars(Boot) /\ WF_vars(Reconcile) /\ WF_vars(Health)
    /\ \A t \in Tasks : WF_vars(Executor(t))
    /\ \A s \in Services : WF_vars(CooldownOver(s))

FairSpec == Spec /\ Fairness
==============================================================================
