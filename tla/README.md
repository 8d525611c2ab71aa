# A verification project for gorchester

TLA+ models of the orchestrator, their TLC runs, and TLAPS proofs.  Line
numbers without a file are lines of `src/internal/core/orchestrator.go`.

## 1. The system

One Go process drives one Docker daemon.  It keeps everything in memory;
nothing survives a restart.

| Part | State | Operations | Talks to |
| :-- | :-- | :-- | :-- |
| Task store (`store/memory.go`) | a map of tasks, four indices, a `RWMutex` | create, update, delete, lists, counts | called by everybody; hands out and takes in deep copies |
| Scheduler (`scheduler/scheduler.go`) | nodes with status, used CPU and memory, task count, last heartbeat; round-robin indices | select and reserve, release, drain/activate, register, heartbeat, remove the inactive | called by the orchestrator and the API |
| Adaptive placement (`scheduler/adaptive.go`) | none | choice by service type and affinity | nobody calls it |
| Orchestrator (`core/orchestrator.go`) | service configurations (with the replica counts that predictive scaling changes), time of the last scaling, contexts | `Start`, `Stop`, `initServices`, `reconcile`, `executeTask`, `checkHealth`, `cleanup` | store, scheduler, daemon, metrics |
| Docker client (`client/`) | none | create, start, stop, remove, inspect, run checks, pull | the daemon |
| Metrics (`metrics/collector.go`) | a ring buffer per service | collect, history, averages | daemon, reconcile loop |
| API (`api/api.go`) | none | lists; drain and activate a node; change the strategy | scheduler, store |
| Configuration (`config/config.go`), validator | none | defaults, validation, printing | `main` |

Concurrency: `Start` launches the reconcile loop, the health check loop and the
cleanup loop and *then* runs `initServices` itself; every task created starts a
goroutine `executeTask`; API handlers run whenever a request comes.  They share
the store, the scheduler's nodes and the daemon.  Each call of the store or the
scheduler is atomic, sequences of calls are not, and almost everything is done
from copies: a pass of `reconcile` works from a copy of all the tasks that is
minutes old by its end.  Nothing the daemon refuses is retried.

What makes each part correct:

* **store** – the indices agree with the map; readers do not write; it behaves
  like a plain map with atomic operations;
* **scheduler** – a node is not given more than it has; a release undoes one
  reservation; the choice is among ready nodes with the room;
* **orchestrator** – reservations and containers belong to wanted tasks and are
  given back or removed exactly when a task is given up; an executor and the
  loops do not overwrite each other; scale down keeps what the policy promises;
  passes end; failed tasks are restarted and drained nodes emptied;
* **life cycle** – a second `Start` does not double the loops; while the
  orchestrator is stopped nothing new comes up, what runs comes to its end, and
  every container belongs to a record or is known to be left behind;
* **heartbeats** – a node stays while its worker beats and goes when it does
  not; no worker is left behind; what is placed on a node that has gone does not
  spoil the counts of the one that comes back;
* **prediction** – the forecast is the line it claims to be; scaling stays
  within or approaches the policy, does not stop a container whose work the
  others cannot take over, and answers an overload;
* **configuration** – what validation lets through means what the orchestrator
  does with it.

The hazards are listed, each at its line, in `PROJECT.json`.

## 2. Modules

| Module | What it is |
| :-- | :-- |
| `TaskRecords` | the records of the store |
| `TaskStore` | abstract store: a map; every query is a filter |
| `MemoryTaskStore` | `memory.go`: the map and the indices; shown to implement `TaskStore` |
| `MCMemoryTaskStore` | its instance for TLC |
| `MemoryTaskStoreProofs` | its theorems |
| `Scheduler` | the node pool: nodes, resources, the strategies |
| `Orchestrator` | the goroutines over the store, `Scheduler` and the daemon |
| `OrchestratorProperties` | its properties and its inductive invariant |
| `MCOrchestrator` | the instances for TLC |
| `OrchestratorProofs` | its theorems about tasks, nodes, replicas and passes; every service's scaling shown to implement `ReplicaScaling` |
| `OrchestratorContainerProofs` | its theorems about containers |
| `OrchestratorScalingProofs` | its theorems about scale down |
| `NodeRegistry`, `NodeRegistryProofs` | nodes and heartbeats, `Stop` of the scheduler |
| `LifeCycle`, `LifeCycleProofs` | `Start` and `Stop` of the orchestrator, the process |
| `Configuration` | defaults and validation of a scale policy |
| `ReplicaScaling` | abstract predictive scaling: what it may do to a replica count |
| `Autoscaling` | the samples, the forecast and the decision; shown to implement `ReplicaScaling` |
| `MCAutoscaling`, `AutoscalingProofs` | its instance for TLC, its theorems |
| `FiniteSums` | lemmas about sums over finite sets, for the forecast and for what the tasks on a node hold |

`Orchestrator` composes `Scheduler` (by `EXTENDS`) and the abstract store.
`NodeRegistry`, `LifeCycle` and `Autoscaling` look closer at what `Orchestrator`
takes as given: that the nodes stay, that it is started once and never stopped,
and that the load may ask predictive scaling for anything.  `Orchestrator`, per
service, and `Autoscaling` implement the same `ReplicaScaling`: what
`Orchestrator` leaves open of the load is what `Autoscaling` fills in.

### The store

State: `tasks` (the Go map; an absent key is `NoTask`), `byContainerID`,
`byNodeID`, `byServiceName`, `byStatus`, and `reply`, what the last call
returned.  One action per method; the mutex makes each one step.  Index
maintenance is translated as written: `updateIndices` on create,
`updateIndicesWithOldValues` and `updateStatusIndex` on update (which compare
old and new values), `removeFromIndices` on delete.  `GetByContainerID` keeps
the `delete` it does under the read lock.  A container ID belongs to one task
(`ContainersAssumption`): Docker's IDs are unique.

### The orchestrator

An action is one access to shared state with the local work up to the next
access, so any goroutine may come between two accesses of another.  The store
is the plain map which the store's refinement justifies.

| Code | Actions |
| :-- | :-- |
| `initServices` (218–255) | `BootService`, `BootSelect`, `BootLaunch` |
| `createServiceTask` (334–389) | `SelectNode`, `LaunchPicked` for the reconcile loop, `BootSelect`, `BootLaunch` for start-up; both `Launch` |
| `executeTask` (392–463) | `ExecStarting`, `ExecCreateContainer`, `ExecRunning`, or `ExecFailed`, `ExecRelease` |
| `reconcile`, list and metrics (489–503) | `StartPass` |
| draining (505–571) | `DrainNode`, `EvacuateRelease`, `TakeDown`, `EvacuateMark`, creation, `EvacuateDone`, `DrainDone` |
| restarts (597–659) | `RestartIncrement`, `RestartRelease`, `RestartMark`, `TakeDown`, creation |
| scaling (661–696) | `Scale`, then creation, or `ScaleDownSkip`, `ScaleDownDesire`, `TakeDown`, `ScaleDownRelease`, `ScaleDownMark` |
| predictive scaling (1022–1265) | `performScaleUp`, `performScaleDown` |
| `checkHealth` (1394–1481) | `HealthList`, `HealthCheck`, `HealthFail`, `HealthRelease` |
| `PUT /nodes/{id}/drain`, `/activate` | `SetNodeStatus` |
| the daemon | `ContainerLost`, and failures of its calls (`Fault`) |

State: the store (`tasks`), the daemon (`container`, and `abandoned`, the
containers it refused to remove), each executor's program counter and task
object (`phase`, `mine`), the nodes (`nodeStatus`, `used`, `taskCount`), the
replica counts and cooldowns, and per goroutine its registers and the copies it
works from (`rec`, `snap`, `drained`; `health`, `seen`; `boot`).  Two variables are
history: `reserved`, the tasks whose reservation no handler has released, and
`doubled`, the nodes on which a task has been released that held nothing any more.

The second kind of release is regular: a task that failed is released by its executor
(443) or by the health check (1441, 1470), and again by its restart (615).
`ReleaseNodeResources` subtracts each time and stops at zero, so the counters of such
a node run low for ever.  Properties of the counters therefore say what holds on
every node and what holds on those that are not `doubled`.

Abstractions, besides formatting and logging:

* CPU and memory are one resource, of which a task has the same share of both.
  The overcommit factor is 1.0, which is what `DefaultConfig` sets.
* A container ID is "there is one": it is the container made for the task.
* The load and its prediction are anything; a scale factor is 1, 2 or 3.  How
  long the metrics history must be (5 points) is left out, that there must be
  one is not.
* A configured health check that fails is reported as an error and changes
  nothing (`docker_client.go` 332–416), so only an exited container and the
  verdict of the image's own health check ("sick") make a task fail.  A
  container that the daemon restarts by itself under its restart policy is up
  again for whoever looks and is left out.
* The configuration does not change while the program runs, so
  `cleanupOrphanedTasks` finds nothing.  `max_replicas` is not negative.
* A task stopped for good is only ever counted again; its record forgets node
  and container (`Retired`), and its ID may be used for a new UUID once nobody
  holds a copy of it (`Fresh`).  While `initServices` still counts a service's
  tasks, records are kept.
* `wait` and sleep are the freedom of the others to run.  The order of the
  tasks in a list is open (the store returns them in map order).

### Nodes and heartbeats

`NodeRegistry` has one action per critical section of `scheduler.go`; `s.mu` and
`heartbeatMu` are different locks, and `cleanupInactiveNodes` leaves the second
to a goroutine (line 212).  One exception: `updateNodeResources` and
`ReleaseNodeResources` look the node up under `s.mu` and change it later under the
node's own mutex, and are one step here.  A node that leaves in between is changed
after it has left `s.nodes`, where nobody sees it: what is left is as if the call
had found the node gone.

| Code (`scheduler.go`) | Actions |
| :-- | :-- |
| heartbeat worker (612–642, 656–670) | `Heartbeat`, `WorkerReturns` |
| `cleanupLoop`, `cleanupInactiveNodes` (184–215) | `cleanupInactiveNodes`, `StopOldWorker`, `CleanerReturns` |
| `RegisterNode`, `UnregisterNode`, `UpdateNodeStatus` | the same |
| `SelectNode`, `updateNodeResources`, `ReleaseNodeResources` | `ChooseNode`, `Reserve`, `ReleaseNodeResources` |
| `Stop` (148–181), called twice by `main` | `StopClears`, `StopCancels`, `StopReturns`, `StopAgain` |
| time; the process suspended | `Tick`, `Suspended` |

State: the keys of `s.nodes` (`registered`) and of `heartbeatWorkers` (`workers`),
the age of `LastSeen` in ticks of 10 s (`silence`), the counters of a node as one
(`taskCount`), the goroutines (`beating`, `collected`, `cancelled`, `toStop`,
`cleaner`), how far `Stop` is, and per task how far its reservation is: `none`,
`chosen`, `placed`, `released`.  A released task may be released again, as the program
does, until it is forgotten (`Forget`); `doubled` is as in `Orchestrator`.
`RegisterNode` and `UnregisterNode` belong to the interface of the scheduler;
the program itself does not call them, so what the module says of nodes that come
back is said of the interface and not of gorchester as it is started today.  Nor does
`main` call `Start` a second time, which `LifeCycle` allows for the same reason.

### The life cycle

`LifeCycle` numbers the contexts: every `Start` makes a new one, and `o.ctx` is the
latest.  This matters because loops (475, 1384) and passes (486, 1395) read
`o.ctx` each time, so a loop that `Stop` did not wait for goes on under the
context of the next `Start`.

| Code | Actions |
| :-- | :-- |
| `Start` (150–181) | `Start`, `InitDone` |
| `Stop` (184–210) | `Stop`, then `StopReturns` or `StopTimesOut`; `WaitReturns`, `WaitPanics` of its goroutine |
| the loops (466–482, 1375–1391, 1484–1500) | `PassBegins`, `PassEnds`, `LoopEnds` |
| `executeTask` (392–463) and `CreateContainer` | `CreateTask`, `ExecBegin`, `ExecRequest`, `ExecAnswer`, `ExecRecord` |
| what a pass does to a task | `TakeDown`, `HealthFails` |
| `main` | `Exit`: everything is forgotten but the containers |

The store and `ReleaseNodeResources` do not look at the context; the daemon's
client and `GetNodes` do.  A request that is cancelled on its way may have been
carried out, so `ExecAnswer` leaves any container behind.  The passes are cut down
to what depends on the context; their steps are in `Orchestrator`, which is also
where calls fail under a live context.  `initServices` runs under a context of its
own and cannot fail (the store's lists do not), so the branch 168–174 is not taken.

### Predictive scaling

`Configuration` translates the defaults and the validation of a policy's numbers.
A zero in a file is also what is absent, so `min_replicas` is 0 when it is
not given.  `Autoscaling` starts from a policy that was `Loaded` and models one
service (services are scaled one after another and share nothing here):

| Code | Definitions |
| :-- | :-- |
| `collectMetrics` (258–331), `MetricsStore` | `StartPass`, `CollectMetrics`, `CollectFails`, `StoreMetrics`, `Current` |
| `predictCPU`, `predictMemory` (1293–1372) | `Regression` (`Lines` is its table), `Predicted` |
| conditions and factor (1075–1153, 1268–1290) | `checkScaleUpConditions`, `checkScaleDownConditions`, `calculateScaleFactor` |
| `calculateDesiredReplicas` and the scaling of `reconcile` | `ReconcileReplicas` |
| `scaleDownService`, `canStopTask` (775–953) | `scaleDownService` |
| `performScaleUp`, `performScaleDown`, neither | the same, `NoScaling` |

The load is in a loop with the scaling.  A `demand` is, per measure, what each
container needs for itself and what the containers share, and a sample of one of `k`
containers (`Sample`) is the first plus a `k`-th of the second, so that the samples
fall when a container is added and rise when one is stopped.  `demand` changes at any
time (`DemandChanges`).  The nodes have the resources for `Room` containers.

Averages and forecasts are fractions, compared by multiplying out, so rounding
of `float64` is left out.  Time is the freedom of `fresh` (how many samples are
younger than a minute) and of `CooldownEnds`.  The tasks are a number of running
containers of a stateless service: creation may end early for want of room, and
stopping may end early because `canStopTask` subtracts the stopped tasks from a count
that does not hold them any more (938).

## 3. Runs

| Run | Instance | Shows |
| :-- | :-- | :-- |
| `task_store` | 2 tasks, containers, nodes; 1 service; 2 statuses | types, indices, readers, refinement |
| `failures` | 1 node, 3 tasks, a stateful service of up to 2 replicas, 2 failures of 7 kinds | no reservation or container is lost whatever fails |
| `drain` | 2 nodes, 3 tasks, daemon service with predictive scaling between 1 and 2, 1 drain or activation | the same while nodes are drained and activated; the tasks on a node hold at most one request too many; scale down leaves a node its last task; the replicas change as `ReplicaScaling` allows: within the policy, one down at a time, not within a cooldown; every step of a pass brings it nearer to its end |
| `recovery` | 1 node, 3 tasks, 1 exit, round_robin, fair | exits noticed, failed tasks restarted, the service comes back, passes end |
| `evacuation` | 2 nodes with room for 1, 3 tasks, 2 drains or activations, fair | a drained node is emptied; scale down goes below `min_replicas` by no more than the tasks its copy has outdated |
| `node_registry` | 1 node, 2 tasks, timeout of 3 ticks, heartbeats up to 2 late, 2 registrations, 1 suspension, tasks released once or twice, fair | counts, workers and removal of nodes that come and go, and the end of everything after `Stop` |
| `life_cycle` | the two working loops, 1 task, 2 starts, 1 end of the process, fair | what survives `Stop`, its timeout, a second `Start` and the process |
| `autoscaling` | 6 policies (5 pass the validation), 2 demands (one shared by the containers, one mostly of each), room for 3 containers, 4 samples kept, 2 needed, 3 looked at, fair | forecast, policy, refinement, room after a scale down, answer to overload |
| `overcommit` | 1 failed creation | *violated*: the tasks on a node hold more than it offers |
| `restart_count` | 1 failed creation | *violated*: the restart counter goes back |
| `max_replicas` | 4 tasks, slow start | *violated*: more tasks than `max_replicas` |
| `vanished` | 1 vanished container, fair | *violated*: it is never noticed |

Bounds.  `MaxFaults` counts failures and `MaxDrains` the operator's calls; both
only guard what the environment does, never the program.  Two failures are
enough for a failure and another during its recovery.  `Tasks` bounds the
tasks that exist at the same time: with the IDs of tasks stopped for good used
again, three or four leave a creator waiting only when more tasks are in work
than a service of two replicas and a replacement needs.  One service is enough
for what is asked here, since `reconcile` treats services one after another and
shares only nodes between them.  TLC's symmetry over task IDs is used in the
runs of safety properties only.

`MaxRegistrations` and `MaxPauses` of `NodeRegistry` bound its environment: two
registrations are a node that comes back twice, the second time around the
goroutine that stops its first worker.  Nodes share only the cleanup loop and
`Stop`, so one is enough, and two tasks are one placed before and one after it
left.  `MaxStarts` of `LifeCycle` is 2: one `Stop` that gave up and a `Start`
after it; the third loop, `cleanup`, does nothing to tasks and is left to the
proofs, which hold for any loops and any number of starts.  `MaxSize`,
`MinHistory` and `Recent` of `Autoscaling` are 4, 2 and 3 for 1000, 5 and 10: in
the same order, so that each is the limit at some time.  `Room` is 3: enough for a
service to go from one replica to two and to three and back, under policies with a
maximum of 3 and of 2.  Its two demands are 75 percent of
cpu and 76 of memory shared by all (which one container can do below the thresholds of
80 and two do at less than half of them), and one of which each container has
95 percent of cpu whatever their number.

Deadlock is checked in every run but `life_cycle` (an orchestrator that is
stopped, with its loops ended and its starts used up, does stop).

Fairness (`FairSpec`): weak fairness of start-up, of each loop, of each executor
and of the end of a cooldown.  Tickers keep the loops coming (1375–1391 and
466–482), a Go goroutine that can go on does, a cooldown is time.  Nothing is
assumed of failures, of drains, or of the order in which goroutines run.
In `NodeRegistry`: time passes, tickers tick, goroutines that can go on do;
nobody has to register, place or stop anything.  In `LifeCycle`: passes and calls
come to an end, and strong fairness of `LoopEnds`, as Go's `select` chooses among
the ready channels at random and so does not take the ticker for ever.  In
`Autoscaling`: passes and cooldowns, and strong fairness of `CollectMetrics`:
statistics that are asked for again and again are given again.

What the violated runs show is quoted against the documentation in
`PROJECT.json`.  Two of them need a word:

* `max_replicas`: current replicas are the running and the pending tasks (662).
  A task is pending only until its goroutine runs; while its image is pulled it
  is starting and counts for nothing, so each pass creates the missing ones
  again.  A later pass scales down.

* `overcommit`: `DefaultConfig` says "no overcommit" (`scheduler.go` 55).  A creation
  fails, the restart releases the task (615), the executor releases it too (443), and
  the second release gives away the place of the other task.  The counters themselves
  never exceed the capacity by more than one request, so it is the *tasks* that
  `NoOvercommit` and `OvercommitBounded` count (`Held`, the sum of their requests).

One more bound is due to a race: `SelectNode` reads the free resources and reserves in
separate critical sections (`scheduler.go` 230 and 263), so start-up and the reconcile
loop may choose the last place of a node both.  `OvercommitBounded` says that on a node
where nothing was released twice this is one request at most.

Scale down decides on the copy of line 490 after the same pass has evacuated a node, so
it may stop the last task that serves.  `MinReplicasButForOutdated` says how far below
`min_replicas` it goes: by the tasks of its copy that do not run any more.  The run
`evacuation` reaches that case: without the exception the property is violated there.

Two more things that no property denies:

* A steady demand may be answered up and down in turn.  With thresholds of 80, one
  replica at 75 and 76 percent is near enough to them on average to scale up; two
  replicas at 37 and 38 are below half of both, and one of them is stopped.  Nothing in the
  documentation promises otherwise.  What does hold is that scaling down on current
  samples leaves every measure within its threshold (`ScaleDownLeavesRoom`), since the
  margin of one half is enough for one container less; after a change of demand, or
  while samples of more containers than there are now are still in the average, it
  may overload those that remain.
* `performScaleUp` creates as many tasks as the scale factor says (1202), also when
  fewer are left to `max_replicas`; only the replica count is cut (1182).  The next
  pass stops the surplus.

What the properties of the newer modules leave open on purpose:

* A node that returns starts from zero, and releases made while it was gone are
  lost, and a repeated release takes away from the others, so a node may count too
  *few* tasks; never too many, and not too few if it stayed and nothing was released
  twice there (`CountsAreSafe`).
* After a suspension of the process the cleanup loop may be faster than the
  workers, and removes nodes that are alive; nothing registers them again
  (`BeatingNodesStay` excepts them).
* A `Stop` that gave up leaves loops that run beside those of the next `Start`,
  and its waiting goroutine may panic ("WaitGroup is reused before previous
  `Wait` has returned"); `OnlyTimeoutsPanic` says that nothing else leads there.
* Containers of a former process and of cancelled calls are left behind
  (`ContainersAccounted` names them); nobody looks for them.
* `src/README.md` 129 gives `min_replicas` the default 1; the code leaves it 0
  (`config.go` 241 looks for negative values only).  Such a service may be
  scaled to nothing; then there are no samples, and no load scales it up again.
  `OverloadIsAnswered` asks for `min_replicas > 0`.
* `lookback_window` (`src/README.md` 141) is validated and never used; the
  forecast takes a sample for ten seconds although each container gives one.
* Only services with a `health_check` are looked at by `checkHealth`: a container of
  another service that exits is never noticed, and `ExitsAreNoticed` and `Recovers` leave
  them out.
* The configured replicas may lie outside of the policy; hence
  `ScalingApproachesPolicy` and not that the count is always within it.

## 4. Proofs

`MemoryTaskStoreProofs` proves for every set of tasks, containers, nodes,
services and statuses that the store is well typed (`TypeCorrect`), that its
indices agree with its map (`IndicesCorrect`), that readers do not write
(`ReadersSafe`) and that it implements `TaskStore` (`StoreRefinement`).  The
inductive invariant is `TypeOK /\ IndicesAgree`: each writer moves a task from
the buckets of its old values to those of its new ones, which is right only
because it was in no other bucket before.

`OrchestratorProofs` proves for every finite set of nodes and tasks,
any services, policies, strategies, failures and bounds, under the assumptions
that `Scheduler` and `Orchestrator` name (quantities are natural numbers, `None` is
none of the others, `Nodes`, `Tasks` and `Services` are finite):

| Theorem | Property | |
| :-- | :-- | :-- |
| `TypeCorrect` | `TypeOK` | no count falls below zero |
| `NoCapacityIsLost` | `NothingLeaks` | a node counts at most the standing reservations, and exactly these if no task was released twice there |
| `ReservationsAreWanted` | `ReservedAreWanted` | nobody forgets a release |
| `OvercommitIsBounded` | `OvercommitBounded` | what the tasks hold and creators have chosen is at most one request too many, if no task was released twice there |
| `ExecutorLosesNothing` | `ExecutorOwnsRecord` | `executeTask` overwrites nobody's change |
| `ReplicasStayInPolicy` | `ReplicasInPolicy` (in no run, `EachScalesAsAllowed` says more) | predictive scaling respects the policy |
| `EachServiceScales` | `EachScalesAsAllowed` | a service is scaled as `ReplicaScaling` allows |
| `ServicesImplementReplicaScaling` | | `Spec => Scaling(s)!Spec`, for every service `s` |
| `PassesGetShorter` | `PassesShrink` | a step of a pass leaves less of it |
| `PassesAreFinite` | | what is left is well-founded |

The first five are parts, or consequences, of one inductive invariant, `Inv` in
`OrchestratorProperties`.  None of them is inductive alone.  A release is made
from a copy of a task, so that it is made on the right node follows from
`RecordsPlaced` and `CopiesAgree` (copies of a reserved task name the node the
store names, and the service whose request is subtracted).  That a bound on the
counters (`CountsFit`) is a bound on what the tasks hold is `UsedIsHeld`: on a node that
is not `doubled`, `used` is the sum of the requests of the tasks that hold a place
there.  `FiniteSums` has what this needs of sums.  That no old copy undoes an executor's write follows from
`OwnedAreLeftAlone`.  That marking a task stopped loses no reservation follows
from `RegistersSound` (the handler has released it before).  There is a lemma for
every action; most show that the step is `Careful` with every single task, from
which `CarefulSteps` gets the parts about records once and for all.

`PassesShrink` is the safety half of `PassesEnd`.  What is left of a pass is measured
in five numbers, compared from the first: whether nodes or services are at hand; how
many of them are left; the stage of the service (restarts, replicas, prediction);
how many tasks are left to evacuate, restart, create or stop; how many steps until the
next task.  That it shrinks is what the copies are good for: the lists a pass works
through are not the store's, so nothing the others do makes them longer.  The order
is well-founded, so a pass ends unless the loop stops taking steps.  (That it does not
stop is the part that needs fairness and `ENABLED`, and is checked by `recovery`.)

`OrchestratorContainerProofs` proves the two invariants about the daemon,
`RunningNamesContainer` (`RunningHaveContainers`) and `ContainersTracked`
(`NoContainerIsLost`).  The inductive invariant is `ContainersInv`, beside `Inv`:
every copy of a running task names its container, and a task has none, or one the
daemon has refused to remove, in each of the three cases where nobody would look
for it any more: before its executor has created it, when it failed without one
and is about to be restarted, and when a handler has taken it down but not yet
written so.

`OrchestratorScalingProofs` proves what `canStopTask` is for.  It decides on a copy
of the tasks that other goroutines have written to since, and subtracts what it
has stopped from a count that does not hold it any more.

| Theorem | Property | |
| :-- | :-- | :-- |
| `LastOnesStay` | `LastOnesKept` | the last task of a node or zone stays |
| `MinReplicasButForOutdatedStay` | `MinReplicasButForOutdated` | with the tasks lost since the copy, `min_replicas` remain |
| `MinReplicasStay` | `MinReplicasKept` (in no run) | undisturbed, `min_replicas` remain |

The inductive invariant `ScalingInv` adds to `Inv` that all copies of a task on
which somebody may still act agree on its service and node (`SameTask`), and that a
running task that shall not run is the one scale down has at hand
(`GivenUpAtHand`): so what the copy counts and the store still runs is there to
stay.  The first two theorems need nothing else.  The third is stated under
`Undisturbed`: no drains, and no container exits or is found sick; the daemon may
refuse any call.  It is needed: an evacuation earlier in the same pass, or a health
check beside it, makes the copy of line 490 outdated, and scale down then goes below
`min_replicas` by as many tasks as were lost, which is what the second theorem
says.  `SteadyInv` is the invariant for it.  Its core is that a stopped container
belongs to no running task but the one scale down is stopping, so that the health
check finds no other one unhealthy.  (The run of `LastOnesKept` has a daemon service; for
the zones of stateful services the theorem is all there is.  The run `failures` has a
stateful service, but does not check that property.)

`NodeRegistryProofs`, for any nodes, tasks, timeout and bounds with
`0 < MaxSilence <= HeartbeatTimeout`: `CountsStaySafe`, `WorkersAreRemembered`,
`OthersKeepTheirWorker`, `BeatingNodesAreKept` (and the types).  A node that
was never removed, and on which no task was released twice, counts exactly what is
placed on it; any other counts at most that.  A release beyond the first only makes
the counter smaller, and by no more than its excess over zero, so it stays below what
is placed; what it does to the other tasks is what `doubled` records.
A beating worker's node is never silent for longer than `MaxSilence`, which the
guard of `Tick` and the exception for suspended nodes carry through every step.

`LifeCycleProofs`, for any loops, tasks and bounds: `LoopsStayBounded`,
`NoPanicWithoutTimeout`, `ContainersAreAccounted`, `NothingStartsWhenStopped`
(and the types).  The first counts, for each kind, the loops of different
`Start`s that are alive: a `Stop` that did not give up has seen all of them end,
so only a timeout adds one.  The last needs that the context of every earlier
`Start`, and of the present one while stopped, is cancelled.

`AutoscalingProofs`, for any files, demands, room and sizes: `DesiredReplicasInPolicy`,
`PolicyIsApproached`, and `ScalingRefinement`, that `Autoscaling` implements
`ReplicaScaling`.  They rest on what the validation leaves of a policy (which is
constant) and on the factor being 1, 2 or 3, whatever the samples are.
`ForecastsAreLeastSquares` shows that the line `predictCPU` and `predictMemory`
compute solves the normal equations, for samples of any size and number: that its
determinant is positive (the squares of the distances of the places from one of
them add up to something), and that the sum of the distances, and of the weighted
distances, is a linear combination of the sums the code computes.  Both rest on the
linearity of `SumFunction`, which `FiniteSums` proves by induction.  As no prover
here takes a predicate as a parameter, the induction is over a *set*: of the subsets
of a finite set for which a claim fails, there is a smallest one.  `ScalingDownLeavesRoom` is the property of the same name for any thresholds,
demands and numbers of containers.  A current sample is of at most as many
containers as there are, so it shows at least what each has to do now; the average
of such samples is below half of the threshold; and of what `k` share, each of `k - 1`
gets at most twice as much and one (the division cuts off), which is just within the
threshold.  `TypeCorrect` of the same module is its type invariant; it and the theorems
about the history rest on `CountsOK`, that as many containers run as there is room for
and no more are asked for samples than run.

So every safety and every action property of the passing runs is stated by a
theorem.  Only model-checked: the
liveness properties (`PassesEnd`, `FailedAreRestarted`, `ExitsAreNoticed`, `Recovers`,
`DrainedNodesEmpty`, `SilentNodesGo`, `StopEndsAll`, `StoppedLoopsEnd`, `StartingEnds`,
`OverloadIsAnswered`), since neither fairness nor `ENABLED` is
within the prover's reach.

## 5. What is left

* Runs of `Orchestrator` with two services that share nodes, and with the strategy
  changed through the API while tasks are placed.
* `Orchestrator` over nodes that disappear: `NodeRegistry` shows what happens to
  the counts, but not what `reconcile` does for tasks on a removed node (it keeps
  them running, and drops the release).
* An abstract life cycle of a single task (who may bring it up, give it up and
  restart it), which the goroutines together implement task by task; `SameTask` and
  `OwnedAreLeftAlone` are what its proof would rest on.
* The safety half of the other liveness properties, as action properties that can be
  proved (`PassesShrink` is that of `PassesEnd`).

Not modelled:

* adaptive placement (`adaptive.go`): `SelectNodeAdaptive` has no caller;
* cleanup and `DeleteTask`: `cleanup` lists the tasks that are `dead`, a status that
  nobody assigns, so it never changes anything, and `DeleteTask` has no caller;
* the validator and the printing of statuses, image pulls, port bindings, the
  computation of a sample from the daemon's statistics, the bodies of the health
  checks (input and output);
* the validation of names, resources, constraints and health checks, which is a
  check of one field after another.
