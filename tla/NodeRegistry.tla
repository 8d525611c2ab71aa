---------------------------- MODULE NodeRegistry ----------------------------
(***************************************************************************)
(* The scheduler's nodes and their heartbeats (scheduler/scheduler.go):    *)
(* registration, the worker that keeps a node's LastSeen fresh, the loop   *)
(* that removes the silent nodes, the reservations that name a node which  *)
(* may be gone by the time they are made or given back, and Stop.          *)
(*                                                                         *)
(* s.mu guards the nodes, heartbeatMu the map of workers, and a step is    *)
(* what is done under one of them; cleanupInactiveNodes holds the first    *)
(* and leaves the second to a goroutine of its own, so a node may be       *)
(* registered again before its old worker is stopped.                      *)
(*                                                                         *)
(* A reservation and a release look the node up under s.mu and change it   *)
(* under the mutex of the node.  They are one step here all the same: if   *)
(* the node leaves in between, what changes is an object that is not in    *)
(* s.nodes any more, as if the call had found the node gone.               *)
(*                                                                         *)
(* A task may be released more than once: executeTask and the health check *)
(* release a failed task (orchestrator.go:443 and :1441), and the restart  *)
(* that follows releases it again (:615).                                  *)
(*                                                                         *)
(* Time is counted in ticks of the heartbeat (10 s).  A worker may be late *)
(* with a heartbeat, but not by more than MaxSilence says.                 *)
(***************************************************************************)
EXTENDS Integers, FiniteSets

CONSTANTS Nodes, Tasks, None,
          HeartbeatTimeout,   \* SchedulerConfig.HeartbeatTimeout, in ticks
          MaxSilence,         \* the longest silence of a node whose worker beats
          MaxRegistrations,   \* bound: calls of RegisterNode
          MaxPauses           \* bound: times the whole process is suspended

ASSUME TimeAssumption ==
    /\ HeartbeatTimeout \in Nat /\ MaxSilence \in Nat
    /\ 0 < MaxSilence /\ MaxSilence <= HeartbeatTimeout
ASSUME RegistryBounds == MaxRegistrations \in Nat /\ MaxPauses \in Nat
ASSUME NoneIsNoNode == None \notin Nodes
ASSUME FiniteRegistry == IsFiniteSet(Nodes) /\ IsFiniteSet(Tasks)

VARIABLES
    registered,     \* the keys of s.nodes
    silence,        \* node -> ticks since its LastSeen
    taskCount,      \* node -> TaskCount, and with it UsedCPU and UsedMemory
    workers,        \* the keys of s.heartbeatWorkers
    beating,        \* those of them whose goroutine has not returned
    collected,      \* nodes whose cancel function Stop has taken out of the map
    cancelled,      \* node -> its workers that are cancelled and have not returned
    toStop,         \* node -> goroutines that are about to stop its worker
    cleaner,        \* the cleanup loop runs
    scheduler,      \* how far Stop is
    stage, place,   \* task -> how far its reservation is, and on which node
    left,           \* history: nodes that have been removed or unregistered
    doubled,        \* history: nodes on which a task has been released once more
    hasty,          \* history: nodes registered before their old worker was stopped
    overdue,        \* history: nodes not heard of since the process was suspended
    registrations, pauses

nodeVars == <<registered, silence, taskCount, left, doubled, overdue>>
boundVars == <<registrations, pauses>>
workerVars == <<workers, beating, collected, cancelled, toStop, hasty>>
stopVars == <<cleaner, scheduler>>
taskVars == <<stage, place>>
vars == <<registered, silence, taskCount, workers, beating, collected, cancelled, toStop,
          cleaner, scheduler, stage, place, left, doubled, hasty, overdue, registrations,
          pauses>>

Zeros == [n \in Nodes |-> 0]

(* New: the nodes of the configuration, each with its worker. *)
Init ==
    /\ registered = Nodes /\ silence = Zeros /\ taskCount = Zeros
    /\ left = {} /\ doubled = {} /\ overdue = {}
    /\ workers = Nodes /\ beating = Nodes /\ collected = {}
    /\ cancelled = Zeros /\ toStop = Zeros /\ hasty = {}
    /\ cleaner = TRUE /\ scheduler = "running"
    /\ stage = [t \in Tasks |-> "none"] /\ place = [t \in Tasks |-> None]
    /\ registrations = 0 /\ pauses = 0

Returned == scheduler \in {"stopped", "timedOut"}

(* Mutant: the contexts of the goroutines do not depend on the scheduler's. *)
NeverDone == FALSE

(* The scheduler's own context, from which the workers' are derived. *)
ContextDone == scheduler \notin {"running", "cleared"}

(***************************************************************************)
(* Workers.                                                                *)
(***************************************************************************)
startHeartbeatWorker(n) ==
    /\ workers' = workers \cup {n}
    /\ beating' = IF n \in workers THEN beating ELSE beating \cup {n}

(* Mutant: the entry of the worker stays in the map. *)
KeepsEntry(n) ==
    /\ beating' = beating \ {n}
    /\ cancelled' = [cancelled EXCEPT ![n] = IF n \in beating THEN @ + 1 ELSE @]
    /\ UNCHANGED workers

stopHeartbeatWorker(n) ==
    /\ workers' = workers \ {n}
    /\ beating' = beating \ {n}
    /\ cancelled' = [cancelled EXCEPT ![n] = IF n \in beating THEN @ + 1 ELSE @]

(* LastSeen becomes now. *)
HeardOf(n) == silence' = [silence EXCEPT ![n] = 0] /\ overdue' = overdue \ {n}

sendHeartbeat(n) ==
    /\ HeardOf(n)
    /\ UNCHANGED <<registered, taskCount, left, doubled>>

(* A tick of the worker of n, or of an old one that has not yet looked at  *)
(* its context.                                                            *)
Heartbeat(n) ==
    /\ n \in registered /\ silence[n] > 0
    /\ n \in beating \cup collected \/ cancelled[n] > 0
    /\ sendHeartbeat(n)
    /\ UNCHANGED <<workerVars, stopVars, taskVars, boundVars>>

(* A worker finds its context cancelled and returns. *)
WorkerReturns(n) ==
    /\ \/ /\ cancelled[n] > 0
          /\ cancelled' = [cancelled EXCEPT ![n] = @ - 1]
          /\ UNCHANGED beating
       \/ /\ ContextDone /\ n \in beating
          /\ beating' = beating \ {n}
          /\ UNCHANGED cancelled
    /\ UNCHANGED <<nodeVars, workers, collected, toStop, hasty, stopVars, taskVars, boundVars>>

(* go s.stopHeartbeatWorker(id) comes to run. *)
StopOldWorker(n) ==
    /\ toStop[n] > 0
    /\ toStop' = [toStop EXCEPT ![n] = @ - 1]
    /\ stopHeartbeatWorker(n)
    /\ UNCHANGED <<nodeVars, collected, hasty, stopVars, taskVars, boundVars>>

(***************************************************************************)
(* Nodes come and go.                                                      *)
(***************************************************************************)

(* Mutant: the usage of the node that was there before is taken over. *)
TakesOver(n) ==
    /\ n \notin registered /\ registered' = registered \cup {n}
    /\ HeardOf(n)
    /\ UNCHANGED <<taskCount, left, doubled>>

AddNode(n) ==
    /\ n \notin registered /\ registered' = registered \cup {n}
    /\ HeardOf(n)
    /\ taskCount' = [taskCount EXCEPT ![n] = 0]
    /\ UNCHANGED <<left, doubled>>

(* Nobody registers a node once Stop has returned. *)
RegisterNode(n) ==
    /\ registrations < MaxRegistrations /\ ~Returned
    /\ registrations' = registrations + 1
    /\ AddNode(n)
    /\ startHeartbeatWorker(n)
    /\ hasty' = IF toStop[n] > 0 THEN hasty \cup {n} ELSE hasty \ {n}
    /\ UNCHANGED <<collected, cancelled, toStop, stopVars, taskVars, pauses>>

UnregisterNode(n) ==
    /\ n \in registered /\ ~Returned
    /\ stopHeartbeatWorker(n)
    /\ registered' = registered \ {n} /\ left' = left \cup {n}
    /\ UNCHANGED <<silence, taskCount, doubled, overdue, collected, toStop, hasty, stopVars,
                   taskVars,
                   boundVars>>

(* Mutant: a node is inactive as soon as it is late with a heartbeat. *)
Late == {n \in registered : silence[n] > 1}

(* Mutant: a node is not removed while it has tasks. *)
Idle == {n \in registered : silence[n] > HeartbeatTimeout /\ taskCount[n] = 0}

Inactive == {n \in registered : silence[n] > HeartbeatTimeout}

(* Mutant: the workers of the removed nodes are not stopped. *)
RemovesNodesOnly ==
    /\ cleaner /\ Inactive # {}
    /\ registered' = registered \ Inactive /\ left' = left \cup Inactive
    /\ UNCHANGED <<silence, taskCount, doubled, overdue, workerVars, stopVars, taskVars, boundVars>>

(* One pass of the cleanup loop; it may come once more although the        *)
(* context is done, as select takes either of two channels that are ready. *)
cleanupInactiveNodes ==
    /\ cleaner /\ Inactive # {}
    /\ registered' = registered \ Inactive /\ left' = left \cup Inactive
    /\ toStop' = [n \in Nodes |-> IF n \in Inactive THEN toStop[n] + 1 ELSE toStop[n]]
    /\ UNCHANGED <<silence, taskCount, doubled, overdue, workers, beating, collected, cancelled,
                   hasty,
                   stopVars, taskVars, boundVars>>

CleanerReturns ==
    /\ cleaner /\ ContextDone /\ cleaner' = FALSE
    /\ UNCHANGED <<nodeVars, workerVars, scheduler, taskVars, boundVars>>

(* UpdateNodeStatus is a sign of life of the node as well. *)
UpdateNodeStatus(n) ==
    /\ n \in registered /\ silence[n] > 0
    /\ sendHeartbeat(n)
    /\ UNCHANGED <<workerVars, stopVars, taskVars, boundVars>>

(***************************************************************************)
(* Tasks.                                                                  *)
(***************************************************************************)

(* SelectNode settles on a node of the list that GetNodes has given. *)
ChooseNode(t, n) ==
    /\ stage[t] = "none" /\ n \in registered
    /\ stage' = [stage EXCEPT ![t] = "chosen"] /\ place' = [place EXCEPT ![t] = n]
    /\ UNCHANGED <<nodeVars, workerVars, stopVars, boundVars>>

(* updateNodeResources, which does nothing when the node has gone; the     *)
(* task is placed there all the same.                                      *)
Reserve(t) ==
    /\ stage[t] = "chosen" /\ stage' = [stage EXCEPT ![t] = "placed"]
    /\ IF place[t] \in registered
       THEN /\ taskCount' = [taskCount EXCEPT ![place[t]] = @ + 1]
            /\ HeardOf(place[t])
       ELSE UNCHANGED <<taskCount, silence, overdue>>
    /\ UNCHANGED <<registered, left, doubled, place, workerVars, stopVars, boundVars>>

GiveBack(n) ==
    taskCount' = [taskCount EXCEPT ![n] = IF n \in registered /\ @ > 0 THEN @ - 1 ELSE @]

(* What remains of the task is not looked at after its first release but   *)
(* to release it again.                                                    *)
ReleaseNodeResources(t) ==
    /\ stage[t] \in {"placed", "released"} /\ stage' = [stage EXCEPT ![t] = "released"]
    /\ GiveBack(place[t])
    /\ doubled' = IF stage[t] = "released" THEN doubled \cup {place[t]} ELSE doubled
    /\ UNCHANGED <<registered, silence, left, overdue, place, workerVars, stopVars, boundVars>>

(* Nobody holds a copy of the released task any more: its ID may stand for *)
(* the UUID of the next task.                                              *)
Forget(t) ==
    /\ stage[t] = "released" /\ stage' = [stage EXCEPT ![t] = "none"]
    /\ place' = [place EXCEPT ![t] = None]
    /\ UNCHANGED <<nodeVars, workerVars, stopVars, boundVars>>

(***************************************************************************)
(* Stop, one step per numbered comment of the code.                        *)
(***************************************************************************)

(* 1: the cancel functions are taken out of the map. *)
StopClears ==
    /\ scheduler = "running" /\ scheduler' = "cleared"
    /\ collected' = beating /\ beating' = {} /\ workers' = {}
    /\ UNCHANGED <<nodeVars, cancelled, toStop, hasty, cleaner, taskVars, boundVars>>

(* 2 and 3: they are called, and the scheduler's context is cancelled. *)
StopCancels ==
    /\ scheduler = "cleared" /\ scheduler' = "cancelled"
    /\ cancelled' = [n \in Nodes |-> IF n \in collected THEN cancelled[n] + 1 ELSE cancelled[n]]
    /\ collected' = {}
    /\ UNCHANGED <<nodeVars, workers, beating, toStop, hasty, cleaner, taskVars,
                   boundVars>>

(* What s.wg counts: the workers and the cleanup loop. *)
AllReturned == ~cleaner /\ beating = {} /\ collected = {} /\ \A n \in Nodes : cancelled[n] = 0

(* 4: everything has returned, or 5 s are over. *)
StopReturns ==
    /\ scheduler = "cancelled"
    /\ scheduler' \in IF AllReturned THEN {"stopped", "timedOut"} ELSE {"timedOut"}
    /\ UNCHANGED <<nodeVars, workerVars, cleaner, taskVars, boundVars>>

(* main calls Stop again on its way out: the workers it finds in the map   *)
(* are cancelled already, with the context.                                *)
StopAgain ==
    /\ scheduler \in {"stopped", "timedOut"} /\ scheduler' = "cancelled"
    /\ workers' = {}
    /\ UNCHANGED <<nodeVars, beating, collected, cancelled, toStop, hasty, cleaner, taskVars,
                   boundVars>>

(***************************************************************************)
(* Time, and the next-state relation.                                      *)
(***************************************************************************)
Beats(n) == n \in beating \cup collected /\ ~ContextDone

Tick ==
    /\ \A n \in registered : Beats(n) => silence[n] < MaxSilence \/ n \in overdue
    /\ \E n \in registered : silence[n] <= HeartbeatTimeout
    /\ silence' = [n \in Nodes |-> IF n \in registered /\ silence[n] <= HeartbeatTimeout
                                   THEN silence[n] + 1 ELSE silence[n]]
    /\ UNCHANGED <<registered, taskCount, left, doubled, overdue, workerVars, stopVars, taskVars,
                   boundVars>>

(* The process, or its host, is suspended for longer than the timeout; when *)
(* it goes on, the tickers of the workers and of the cleanup loop are due   *)
(* at the same time.                                                        *)
Suspended ==
    /\ pauses < MaxPauses /\ pauses' = pauses + 1
    /\ silence' = [n \in Nodes |-> IF n \in registered THEN HeartbeatTimeout + 1 ELSE silence[n]]
    /\ overdue' = registered
    /\ UNCHANGED <<registered, taskCount, left, doubled, workerVars, stopVars, taskVars,
                   registrations>>

Next ==
    \/ Tick \/ Suspended \/ cleanupInactiveNodes \/ CleanerReturns
    \/ StopClears \/ StopCancels \/ StopReturns \/ StopAgain
    \/ \E n \in Nodes : Heartbeat(n) \/ WorkerReturns(n) \/ StopOldWorker(n)
                           \/ RegisterNode(n) \/ UnregisterNode(n) \/ UpdateNodeStatus(n)
    \/ \E t \in Tasks : Reserve(t) \/ ReleaseNodeResources(t) \/ Forget(t)
                           \/ \E n \in Nodes : ChooseNode(t, n)

Spec == Init /\ [][Next]_vars

(* Time passes, tickers tick, goroutines that can go on do; nobody has to  *)
(* register a node, create a task or stop the scheduler.                   *)
Fairness ==
    /\ WF_vars(Tick) /\ WF_vars(cleanupInactiveNodes) /\ WF_vars(CleanerReturns)
    /\ WF_vars(StopCancels) /\ WF_vars(StopReturns)
    /\ \A n \in Nodes : WF_vars(Heartbeat(n)) /\ WF_vars(WorkerReturns(n)) /\ WF_vars(StopOldWorker(n))

FairSpec == Spec /\ Fairness

(***************************************************************************)
(* Properties.                                                             *)
(***************************************************************************)
TypeOK ==
    /\ registered \subseteq Nodes /\ left \subseteq Nodes /\ doubled \subseteq Nodes
    /\ silence \in [Nodes -> 0..HeartbeatTimeout + 1]
    /\ taskCount \in [Nodes -> Nat]
    /\ workers \subseteq Nodes /\ beating \subseteq Nodes /\ collected \subseteq Nodes
    /\ cancelled \in [Nodes -> Nat] /\ toStop \in [Nodes -> Nat] /\ hasty \subseteq Nodes
    /\ cleaner \in BOOLEAN
    /\ scheduler \in {"running", "cleared", "cancelled", "stopped", "timedOut"}
    /\ stage \in [Tasks -> {"none", "chosen", "placed", "released"}]
    /\ place \in [Tasks -> Nodes \cup {None}]
    /\ \A t \in Tasks : stage[t] # "none" => place[t] \in Nodes
    /\ overdue \subseteq Nodes
    /\ registrations \in 0..MaxRegistrations /\ pauses \in 0..MaxPauses

(* The tasks that are placed on n. *)
PlacedOn(n) == {t \in Tasks : stage[t] = "placed" /\ place[t] = n}

(* A node never counts more tasks than are placed on it, although releases *)
(* that come while it is gone are lost.  It counts too few only when it    *)
(* has left and come back, for then it starts from nothing, or when a task *)
(* has been released on it more than once: as long as neither has          *)
(* happened, it counts all of them.                                        *)
CountsAreSafe ==
    \A n \in Nodes :
       /\ n \in registered => taskCount[n] <= Cardinality(PlacedOn(n))
       /\ n \notin left \cup doubled => taskCount[n] = Cardinality(PlacedOn(n))

(* A worker that is left behind by its node is about to be stopped: the    *)
(* goroutines of removed nodes do not pile up.                             *)
NoWorkerIsForgotten ==
    scheduler = "running" => \A n \in workers \ registered : toStop[n] > 0

(* A node keeps its worker, with one exception: one that was registered    *)
(* again before its old worker was stopped loses it.                       *)
OnlyHastyNodesLoseTheirWorker ==
    scheduler = "running" => \A n \in registered : n \in beating \/ n \in hasty

(* A node that its worker speaks for is never removed for its silence,     *)
(* however late the worker is within what MaxSilence allows, unless the    *)
(* process was suspended and the cleanup loop was faster than the worker.  *)
BeatingNodesStay ==
    [][\A n \in registered \ registered' : (n \in workers' /\ n \notin overdue) => ~Beats(n)]_vars

(* A node without a worker does not stay: it is removed, or something else *)
(* is heard of it (a reservation, a registration).                         *)
SilentNodesGo ==
    \A n \in Nodes :
       (cleaner /\ n \in registered /\ silence[n] > 0)
          ~> (n \notin registered \/ silence[n] = 0 \/ ~cleaner)

(* After Stop every goroutine returns, also those of the nodes that were   *)
(* registered between its steps.                                           *)
StopEndsAll == scheduler # "running" ~> AllReturned
==============================================================================
