------------------------------ MODULE Scheduler ------------------------------
(***************************************************************************)
(* The node pool of the scheduler (scheduler/scheduler.go): what each node *)
(* is, what the scheduler believes is used on it, and the choice of a node *)
(* for a task.  CPU and memory are one resource here, of which a task has  *)
(* the same share of both: every formula of the code adds, subtracts and   *)
(* compares the two in the same way, and binpack breaks a tie on CPU by    *)
(* memory.                                                                 *)
(*                                                                         *)
(* SelectNode reads the nodes and reserves on the one it chose in separate *)
(* critical sections, so the choice (Selectable) and the reservation       *)
(* (updateNodeResources) are separate steps of whoever calls it.           *)
(***************************************************************************)
EXTENDS Integers, FiniteSets

CONSTANTS Nodes,
          Capacity,     \* node -> what it offers
          Strategy      \* SchedulerConfig.Strategy

ASSUME CapacityAssumption == Capacity \in [Nodes -> Nat]
ASSUME FiniteNodes == IsFiniteSet(Nodes)

VARIABLES nodeStatus,   \* node -> Status
          used,         \* node -> UsedCPU, UsedMemory
          taskCount     \* node -> TaskCount

schedulerVars == <<nodeStatus, used, taskCount>>

SchedulerTypeOK ==
    /\ nodeStatus \in [Nodes -> {"ready", "draining"}]
    /\ used \in [Nodes -> Nat]
    /\ taskCount \in [Nodes -> Nat]

SchedulerInit ==
    /\ nodeStatus = [n \in Nodes |-> "ready"]
    /\ used = [n \in Nodes |-> 0]
    /\ taskCount = [n \in Nodes |-> 0]

filterReadyNodes == {n \in Nodes : nodeStatus[n] = "ready"}

Available(n) == Capacity[n] - used[n]

(* Mutant: the comparison is off by one. *)
OneTooMany(ns, request) == {n \in ns : Available(n) >= request - 1}

(* The nodes of ns with room for a request; the overcommit factor is 1.0. *)
filterFeasibleNodes(ns, request) == {n \in ns : Available(n) >= request}

(* The nodes a strategy may settle on.  sort.Slice is not stable and the   *)
(* nodes come from a Go map, so a tie may go either way, and round_robin's *)
(* index picks from a list in no particular order.                         *)
Preferred(ns) ==
    CASE Strategy \in {"random", "round_robin"} -> ns
      [] Strategy = "binpack" -> {n \in ns : \A m \in ns : Available(n) <= Available(m)}
      [] Strategy = "least_resource" -> {n \in ns : \A m \in ns : Available(n) >= Available(m)}
      [] OTHER -> {n \in ns : \A m \in ns : taskCount[n] <= taskCount[m]}

(* What SelectNode may answer for a request; nothing when it reports that  *)
(* no node is ready or that no ready node has the room.                    *)
Selectable(request) == Preferred(filterFeasibleNodes(filterReadyNodes, request))

updateNodeResources(n, request) ==
    /\ used' = [used EXCEPT ![n] = @ + request]
    /\ taskCount' = [taskCount EXCEPT ![n] = @ + 1]
    /\ UNCHANGED nodeStatus

(* Mutant: the result may be negative. *)
Subtracted(a, b) == a - b

(* What is left when b is taken from a, never less than nothing. *)
Less(a, b) == IF a >= b THEN a - b ELSE 0

(* Mutant: the number of tasks is not decremented. *)
KeepsTaskCount(n, request) ==
    /\ used' = [used EXCEPT ![n] = Less(@, request)]
    /\ UNCHANGED <<nodeStatus, taskCount>>

(* Mutant: nothing is released. *)
KeepsEverything(n, request) == UNCHANGED schedulerVars

ReleaseNodeResources(n, request) ==
    /\ used' = [used EXCEPT ![n] = Less(@, request)]
    /\ taskCount' = [taskCount EXCEPT ![n] = Less(@, 1)]
    /\ UNCHANGED nodeStatus

UpdateNodeStatus(n, status) ==
    /\ nodeStatus' = [nodeStatus EXCEPT ![n] = status]
    /\ UNCHANGED <<used, taskCount>>
==============================================================================
