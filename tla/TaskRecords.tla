----------------------------- MODULE TaskRecords -----------------------------
(***************************************************************************)
(* The data the task store keeps: task records (types/task.go), reduced to *)
(* the fields that an operation of the store reads.                        *)
(***************************************************************************)
EXTENDS Integers, FiniteSets

CONSTANTS TaskIDs, ContainerIDs, NodeIDs, Services, Statuses,
          None,             \* Go's empty string, and the absent map entry
          ContainersOf,     \* the container IDs the daemon may give to a task
          MaxRestarts       \* bound: RestartCount is not counted beyond this

(* Docker never gives the same ID to two containers and a task is handed   *)
(* only the ID of a container made for it.                                 *)
ASSUME ContainersAssumption ==
    /\ ContainersOf \in [TaskIDs -> SUBSET ContainerIDs]
    /\ \A t, u \in TaskIDs : t # u => ContainersOf[t] \cap ContainersOf[u] = {}
ASSUME NoneAssumption ==
    None \notin TaskIDs \cup ContainerIDs \cup NodeIDs \cup Services \cup Statuses
ASSUME MaxRestartsAssumption == MaxRestarts \in Nat

(* The fields of types.Task that are indexed, and the restart counter.     *)
(* The orchestrator creates a task with a service, a node and a status,    *)
(* and with a container only once it runs.                                 *)
Task == [container : ContainerIDs \cup {None}, node : NodeIDs, service : Services,
         status : Statuses, restarts : 0..MaxRestarts]

(* The value of the map at an ID that is not a key of it. *)
NoTask == [container |-> None, node |-> None, service |-> None,
           status |-> None, restarts |-> 0]

(* The records a caller may hand in for task t. *)
TaskFor(t) == {r \in Task : r.container \in ContainersOf[t] \cup {None}}
==============================================================================
