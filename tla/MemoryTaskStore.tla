-------------------------- MODULE MemoryTaskStore --------------------------
(***************************************************************************)
(* The in-memory task store, store/memory.go: the map of tasks and four    *)
(* indices that every writer keeps in step with it by hand.  mem.mu makes  *)
(* an operation one step: writers hold it exclusively, queries share it.   *)
(*                                                                         *)
(* An index is a Go map that holds no empty set (a bucket is deleted with  *)
(* its last member); here an absent bucket is the empty set.               *)
(***************************************************************************)
EXTENDS TaskRecords

VARIABLES tasks,          \* task ID -> record
          byContainerID,  \* container ID -> task ID
          byNodeID,       \* node ID -> set of task IDs
          byServiceName,  \* service name -> set of task IDs
          byStatus,       \* status -> set of task IDs
          reply           \* what the last operation returned

indices == <<byContainerID, byNodeID, byServiceName, byStatus>>
vars == <<tasks, indices, reply>>

Exists(t) == tasks[t] # NoTask

Error == [ok |-> FALSE, found |-> {}, count |-> 0]
Done == [ok |-> TRUE, found |-> {}, count |-> 0]
Number(ids) == [ok |-> TRUE, found |-> {}, count |-> Cardinality(ids)]
(* A query walks an index and skips the IDs that are not in the map. *)
Answer(ids) ==
    [ok |-> TRUE, found |-> {<<t, tasks[t]>> : t \in {u \in ids : Exists(u)}}, count |-> 0]

Init ==
    /\ tasks = [t \in TaskIDs |-> NoTask]
    /\ byContainerID = [c \in ContainerIDs |-> None]
    /\ byNodeID = [n \in NodeIDs |-> {}]
    /\ byServiceName = [s \in Services |-> {}]
    /\ byStatus = [s \in Statuses |-> {}]
    /\ reply = Done

(***************************************************************************)
(* Index maintenance.                                                      *)
(***************************************************************************)

(* An index after t is entered under the value v of its field. *)
Entered(index, t, v) ==
    [x \in DOMAIN index |-> IF x = v THEN index[x] \cup {t} ELSE index[x]]

(* An index after t is taken out of the bucket of v. *)
Left(index, t, v) ==
    [x \in DOMAIN index |-> IF x = v THEN index[x] \ {t} ELSE index[x]]

(* Mutant: a task without a container is entered like any other. *)
EntersEmptyID(t, r) ==
    /\ byContainerID' = [c \in ContainerIDs \cup {r.container} |->
                            IF c = r.container THEN t ELSE byContainerID[c]]
    /\ byNodeID' = Entered(byNodeID, t, r.node)
    /\ byServiceName' = Entered(byServiceName, t, r.service)
    /\ byStatus' = Entered(byStatus, t, r.status)

updateIndices(t, r) ==
    /\ byContainerID' = [c \in ContainerIDs |->
                            IF c = r.container THEN t ELSE byContainerID[c]]
    /\ byNodeID' = Entered(byNodeID, t, r.node)
    /\ byServiceName' = Entered(byServiceName, t, r.service)
    /\ byStatus' = Entered(byStatus, t, r.status)

(* Mutant: the entry of a deleted task's container is left behind. *)
LeavesContainerEntry(t, r) ==
    /\ byNodeID' = Left(byNodeID, t, r.node)
    /\ byServiceName' = Left(byServiceName, t, r.service)
    /\ byStatus' = Left(byStatus, t, r.status)
    /\ UNCHANGED byContainerID

removeFromIndices(t, r) ==
    /\ byContainerID' = [c \in ContainerIDs |->
                            IF c = r.container THEN None ELSE byContainerID[c]]
    /\ byNodeID' = Left(byNodeID, t, r.node)
    /\ byServiceName' = Left(byServiceName, t, r.service)
    /\ byStatus' = Left(byStatus, t, r.status)

(* An index after the field of the tasks t of DOMAIN old changed from      *)
(* old[t] to new[t]: a task whose field keeps its value stays where it is. *)
Leavers(old, new, v) == {t \in DOMAIN old : old[t] = v /\ new[t] # v}
Joiners(old, new, v) == {t \in DOMAIN old : old[t] # v /\ new[t] = v}

Moved(index, old, new) ==
    [v \in DOMAIN index |-> (index[v] \ Leavers(old, new, v)) \cup Joiners(old, new, v)]

(* Mutant: the task is not taken out of the bucket of its old status. *)
KeepsOldStatus(new) ==
    byStatus' = [v \in Statuses |->
                    byStatus[v] \cup Joiners([t \in DOMAIN new |-> tasks[t].status], new, v)]

updateStatusIndex(new) ==
    byStatus' = Moved(byStatus, [t \in DOMAIN new |-> tasks[t].status], new)

(* r gives the new record of each task that is updated. *)
updateIndicesWithOldValues(r) ==
    LET ids == DOMAIN r
        oldContainerID == [t \in ids |-> tasks[t].container]
        newContainerID == [t \in ids |-> r[t].container]
        joiners(c) == Joiners(oldContainerID, newContainerID, c)
    IN  /\ byContainerID' = [c \in ContainerIDs |->
              IF joiners(c) # {} THEN CHOOSE t \in joiners(c) : TRUE
              ELSE IF Leavers(oldContainerID, newContainerID, c) # {} THEN None
              ELSE byContainerID[c]]
        /\ byNodeID' = Moved(byNodeID, [t \in ids |-> tasks[t].node],
                                        [t \in ids |-> r[t].node])
        /\ byServiceName' = Moved(byServiceName, [t \in ids |-> tasks[t].service],
                                                  [t \in ids |-> r[t].service])
        /\ updateStatusIndex([t \in ids |-> r[t].status])

(***************************************************************************)
(* Writers.                                                                *)
(***************************************************************************)
Refused == reply' = Error /\ UNCHANGED <<tasks, indices>>

Create(t, r) ==
    IF Exists(t) THEN Refused
    ELSE /\ tasks' = [tasks EXCEPT ![t] = r]
         /\ updateIndices(t, r)
         /\ reply' = Done

Update(t, r) ==
    IF ~Exists(t) THEN Refused
    ELSE /\ tasks' = [tasks EXCEPT ![t] = r]
         /\ updateIndicesWithOldValues([u \in {t} |-> r])
         /\ reply' = Done

UpdateMany(batch) ==
    IF \E t \in DOMAIN batch : ~Exists(t) THEN Refused
    ELSE /\ tasks' = [t \in TaskIDs |-> IF t \in DOMAIN batch THEN batch[t] ELSE tasks[t]]
         /\ updateIndicesWithOldValues(batch)
         /\ reply' = Done

UpdateStatus(t, s) ==
    IF ~Exists(t) THEN Refused
    ELSE /\ tasks' = [tasks EXCEPT ![t].status = s]
         /\ updateStatusIndex([u \in {t} |-> s])
         /\ reply' = Done
         /\ UNCHANGED <<byContainerID, byNodeID, byServiceName>>

IncrementRestartCounter(t) ==
    IF ~Exists(t) THEN Refused
    ELSE /\ tasks[t].restarts < MaxRestarts
         /\ tasks' = [tasks EXCEPT ![t].restarts = @ + 1]
         /\ reply' = Done
         /\ UNCHANGED indices

Delete(t) ==
    IF ~Exists(t) THEN Refused
    ELSE /\ tasks' = [tasks EXCEPT ![t] = NoTask]
         /\ removeFromIndices(t, tasks[t])
         /\ reply' = Done

(***************************************************************************)
(* Queries, under the read lock.                                           *)
(***************************************************************************)
Read(answer) == reply' = answer /\ UNCHANGED <<tasks, indices>>

Get(t) == Read(IF Exists(t) THEN Answer({t}) ELSE Error)
List == Read(Answer(TaskIDs))
ListByService(s) == Read(Answer(byServiceName[s]))
ListByStatus(s) == Read(Answer(byStatus[s]))
ListByNodeID(n) == Read(Answer(byNodeID[n]))
Count == Read(Number({t \in TaskIDs : Exists(t)}))
CountByService(s) == Read(Number(byServiceName[s]))
CountByStatus(s) == Read(Number(byStatus[s]))

(* The last case deletes the entry it finds dangling, under the read lock. *)
GetByContainerID(c) ==
    LET t == byContainerID[c]
    IN  IF t = None THEN Read(Error)
        ELSE IF Exists(t) THEN Read(Answer({t}))
        ELSE /\ byContainerID' = [byContainerID EXCEPT ![c] = None]
             /\ reply' = Error
             /\ UNCHANGED <<tasks, byNodeID, byServiceName, byStatus>>

Query ==
    \/ \E t \in TaskIDs : Get(t)
    \/ List \/ Count
    \/ \E s \in Services : ListByService(s) \/ CountByService(s)
    \/ \E s \in Statuses : ListByStatus(s) \/ CountByStatus(s)
    \/ \E n \in NodeIDs : ListByNodeID(n)
    \/ \E c \in ContainerIDs : GetByContainerID(c)

Batches ==
    UNION {{b \in [ids -> Task] : \A t \in ids : b[t] \in TaskFor(t)} :
              ids \in SUBSET TaskIDs \ {{}}}

Write ==
    \/ \E t \in TaskIDs :
          \/ \E r \in TaskFor(t) : Create(t, r) \/ Update(t, r)
          \/ \E s \in Statuses : UpdateStatus(t, s)
          \/ IncrementRestartCounter(t) \/ Delete(t)
    \/ \E b \in Batches : UpdateMany(b)

Next == Write \/ Query

Spec == Init /\ [][Next]_vars

(***************************************************************************)
(* Properties.                                                             *)
(***************************************************************************)

(* Every record and every index entry is of the right type. *)
TypeOK ==
    /\ tasks \in [TaskIDs -> Task \cup {NoTask}]
    /\ \A t \in TaskIDs : tasks[t].container \in ContainersOf[t] \cup {None}
    /\ byContainerID \in [ContainerIDs -> TaskIDs \cup {None}]
    /\ byNodeID \in [NodeIDs -> SUBSET TaskIDs]
    /\ byServiceName \in [Services -> SUBSET TaskIDs]
    /\ byStatus \in [Statuses -> SUBSET TaskIDs]

(* Each index holds exactly what a scan of the map would find: no entry is *)
(* left behind when a task is updated, moved or deleted, and none is       *)
(* missing.  The four indices are kept by hand in updateIndices,           *)
(* updateIndicesWithOldValues, updateStatusIndex and removeFromIndices.    *)
IndicesAgree ==
    /\ \A c \in ContainerIDs, t \in TaskIDs :
          byContainerID[c] = t <=> tasks[t].container = c
    /\ \A n \in NodeIDs : byNodeID[n] = {t \in TaskIDs : tasks[t].node = n}
    /\ \A s \in Services : byServiceName[s] = {t \in TaskIDs : tasks[t].service = s}
    /\ \A s \in Statuses : byStatus[s] = {t \in TaskIDs : tasks[t].status = s}

(* A query runs under the read lock, beside other queries, so it must not  *)
(* write: the delete in GetByContainerID would be a data race on a Go map. *)
ReadersDoNotWrite == [][Query => UNCHANGED <<tasks, indices>>]_vars

(* The store answers every call the way a plain map would. *)
Abstract == INSTANCE TaskStore WITH tasks <- tasks, reply <- reply
ImplementsTaskStore == Abstract!Spec
==============================================================================
