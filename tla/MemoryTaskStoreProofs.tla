----------------------- MODULE MemoryTaskStoreProofs -----------------------
(***************************************************************************)
(* The in-memory store keeps its indices in step with its map, its readers *)
(* write nothing, and it implements the plain map of TaskStore, for any    *)
(* tasks, containers, nodes, services and statuses.                        *)
(***************************************************************************)
EXTENDS MemoryTaskStore, TLAPS

Inv == TypeOK /\ IndicesAgree

(* A key of the map holds a record, and its status is a status. *)
LEMMA ExistsTyping ==
    ASSUME TypeOK, NEW t \in TaskIDs
    PROVE  /\ Exists(t) <=> tasks[t] \in Task
           /\ ~Exists(t) => tasks[t] = NoTask
           /\ Exists(t) <=> tasks[t].status \in Statuses
           /\ Exists(t) <=> tasks[t].node \in NodeIDs
           /\ Exists(t) <=> tasks[t].service \in Services
BY NoneAssumption DEF TypeOK, Exists, NoTask, Task

(* Moved turns an index of the field f into an index of the field g, when  *)
(* f and g differ only on the tasks of ids, by the old and new values.     *)
LEMMA MovedAgrees ==
    ASSUME NEW V, NEW index \in [V -> SUBSET TaskIDs], NEW ids \in SUBSET TaskIDs,
           NEW f, NEW g, NEW old, NEW new,
           DOMAIN old = ids, DOMAIN new = ids,
           \A v \in V : index[v] = {t \in TaskIDs : f[t] = v},
           \A t \in ids : old[t] = f[t] /\ new[t] = g[t],
           \A t \in TaskIDs \ ids : g[t] = f[t]
    PROVE  /\ Moved(index, old, new) \in [V -> SUBSET TaskIDs]
           /\ \A v \in V : Moved(index, old, new)[v] = {t \in TaskIDs : g[t] = v}
BY DEF Moved, Leavers, Joiners

(* Writing the records r over existing ones, as Update and UpdateMany do.  *)
LEMMA PutKeepsInv ==
    ASSUME Inv, NEW ids \in SUBSET TaskIDs, NEW r \in [ids -> Task],
           \A t \in ids : r[t] \in TaskFor(t),
           \A t \in ids : Exists(t),
           tasks' = [t \in TaskIDs |-> IF t \in ids THEN r[t] ELSE tasks[t]],
           updateIndicesWithOldValues(r)
    PROVE  Inv'
<1> USE DEF Inv
<1>1. /\ tasks' \in [TaskIDs -> Task \cup {NoTask}]
      /\ \A t \in TaskIDs : tasks'[t].container \in ContainersOf[t] \cup {None}
  BY DEF TypeOK, TaskFor
<1>2. \A t \in ids : tasks'[t] = r[t]
  OBVIOUS
<1>3. \A t \in TaskIDs \ ids : tasks'[t] = tasks[t]
  OBVIOUS
<1>4. DOMAIN r = ids
  OBVIOUS
<1>5. /\ byNodeID' \in [NodeIDs -> SUBSET TaskIDs]
      /\ \A n \in NodeIDs : byNodeID'[n] = {t \in TaskIDs : tasks'[t].node = n}
  <2> DEFINE F == [t \in TaskIDs |-> tasks[t].node]
             G == [t \in TaskIDs |-> tasks'[t].node]
             Old == [t \in ids |-> tasks[t].node]
             New == [t \in ids |-> r[t].node]
  <2>1. byNodeID' = Moved(byNodeID, Old, New)
    BY <1>4 DEF updateIndicesWithOldValues
  <2>2. /\ byNodeID \in [NodeIDs -> SUBSET TaskIDs]
        /\ \A v \in NodeIDs : byNodeID[v] = {t \in TaskIDs : F[t] = v}
    BY DEF TypeOK, IndicesAgree
  <2>3. /\ \A t \in ids : Old[t] = F[t] /\ New[t] = G[t]
        /\ \A t \in TaskIDs \ ids : G[t] = F[t]
    BY <1>2, <1>3
  <2>4. DOMAIN Old = ids /\ DOMAIN New = ids
    OBVIOUS
  <2> HIDE DEF F, G, Old, New
  <2>5. /\ Moved(byNodeID, Old, New) \in [NodeIDs -> SUBSET TaskIDs]
        /\ \A v \in NodeIDs : Moved(byNodeID, Old, New)[v] = {t \in TaskIDs : G[t] = v}
    BY <2>2, <2>3, <2>4, MovedAgrees
  <2>6. QED
    BY <2>1, <2>5 DEF G
<1>6. /\ byServiceName' \in [Services -> SUBSET TaskIDs]
      /\ \A s \in Services : byServiceName'[s] = {t \in TaskIDs : tasks'[t].service = s}
  <2> DEFINE F == [t \in TaskIDs |-> tasks[t].service]
             G == [t \in TaskIDs |-> tasks'[t].service]
             Old == [t \in ids |-> tasks[t].service]
             New == [t \in ids |-> r[t].service]
  <2>1. byServiceName' = Moved(byServiceName, Old, New)
    BY <1>4 DEF updateIndicesWithOldValues
  <2>2. /\ byServiceName \in [Services -> SUBSET TaskIDs]
        /\ \A v \in Services : byServiceName[v] = {t \in TaskIDs : F[t] = v}
    BY DEF TypeOK, IndicesAgree
  <2>3. /\ \A t \in ids : Old[t] = F[t] /\ New[t] = G[t]
        /\ \A t \in TaskIDs \ ids : G[t] = F[t]
    BY <1>2, <1>3
  <2>4. DOMAIN Old = ids /\ DOMAIN New = ids
    OBVIOUS
  <2> HIDE DEF F, G, Old, New
  <2>5. /\ Moved(byServiceName, Old, New) \in [Services -> SUBSET TaskIDs]
        /\ \A v \in Services : Moved(byServiceName, Old, New)[v] = {t \in TaskIDs : G[t] = v}
    BY <2>2, <2>3, <2>4, MovedAgrees
  <2>6. QED
    BY <2>1, <2>5 DEF G
<1>7. /\ byStatus' \in [Statuses -> SUBSET TaskIDs]
      /\ \A s \in Statuses : byStatus'[s] = {t \in TaskIDs : tasks'[t].status = s}
  <2> DEFINE F == [t \in TaskIDs |-> tasks[t].status]
             G == [t \in TaskIDs |-> tasks'[t].status]
             Old == [t \in ids |-> tasks[t].status]
             New == [t \in ids |-> r[t].status]
  <2>1. byStatus' = Moved(byStatus, Old, New)
    BY <1>4 DEF updateIndicesWithOldValues, updateStatusIndex
  <2>2. /\ byStatus \in [Statuses -> SUBSET TaskIDs]
        /\ \A v \in Statuses : byStatus[v] = {t \in TaskIDs : F[t] = v}
    BY DEF TypeOK, IndicesAgree
  <2>3. /\ \A t \in ids : Old[t] = F[t] /\ New[t] = G[t]
        /\ \A t \in TaskIDs \ ids : G[t] = F[t]
    BY <1>2, <1>3
  <2>4. DOMAIN Old = ids /\ DOMAIN New = ids
    OBVIOUS
  <2> HIDE DEF F, G, Old, New
  <2>5. /\ Moved(byStatus, Old, New) \in [Statuses -> SUBSET TaskIDs]
        /\ \A v \in Statuses : Moved(byStatus, Old, New)[v] = {t \in TaskIDs : G[t] = v}
    BY <2>2, <2>3, <2>4, MovedAgrees
  <2>6. QED
    BY <2>1, <2>5 DEF G
<1>8. /\ byContainerID' \in [ContainerIDs -> TaskIDs \cup {None}]
      /\ \A c \in ContainerIDs, t \in TaskIDs : byContainerID'[c] = t <=> tasks'[t].container = c
  <2> DEFINE Old == [t \in ids |-> tasks[t].container]
             New == [t \in ids |-> r[t].container]
  <2>1. \A c \in ContainerIDs :
          byContainerID'[c] = IF Joiners(Old, New, c) # {} THEN CHOOSE t \in Joiners(Old, New, c) : TRUE
                              ELSE IF Leavers(Old, New, c) # {} THEN None
                              ELSE byContainerID[c]
    BY <1>4 DEF updateIndicesWithOldValues
  <2>2. DOMAIN byContainerID' = ContainerIDs /\ byContainerID' = [c \in ContainerIDs |-> byContainerID'[c]]
    BY DEF updateIndicesWithOldValues
  <2>3. ASSUME NEW c \in ContainerIDs
        PROVE  /\ byContainerID'[c] \in TaskIDs \cup {None}
               /\ \A t \in TaskIDs : byContainerID'[c] = t <=> tasks'[t].container = c
    <3>1. \A t, u \in TaskIDs : c \in ContainersOf[t] /\ c \in ContainersOf[u] => t = u
      BY ContainersAssumption
    <3>2. c # None
      BY NoneAssumption
    <3>3. \A t \in TaskIDs : tasks[t].container = c \/ tasks'[t].container = c => c \in ContainersOf[t]
      BY <1>1, <3>2 DEF TypeOK
    <3>4. byContainerID[c] \in TaskIDs \cup {None}
      BY DEF TypeOK
    <3>5. \A t \in TaskIDs : byContainerID[c] = t <=> tasks[t].container = c
      BY DEF IndicesAgree
    <3>6. \A t \in TaskIDs : t # None
      BY NoneAssumption
    <3>7. CASE Joiners(Old, New, c) # {}
      <4>1. byContainerID'[c] \in Joiners(Old, New, c)
        BY <2>1, <3>7
      <4>2. \A t \in Joiners(Old, New, c) : t \in TaskIDs /\ tasks'[t].container = c
        BY <1>2 DEF Joiners
      <4>3. QED
        BY <4>1, <4>2, <3>1, <3>3
    <3>8. CASE Joiners(Old, New, c) = {} /\ Leavers(Old, New, c) # {}
      <4>1. byContainerID'[c] = None
        BY <2>1, <3>8
      <4>2. PICK u \in ids : tasks[u].container = c /\ r[u].container # c
        BY <3>8 DEF Leavers
      <4>3. \A t \in TaskIDs : tasks'[t].container # c
        BY <4>2, <1>2, <1>3, <3>1, <3>3
      <4>4. QED
        BY <4>1, <4>3, <3>6
    <3>9. CASE Joiners(Old, New, c) = {} /\ Leavers(Old, New, c) = {}
      <4>1. byContainerID'[c] = byContainerID[c]
        BY <2>1, <3>9
      <4>2. \A t \in ids : tasks[t].container = c <=> r[t].container = c
        BY <3>9 DEF Joiners, Leavers
      <4>3. QED
        BY <4>1, <4>2, <1>2, <1>3, <3>4, <3>5
    <3>10. QED
      BY <3>7, <3>8, <3>9
  <2>4. QED
    BY <2>2, <2>3
<1>9. QED
  BY <1>1, <1>5, <1>6, <1>7, <1>8 DEF TypeOK, IndicesAgree

LEMMA UpdateManyKeepsInv ==
    ASSUME Inv, NEW b \in Batches, UpdateMany(b)
    PROVE  Inv'
<1>1. PICK ids \in SUBSET TaskIDs : b \in [ids -> Task] /\ \A t \in ids : b[t] \in TaskFor(t)
  BY DEF Batches
<1>2. DOMAIN b = ids
  BY <1>1
<1>3. CASE \E t \in DOMAIN b : ~Exists(t)
  BY <1>3 DEF UpdateMany, Refused, indices, Inv, TypeOK, IndicesAgree
<1>4. CASE \A t \in DOMAIN b : Exists(t)
  BY <1>1, <1>2, <1>4, PutKeepsInv DEF UpdateMany
<1>5. QED
  BY <1>3, <1>4

LEMMA UpdateKeepsInv ==
    ASSUME Inv, NEW t \in TaskIDs, NEW r \in TaskFor(t), Update(t, r)
    PROVE  Inv'
<1>1. CASE ~Exists(t)
  BY <1>1 DEF Update, Refused, indices, Inv, TypeOK, IndicesAgree
<1>2. CASE Exists(t)
  <2> DEFINE b == [u \in {t} |-> r]
  <2>1. b \in [{t} -> Task] /\ b[t] \in TaskFor(t)
    BY DEF TaskFor
  <2>2. tasks' = [u \in TaskIDs |-> IF u \in {t} THEN b[u] ELSE tasks[u]]
    BY <1>2 DEF Update, Inv, TypeOK
  <2>3. updateIndicesWithOldValues(b)
    BY <1>2 DEF Update
  <2> HIDE DEF b
  <2>4. QED
    BY <1>2, <2>1, <2>2, <2>3, PutKeepsInv
<1>3. QED
  BY <1>1, <1>2

LEMMA CreateKeepsInv ==
    ASSUME Inv, NEW t \in TaskIDs, NEW r \in TaskFor(t), Create(t, r)
    PROVE  Inv'
<1>1. CASE Exists(t)
  BY <1>1 DEF Create, Refused, indices, Inv, TypeOK, IndicesAgree
<1>2. CASE ~Exists(t)
  <2>1. tasks[t] = NoTask
    BY <1>2 DEF Exists
  <2>2. tasks' = [tasks EXCEPT ![t] = r] /\ updateIndices(t, r)
    BY <1>2 DEF Create
  <2>3. TypeOK'
    BY <2>2 DEF Inv, TypeOK, updateIndices, Entered, TaskFor, Task
  <2>4. ASSUME NEW c \in ContainerIDs, NEW u \in TaskIDs
        PROVE  byContainerID'[c] = u <=> tasks'[u].container = c
    <3>1. byContainerID'[c] = IF c = r.container THEN t ELSE byContainerID[c]
      BY <2>2 DEF updateIndices
    <3>2. byContainerID[c] = u <=> tasks[u].container = c
      BY DEF Inv, IndicesAgree
    <3>3. tasks'[u] = IF u = t THEN r ELSE tasks[u]
      BY <2>2 DEF Inv, TypeOK
    <3>4. c # None
      BY NoneAssumption
    <3>5. c = r.container => c \in ContainersOf[t]
      BY <3>4 DEF TaskFor
    <3>6. tasks[u].container = c => c \in ContainersOf[u]
      BY <3>4 DEF Inv, TypeOK
    <3>7. c \in ContainersOf[t] /\ c \in ContainersOf[u] => t = u
      BY ContainersAssumption
    <3>8. QED
      BY <2>1, <3>1, <3>2, <3>3, <3>4, <3>5, <3>6, <3>7 DEF NoTask
  <2>5. /\ \A n \in NodeIDs : byNodeID'[n] = {u \in TaskIDs : tasks'[u].node = n}
        /\ \A s \in Services : byServiceName'[s] = {u \in TaskIDs : tasks'[u].service = s}
        /\ \A s \in Statuses : byStatus'[s] = {u \in TaskIDs : tasks'[u].status = s}
    BY <2>1, <2>2, NoneAssumption DEF Inv, TypeOK, IndicesAgree, updateIndices, Entered, NoTask
  <2>6. QED
    BY <2>3, <2>4, <2>5 DEF Inv, IndicesAgree
<1>3. QED
  BY <1>1, <1>2

LEMMA UpdateStatusKeepsInv ==
    ASSUME Inv, NEW t \in TaskIDs, NEW s \in Statuses, UpdateStatus(t, s)
    PROVE  Inv'
<1>1. CASE ~Exists(t)
  BY <1>1 DEF UpdateStatus, Refused, indices, Inv, TypeOK, IndicesAgree
<1>2. CASE Exists(t)
  <2> DEFINE F == [u \in TaskIDs |-> tasks[u].status]
             G == [u \in TaskIDs |-> tasks'[u].status]
             New == [u \in {t} |-> s]
             Old == [u \in {t} |-> tasks[u].status]
  <2>1. tasks' = [tasks EXCEPT ![t].status = s]
    BY <1>2 DEF UpdateStatus
  <2>2. /\ tasks \in [TaskIDs -> Task \cup {NoTask}]
        /\ tasks[t] \in Task
    BY <1>2 DEF Inv, TypeOK, Exists
  <2>3. /\ tasks' \in [TaskIDs -> Task \cup {NoTask}]
        /\ \A u \in TaskIDs : /\ tasks'[u].container = tasks[u].container
                             /\ tasks'[u].node = tasks[u].node
                             /\ tasks'[u].service = tasks[u].service
    BY <2>1, <2>2 DEF Task
  <2>4. byStatus' = Moved(byStatus, Old, New)
    BY <1>2 DEF UpdateStatus, updateStatusIndex
  <2>5. /\ byStatus \in [Statuses -> SUBSET TaskIDs]
        /\ \A v \in Statuses : byStatus[v] = {u \in TaskIDs : F[u] = v}
    BY DEF Inv, TypeOK, IndicesAgree
  <2>6. /\ \A u \in {t} : Old[u] = F[u] /\ New[u] = G[u]
        /\ \A u \in TaskIDs \ {t} : G[u] = F[u]
    BY <2>1, <2>2 DEF Task
  <2>7. DOMAIN Old = {t} /\ DOMAIN New = {t}
    OBVIOUS
  <2> HIDE DEF F, G, Old, New
  <2>8. /\ byStatus' \in [Statuses -> SUBSET TaskIDs]
        /\ \A v \in Statuses : byStatus'[v] = {u \in TaskIDs : G[u] = v}
    BY <2>4, <2>5, <2>6, <2>7, MovedAgrees
  <2>9. UNCHANGED <<byContainerID, byNodeID, byServiceName>>
    BY <1>2 DEF UpdateStatus
  <2>10. \A v \in Statuses : byStatus'[v] = {u \in TaskIDs : tasks'[u].status = v}
    BY <2>8 DEF G
  <2>11. TypeOK'
    BY <2>3, <2>8, <2>9 DEF Inv, TypeOK
  <2>12. QED
    BY <2>3, <2>9, <2>10, <2>11 DEF Inv, IndicesAgree
<1>3. QED
  BY <1>1, <1>2

LEMMA IncrementKeepsInv ==
    ASSUME Inv, NEW t \in TaskIDs, IncrementRestartCounter(t)
    PROVE  Inv'
<1>1. CASE ~Exists(t)
  BY <1>1 DEF IncrementRestartCounter, Refused, indices, Inv, TypeOK, IndicesAgree
<1>2. CASE Exists(t)
  <2>1. /\ tasks \in [TaskIDs -> Task \cup {NoTask}]
        /\ tasks[t] \in Task
    BY <1>2 DEF Inv, TypeOK, Exists
  <2>2. /\ tasks[t].restarts < MaxRestarts
        /\ tasks' = [tasks EXCEPT ![t].restarts = @ + 1]
        /\ UNCHANGED indices
    BY <1>2 DEF IncrementRestartCounter
  <2>3. tasks[t].restarts + 1 \in 0..MaxRestarts
    BY <2>1, <2>2, MaxRestartsAssumption DEF Task
  <2>4. /\ tasks' \in [TaskIDs -> Task \cup {NoTask}]
        /\ \A u \in TaskIDs : /\ tasks'[u].container = tasks[u].container
                             /\ tasks'[u].node = tasks[u].node
                             /\ tasks'[u].service = tasks[u].service
                             /\ tasks'[u].status = tasks[u].status
    BY <2>1, <2>2, <2>3 DEF Task
  <2>5. QED
    BY <2>2, <2>4 DEF Inv, TypeOK, IndicesAgree, indices
<1>3. QED
  BY <1>1, <1>2

LEMMA DeleteKeepsInv ==
    ASSUME Inv, NEW t \in TaskIDs, Delete(t)
    PROVE  Inv'
<1>1. CASE ~Exists(t)
  BY <1>1 DEF Delete, Refused, indices, Inv, TypeOK, IndicesAgree
<1>2. CASE Exists(t)
  <2> DEFINE r == tasks[t]
  <2>1. tasks' = [tasks EXCEPT ![t] = NoTask] /\ removeFromIndices(t, r)
    BY <1>2 DEF Delete
  <2>2. TypeOK'
    BY <2>1 DEF Inv, TypeOK, removeFromIndices, Left, NoTask
  <2>3. ASSUME NEW c \in ContainerIDs, NEW u \in TaskIDs
        PROVE  byContainerID'[c] = u <=> tasks'[u].container = c
    <3>1. byContainerID'[c] = IF c = r.container THEN None ELSE byContainerID[c]
      BY <2>1 DEF removeFromIndices
    <3>2. /\ byContainerID[c] = u <=> tasks[u].container = c
          /\ byContainerID[c] = t <=> tasks[t].container = c
      BY DEF Inv, IndicesAgree
    <3>3. tasks'[u] = IF u = t THEN NoTask ELSE tasks[u]
      BY <2>1 DEF Inv, TypeOK
    <3>4. c # None /\ u # None
      BY NoneAssumption
    <3>5. QED
      BY <3>1, <3>2, <3>3, <3>4 DEF NoTask
  <2>4. /\ \A n \in NodeIDs : byNodeID'[n] = {u \in TaskIDs : tasks'[u].node = n}
        /\ \A s \in Services : byServiceName'[s] = {u \in TaskIDs : tasks'[u].service = s}
        /\ \A s \in Statuses : byStatus'[s] = {u \in TaskIDs : tasks'[u].status = s}
    BY <2>1, NoneAssumption DEF Inv, TypeOK, IndicesAgree, removeFromIndices, Left, NoTask
  <2>5. QED
    BY <2>2, <2>3, <2>4 DEF Inv, IndicesAgree
<1>3. QED
  BY <1>1, <1>2

LEMMA QueryChangesNothing ==
    ASSUME Inv, Query
    PROVE  UNCHANGED <<tasks, indices>>
<1>1. ASSUME NEW c \in ContainerIDs, GetByContainerID(c)
      PROVE  UNCHANGED <<tasks, indices>>
  <2>1. byContainerID[c] # None =>
          /\ byContainerID[c] \in TaskIDs
          /\ tasks[byContainerID[c]].container = c
    BY DEF Inv, TypeOK, IndicesAgree
  <2>2. byContainerID[c] # None => Exists(byContainerID[c])
    BY <2>1, NoneAssumption DEF Exists, NoTask
  <2>3. QED
    BY <1>1, <2>2 DEF GetByContainerID, Read
<1>2. QED
  BY <1>1 DEF Query, Read, Get, List, ListByService, ListByStatus, ListByNodeID,
              Count, CountByService, CountByStatus

LEMMA InvInductive == Inv /\ [Next]_vars => Inv'
<1> SUFFICES ASSUME Inv, [Next]_vars PROVE Inv'
  OBVIOUS
<1>1. CASE UNCHANGED vars
  BY <1>1 DEF vars, indices, Inv, TypeOK, IndicesAgree
<1>2. CASE Query
  BY <1>2, QueryChangesNothing DEF indices, Inv, TypeOK, IndicesAgree
<1>3. CASE Write
  <2>1. ASSUME NEW t \in TaskIDs, NEW r \in TaskFor(t), Create(t, r) PROVE Inv'
    BY <2>1, CreateKeepsInv
  <2>2. ASSUME NEW t \in TaskIDs, NEW r \in TaskFor(t), Update(t, r) PROVE Inv'
    BY <2>2, UpdateKeepsInv
  <2>3. ASSUME NEW t \in TaskIDs, NEW s \in Statuses, UpdateStatus(t, s) PROVE Inv'
    BY <2>3, UpdateStatusKeepsInv
  <2>4. ASSUME NEW t \in TaskIDs, IncrementRestartCounter(t) PROVE Inv'
    BY <2>4, IncrementKeepsInv
  <2>5. ASSUME NEW t \in TaskIDs, Delete(t) PROVE Inv'
    BY <2>5, DeleteKeepsInv
  <2>6. ASSUME NEW b \in Batches, UpdateMany(b) PROVE Inv'
    BY <2>6, UpdateManyKeepsInv
  <2>7. QED
    BY <1>3, <2>1, <2>2, <2>3, <2>4, <2>5, <2>6 DEF Write
<1>4. QED
  BY <1>1, <1>2, <1>3 DEF Next

LEMMA InitInv == Init => Inv
BY NoneAssumption DEF Init, Inv, TypeOK, IndicesAgree, NoTask

(* Whatever the store is asked, its map and its four indices stay well     *)
(* typed, and a container is only ever indexed for a task it was made for. *)
THEOREM TypeCorrect == Spec => []TypeOK
<1>1. Inv => TypeOK
  BY DEF Inv
<1>2. QED
  BY InitInv, InvInductive, <1>1, PTL DEF Spec

(* The hand-kept indices of memory.go never differ from what a scan of the *)
(* map would give.                                                         *)
THEOREM IndicesCorrect == Spec => []IndicesAgree
<1>1. Inv => IndicesAgree
  BY DEF Inv
<1>2. QED
  BY InitInv, InvInductive, <1>1, PTL DEF Spec

(* No query writes under the read lock: the delete of GetByContainerID for *)
(* a dangling entry is never reached.                                      *)
THEOREM ReadersSafe == Spec => ReadersDoNotWrite
<1>1. Inv => (Query => UNCHANGED <<tasks, indices>>)
  BY QueryChangesNothing
<1>2. QED
  BY InitInv, InvInductive, <1>1, PTL DEF Spec, ReadersDoNotWrite

------------------------------------------------------------------------------
(* Refinement: every step of the indexed store is a step of the plain map. *)

LEMMA AnswersAgree ==
    ASSUME Inv
    PROVE  /\ \A t \in TaskIDs : Exists(t) <=> t \in Abstract!Stored
           /\ Abstract!Stored = {t \in TaskIDs : Exists(t)}
           /\ \A ids \in SUBSET TaskIDs :
                 Answer(ids) = Abstract!Answer(ids \cap Abstract!Stored)
           /\ \A s \in Services : byServiceName[s] = {t \in Abstract!Stored : tasks[t].service = s}
           /\ \A s \in Statuses : byStatus[s] = {t \in Abstract!Stored : tasks[t].status = s}
           /\ \A n \in NodeIDs : byNodeID[n] = {t \in Abstract!Stored : tasks[t].node = n}
<1>1. Abstract!NoTask = NoTask
  BY DEF Abstract!NoTask, NoTask
<1>2. Abstract!Stored = {t \in TaskIDs : Exists(t)}
  BY <1>1 DEF Abstract!Stored, Abstract!Exists, Exists
<1>3. \A ids \in SUBSET TaskIDs : {u \in ids : Exists(u)} = ids \cap Abstract!Stored
  BY <1>2
<1>4. \A ids \in SUBSET TaskIDs : Answer(ids) = Abstract!Answer(ids \cap Abstract!Stored)
  BY <1>3 DEF Answer, Abstract!Answer
<1>5. Abstract!Stored \subseteq TaskIDs
  BY DEF Abstract!Stored
<1>6. ASSUME NEW v \in Services
      PROVE  byServiceName[v] = {t \in Abstract!Stored : tasks[t].service = v}
  <2>1. byServiceName[v] = {t \in TaskIDs : tasks[t].service = v}
    BY DEF Inv, IndicesAgree
  <2>2. \A t \in TaskIDs : tasks[t].service \in Services => t \in Abstract!Stored
    BY <1>1, ExistsTyping DEF Inv, Abstract!Stored, Abstract!Exists, Exists
  <2>3. QED
    BY <1>5, <2>1, <2>2
<1>7. ASSUME NEW v \in Statuses
      PROVE  byStatus[v] = {t \in Abstract!Stored : tasks[t].status = v}
  <2>1. byStatus[v] = {t \in TaskIDs : tasks[t].status = v}
    BY DEF Inv, IndicesAgree
  <2>2. \A t \in TaskIDs : tasks[t].status \in Statuses => t \in Abstract!Stored
    BY <1>1, ExistsTyping DEF Inv, Abstract!Stored, Abstract!Exists, Exists
  <2>3. QED
    BY <1>5, <2>1, <2>2
<1>8. ASSUME NEW v \in NodeIDs
      PROVE  byNodeID[v] = {t \in Abstract!Stored : tasks[t].node = v}
  <2>1. byNodeID[v] = {t \in TaskIDs : tasks[t].node = v}
    BY DEF Inv, IndicesAgree
  <2>2. \A t \in TaskIDs : tasks[t].node \in NodeIDs => t \in Abstract!Stored
    BY <1>1, ExistsTyping DEF Inv, Abstract!Stored, Abstract!Exists, Exists
  <2>3. QED
    BY <1>5, <2>1, <2>2
<1>9. QED
  BY <1>2, <1>4, <1>6, <1>7, <1>8

LEMMA RefusedRefines == Refused => Abstract!Refuse
BY DEF Refused, Abstract!Refuse, Error, Abstract!Error

LEMMA CreateRefines ==
    ASSUME Inv, NEW t \in TaskIDs, NEW r \in TaskFor(t), Create(t, r)
    PROVE  Abstract!Create(t)
<1>1. Exists(t) <=> Abstract!Exists(t)
  BY DEF Exists, Abstract!Exists, NoTask, Abstract!NoTask
<1>2. ~Exists(t) => Abstract!Put({t})
  BY DEF Create, Abstract!Put, Abstract!TaskFor, TaskFor, Abstract!Task, Task,
         Done, Abstract!Done, Inv, TypeOK
<1>3. Exists(t) => Abstract!Refuse
  BY RefusedRefines DEF Create
<1>4. QED
  BY <1>1, <1>2, <1>3 DEF Abstract!Create

LEMMA UpdateRefines ==
    ASSUME Inv, NEW t \in TaskIDs, NEW r \in TaskFor(t), Update(t, r)
    PROVE  Abstract!Update(t)
<1>1. Exists(t) <=> Abstract!Exists(t)
  BY DEF Exists, Abstract!Exists, NoTask, Abstract!NoTask
<1>2. Exists(t) => Abstract!Put({t})
  BY DEF Update, Abstract!Put, Abstract!TaskFor, TaskFor, Abstract!Task, Task,
         Done, Abstract!Done, Inv, TypeOK
<1>3. ~Exists(t) => Abstract!Refuse
  BY RefusedRefines DEF Update
<1>4. QED
  BY <1>1, <1>2, <1>3 DEF Abstract!Update

LEMMA UpdateManyRefines ==
    ASSUME Inv, NEW b \in Batches, UpdateMany(b)
    PROVE  \E ids \in SUBSET TaskIDs : Abstract!UpdateMany(ids)
<1>1. PICK ids \in SUBSET TaskIDs : b \in [ids -> Task] /\ \A t \in ids : b[t] \in TaskFor(t)
  BY DEF Batches
<1>2. DOMAIN b = ids
  BY <1>1
<1>3. ids \subseteq Abstract!Stored <=> \A t \in ids : Exists(t)
  BY AnswersAgree
<1>4. CASE \E t \in ids : ~Exists(t)
  BY <1>2, <1>3, <1>4, RefusedRefines DEF UpdateMany, Abstract!UpdateMany
<1>5. CASE \A t \in ids : Exists(t)
  <2>1. tasks' = [t \in TaskIDs |-> IF t \in ids THEN b[t] ELSE tasks[t]] /\ reply' = Done
    BY <1>2, <1>5 DEF UpdateMany
  <2>2. tasks' = [t \in TaskIDs |-> IF t \in ids THEN tasks'[t] ELSE tasks[t]]
    BY <2>1
  <2>3. \A t \in ids : tasks'[t] \in TaskFor(t)
    BY <1>1, <2>1
  <2>4. Abstract!Put(ids)
    BY <2>1, <2>2, <2>3 DEF Abstract!Put, Abstract!TaskFor, TaskFor, Abstract!Task, Task,
                            Done, Abstract!Done
  <2>5. QED
    BY <1>3, <1>5, <2>4 DEF Abstract!UpdateMany
<1>6. QED
  BY <1>4, <1>5

LEMMA FieldWritersRefine ==
    ASSUME Inv, NEW t \in TaskIDs
    PROVE  /\ \A s \in Statuses : UpdateStatus(t, s) => Abstract!UpdateStatus(t, s)
           /\ IncrementRestartCounter(t) => Abstract!IncrementRestartCounter(t)
           /\ Delete(t) => Abstract!Delete(t)
<1>1. /\ Exists(t) <=> Abstract!Exists(t)
      /\ NoTask = Abstract!NoTask
      /\ Done = Abstract!Done
  BY DEF Exists, Abstract!Exists, NoTask, Abstract!NoTask, Done, Abstract!Done
<1>2. \A s \in Statuses : UpdateStatus(t, s) => Abstract!UpdateStatus(t, s)
  BY <1>1, RefusedRefines DEF UpdateStatus, Abstract!UpdateStatus
<1>3. IncrementRestartCounter(t) => Abstract!IncrementRestartCounter(t)
  BY <1>1, RefusedRefines DEF IncrementRestartCounter, Abstract!IncrementRestartCounter
<1>4. Delete(t) => Abstract!Delete(t)
  BY <1>1, RefusedRefines DEF Delete, Abstract!Delete
<1>5. QED
  BY <1>2, <1>3, <1>4

LEMMA GetRefines ==
    ASSUME Inv, NEW t \in TaskIDs, Get(t)
    PROVE  Abstract!Get(t)
<1>1. Exists(t) <=> Abstract!Exists(t)
  BY DEF Exists, Abstract!Exists, NoTask, Abstract!NoTask
<1>2. Exists(t) => Answer({t}) = Abstract!Answer({t})
  <2>1. Exists(t) => {u \in {t} : Exists(u)} = {t}
    OBVIOUS
  <2>2. QED
    BY <2>1 DEF Answer, Abstract!Answer
<1>3. QED
  BY <1>1, <1>2 DEF Get, Read, Abstract!Get, Error, Abstract!Error

LEMMA ListsRefine ==
    ASSUME Inv
    PROVE  /\ List => Abstract!List
           /\ \A s \in Services : ListByService(s) => Abstract!ListByService(s)
           /\ \A s \in Statuses : ListByStatus(s) => Abstract!ListByStatus(s)
           /\ \A n \in NodeIDs : ListByNodeID(n) => Abstract!ListByNodeID(n)
<1>1. \A ids \in SUBSET TaskIDs :
        ids \subseteq Abstract!Stored => Answer(ids) = Abstract!Answer(ids)
  <2> SUFFICES ASSUME NEW ids \in SUBSET TaskIDs, ids \subseteq Abstract!Stored
               PROVE  Answer(ids) = Abstract!Answer(ids)
    OBVIOUS
  <2>1. ids \cap Abstract!Stored = ids
    OBVIOUS
  <2>2. QED
    BY <2>1, AnswersAgree
<1>2. List => Abstract!List
  <2>1. TaskIDs \cap Abstract!Stored = Abstract!Stored
    BY AnswersAgree
  <2>2. Answer(TaskIDs) = Abstract!Answer(Abstract!Stored)
    BY <2>1, AnswersAgree
  <2>3. QED
    BY <2>2 DEF List, Read, Abstract!List
<1>3. ASSUME NEW s \in Services, ListByService(s) PROVE Abstract!ListByService(s)
  <2>1. byServiceName[s] = {t \in Abstract!Stored : tasks[t].service = s}
    BY AnswersAgree
  <2>2. byServiceName[s] \in SUBSET TaskIDs
    BY DEF Inv, TypeOK
  <2>3. QED
    BY <1>1, <1>3, <2>1, <2>2 DEF ListByService, Read, Abstract!ListByService
<1>4. ASSUME NEW s \in Statuses, ListByStatus(s) PROVE Abstract!ListByStatus(s)
  <2>1. byStatus[s] = {t \in Abstract!Stored : tasks[t].status = s}
    BY AnswersAgree
  <2>2. byStatus[s] \in SUBSET TaskIDs
    BY DEF Inv, TypeOK
  <2>3. QED
    BY <1>1, <1>4, <2>1, <2>2 DEF ListByStatus, Read, Abstract!ListByStatus
<1>5. ASSUME NEW n \in NodeIDs, ListByNodeID(n) PROVE Abstract!ListByNodeID(n)
  <2>1. byNodeID[n] = {t \in Abstract!Stored : tasks[t].node = n}
    BY AnswersAgree
  <2>2. byNodeID[n] \in SUBSET TaskIDs
    BY DEF Inv, TypeOK
  <2>3. QED
    BY <1>1, <1>5, <2>1, <2>2 DEF ListByNodeID, Read, Abstract!ListByNodeID
<1>6. QED
  BY <1>2, <1>3, <1>4, <1>5

LEMMA CountsRefine ==
    ASSUME Inv
    PROVE  /\ Count => Abstract!Count
           /\ \A s \in Services : CountByService(s) => Abstract!CountByService(s)
           /\ \A s \in Statuses : CountByStatus(s) => Abstract!CountByStatus(s)
<1>1. \A ids \in SUBSET TaskIDs : Number(ids) = Abstract!Number(ids)
  BY DEF Number, Abstract!Number, Cardinality, Abstract!Cardinality
<1>2. Count => Abstract!Count
  <2>1. {t \in TaskIDs : Exists(t)} = Abstract!Stored
    BY AnswersAgree
  <2>2. QED
    BY <1>1, <2>1 DEF Count, Read, Abstract!Count
<1>3. ASSUME NEW s \in Services, CountByService(s) PROVE Abstract!CountByService(s)
  <2>1. byServiceName[s] = {t \in Abstract!Stored : tasks[t].service = s}
    BY AnswersAgree
  <2>2. byServiceName[s] \in SUBSET TaskIDs
    BY DEF Inv, TypeOK
  <2>3. QED
    BY <1>1, <1>3, <2>1, <2>2 DEF CountByService, Read, Abstract!CountByService
<1>4. ASSUME NEW s \in Statuses, CountByStatus(s) PROVE Abstract!CountByStatus(s)
  <2>1. byStatus[s] = {t \in Abstract!Stored : tasks[t].status = s}
    BY AnswersAgree
  <2>2. byStatus[s] \in SUBSET TaskIDs
    BY DEF Inv, TypeOK
  <2>3. QED
    BY <1>1, <1>4, <2>1, <2>2 DEF CountByStatus, Read, Abstract!CountByStatus
<1>5. QED
  BY <1>2, <1>3, <1>4

LEMMA GetByContainerIDRefines ==
    ASSUME Inv, NEW c \in ContainerIDs, GetByContainerID(c)
    PROVE  Abstract!GetByContainerID(c)
<1> DEFINE owners == {t \in Abstract!Stored : tasks[t].container = c}
           t == byContainerID[c]
<1>1. Abstract!Stored = {u \in TaskIDs : Exists(u)}
  BY AnswersAgree
<1>2. \A u \in TaskIDs : tasks[u].container = c => Exists(u)
  BY NoneAssumption DEF Exists, NoTask
<1>3. \A u \in TaskIDs : t = u <=> tasks[u].container = c
  BY DEF Inv, IndicesAgree
<1>4. t \in TaskIDs \cup {None} /\ None \notin TaskIDs
  BY NoneAssumption DEF Inv, TypeOK
<1>5. CASE t = None
  <2>1. owners = {}
    BY <1>1, <1>3, <1>4, <1>5
  <2>2. QED
    BY <1>5, <2>1 DEF GetByContainerID, Read, Abstract!GetByContainerID, Error, Abstract!Error
<1>6. CASE t \in TaskIDs
  <2>1. Exists(t)
    BY <1>2, <1>3, <1>6
  <2>2. owners = {t}
    BY <1>1, <1>3, <1>6, <2>1
  <2>3. reply' = Answer({t}) /\ UNCHANGED tasks
    BY <1>4, <1>6, <2>1 DEF GetByContainerID, Read
  <2>4. {t} \cap Abstract!Stored = {t}
    BY <1>1, <1>6, <2>1
  <2>5. Answer({t}) = Abstract!Answer({t})
    BY <1>6, <2>4, AnswersAgree
  <2>6. QED
    BY <2>2, <2>3, <2>5 DEF Abstract!GetByContainerID
<1>7. QED
  BY <1>4, <1>5, <1>6

LEMMA InitRefines == Init => Abstract!Init
BY DEF Init, Abstract!Init, NoTask, Abstract!NoTask, Done, Abstract!Done

LEMMA NextRefines == Inv /\ [Next]_vars => [Abstract!Next]_Abstract!vars
<1> SUFFICES ASSUME Inv, [Next]_vars PROVE [Abstract!Next]_Abstract!vars
  OBVIOUS
<1>1. CASE UNCHANGED vars
  BY <1>1 DEF vars, Abstract!vars
<1>2. CASE Query
  <2>1. ASSUME NEW t \in TaskIDs, Get(t) PROVE Abstract!Get(t)
    BY <2>1, GetRefines
  <2>2. ASSUME NEW c \in ContainerIDs, GetByContainerID(c) PROVE Abstract!GetByContainerID(c)
    BY <2>2, GetByContainerIDRefines
  <2>3. QED
    BY <1>2, <2>1, <2>2, ListsRefine, CountsRefine DEF Query, Abstract!Next
<1>3. CASE Write
  <2>1. ASSUME NEW t \in TaskIDs, NEW r \in TaskFor(t), Create(t, r) PROVE Abstract!Create(t)
    BY <2>1, CreateRefines
  <2>2. ASSUME NEW t \in TaskIDs, NEW r \in TaskFor(t), Update(t, r) PROVE Abstract!Update(t)
    BY <2>2, UpdateRefines
  <2>3. ASSUME NEW b \in Batches, UpdateMany(b)
        PROVE  \E ids \in SUBSET TaskIDs : Abstract!UpdateMany(ids)
    BY <2>3, UpdateManyRefines
  <2>4. QED
    BY <1>3, <2>1, <2>2, <2>3, FieldWritersRefine DEF Write, Abstract!Next
<1>4. QED
  BY <1>1, <1>2, <1>3 DEF Next

(* The in-memory store, indices and all, is a correct TaskStore. *)
THEOREM StoreRefinement == Spec => ImplementsTaskStore
<1>1. QED
  BY InitRefines, InitInv, InvInductive, NextRefines, PTL
     DEF Spec, ImplementsTaskStore, Abstract!Spec
==============================================================================
