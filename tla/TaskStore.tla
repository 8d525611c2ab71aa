------------------------------ MODULE TaskStore ------------------------------
(***************************************************************************)
(* What the orchestrator expects of its task store, the TaskStore          *)
(* interface of store/interface.go: a map from task IDs to task records,   *)
(* each operation of which takes effect at one instant and answers its     *)
(* caller.  There are no indices here: every query is a filter over the    *)
(* map.  MemoryTaskStore is shown to implement this module.                *)
(***************************************************************************)
EXTENDS TaskRecords

VARIABLES tasks,    \* mem.tasks
          reply     \* what the last operation returned

vars == <<tasks, reply>>

Exists(t) == tasks[t] # NoTask

Stored == {t \in TaskIDs : Exists(t)}

Error == [ok |-> FALSE, found |-> {}, count |-> 0]
Answer(ids) == [ok |-> TRUE, found |-> {<<t, tasks[t]>> : t \in ids}, count |-> 0]
Number(ids) == [ok |-> TRUE, found |-> {}, count |-> Cardinality(ids)]
Done == [ok |-> TRUE, found |-> {}, count |-> 0]

Init ==
    /\ tasks = [t \in TaskIDs |-> NoTask]
    /\ reply = Done

(* The tasks of ids get new records, the others keep theirs. *)
Put(ids) ==
    /\ \A t \in ids : tasks'[t] \in TaskFor(t)
    /\ tasks' = [t \in TaskIDs |-> IF t \in ids THEN tasks'[t] ELSE tasks[t]]
    /\ reply' = Done

Refuse == reply' = Error /\ UNCHANGED tasks

Create(t) == IF Exists(t) THEN Refuse ELSE Put({t})

Update(t) == IF Exists(t) THEN Put({t}) ELSE Refuse

(* All the tasks of the batch are updated, or none is. *)
UpdateMany(ids) == IF ids \subseteq Stored THEN Put(ids) ELSE Refuse

UpdateStatus(t, s) ==
    IF Exists(t)
    THEN reply' = Done /\ tasks' = [tasks EXCEPT ![t].status = s]
    ELSE Refuse

IncrementRestartCounter(t) ==
    IF Exists(t)
    THEN /\ tasks[t].restarts < MaxRestarts
         /\ reply' = Done
         /\ tasks' = [tasks EXCEPT ![t].restarts = @ + 1]
    ELSE Refuse

Delete(t) ==
    IF Exists(t)
    THEN reply' = Done /\ tasks' = [tasks EXCEPT ![t] = NoTask]
    ELSE Refuse

Get(t) ==
    /\ reply' = IF Exists(t) THEN Answer({t}) ELSE Error
    /\ UNCHANGED tasks

List ==
    /\ reply' = Answer(Stored)
    /\ UNCHANGED tasks

ListByService(s) ==
    /\ reply' = Answer({t \in Stored : tasks[t].service = s})
    /\ UNCHANGED tasks

ListByStatus(s) ==
    /\ reply' = Answer({t \in Stored : tasks[t].status = s})
    /\ UNCHANGED tasks

ListByNodeID(n) ==
    /\ reply' = Answer({t \in Stored : tasks[t].node = n})
    /\ UNCHANGED tasks

GetByContainerID(c) ==
    LET owners == {t \in Stored : tasks[t].container = c}
    IN  /\ reply' = IF owners = {} THEN Error ELSE Answer(owners)
        /\ UNCHANGED tasks

Count ==
    /\ reply' = Number(Stored)
    /\ UNCHANGED tasks

CountByService(s) ==
    /\ reply' = Number({t \in Stored : tasks[t].service = s})
    /\ UNCHANGED tasks

CountByStatus(s) ==
    /\ reply' = Number({t \in Stored : tasks[t].status = s})
    /\ UNCHANGED tasks

Next ==
    \/ \E t \in TaskIDs :
          \/ Create(t) \/ Update(t) \/ Delete(t) \/ Get(t)
          \/ \E s \in Statuses : UpdateStatus(t, s)
          \/ IncrementRestartCounter(t)
    \/ \E ids \in SUBSET TaskIDs : UpdateMany(ids)
    \/ List \/ Count
    \/ \E s \in Services : ListByService(s) \/ CountByService(s)
    \/ \E s \in Statuses : ListByStatus(s) \/ CountByStatus(s)
    \/ \E n \in NodeIDs : ListByNodeID(n)
    \/ \E c \in ContainerIDs : GetByContainerID(c)

Spec == Init /\ [][Next]_vars
==============================================================================
