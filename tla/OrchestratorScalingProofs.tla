---------------------- MODULE OrchestratorScalingProofs ----------------------
(***************************************************************************)
(* What scale down decides on its copy of the tasks holds of the tasks as  *)
(* they are.  The copy may be older than the records, and other goroutines *)
(* write to them meanwhile; but                                            *)
(*                                                                         *)
(*   - all copies of a task on which somebody may act name one service and *)
(*     one node, whoever has written what back in between (SameTask);      *)
(*   - a running task that is not wanted any more is the one scale down    *)
(*     has at hand (GivenUpAtHand), so every task that runs, in the copy   *)
(*     and in the store, is there to stay when the next one is chosen.     *)
(***************************************************************************)
EXTENDS OrchestratorProofs

USE DEF storeVars, dockerVars, executorVars, scalingVars, reconcileVars, healthVars,
        budgetVars, schedulerVars

(* The records of t that somebody may write to the store. *)
Copies(t) == {tasks[t], snap[t], seen[t], mine[t]}

(* Those on which somebody may act name the same service and node. *)
SameTask(t) ==
    \A c, d \in Copies(t) : ~Done(c) /\ ~Done(d) => c.service = d.service /\ c.node = d.node

(* Scale down is stopping t. *)
GivingUp(t) == rec.cur = t /\ rec.pc \in ScalingDown

(* A task that runs and shall not is the one that scale down is stopping. *)
GivenUpAtHand(t) == tasks[t].status = "running" /\ tasks[t].desired = "stopped" => GivingUp(t)

(* What scale down has queued are tasks of the service at hand. *)
QueuedOfService(t) == t \in rec.queue => snap[t].service = rec.svc

ScalingInv ==
    Inv /\ \A t \in Tasks : SameTask(t) /\ GivenUpAtHand(t) /\ QueuedOfService(t)

(***************************************************************************)
(* What the steps have in common.                                          *)
(***************************************************************************)

(* Nobody acts on r, or it names what a copy of t names. *)
From(r, t) ==
    Done(r) \/ \E c \in Copies(t) : ~Done(c) /\ r.service = c.service /\ r.node = c.node

(* What is copied from one to the other stays the same task. *)
LEMMA CopyingKeepsTask ==
    ASSUME NEW t \in Tasks, SameTask(t),
           From(tasks'[t], t), From(snap'[t], t), From(seen'[t], t), From(mine'[t], t)
    PROVE  SameTask(t)'
<1>1. ASSUME NEW c \in Copies(t)', NEW d \in Copies(t)', ~Done(c), ~Done(d)
      PROVE  c.service = d.service /\ c.node = d.node
  <2>1. From(c, t) /\ From(d, t)
    BY <1>1 DEF Copies
  <2>2. PICK b \in Copies(t) : ~Done(b) /\ c.service = b.service /\ c.node = b.node
    BY <1>1, <2>1 DEF From
  <2>3. PICK e \in Copies(t) : ~Done(e) /\ d.service = e.service /\ d.node = e.node
    BY <1>1, <2>1 DEF From
  <2> QED
    BY <2>2, <2>3 DEF SameTask
<1> QED
  BY <1>1 DEF SameTask, Copies, Done

(* A copy of t is one. *)
LEMMA OwnCopies ==
    ASSUME NEW t \in Tasks
    PROVE  From(tasks[t], t) /\ From(snap[t], t) /\ From(seen[t], t) /\ From(mine[t], t)
              /\ From(Absent, t)
BY DEF From, Copies, Done, Absent

(* A step that leaves the task and its copies alone. *)
LEMMA TaskUntouched ==
    ASSUME NEW t \in Tasks, SameTask(t), GivenUpAtHand(t),
           tasks'[t] = tasks[t], seen'[t] \in {seen[t], tasks[t], Absent},
           snap'[t] \in {snap[t], tasks[t], Absent},
           mine'[t] \in {mine[t], Absent}, GivingUp(t) => GivingUp(t)'
    PROVE  SameTask(t)' /\ GivenUpAtHand(t)'
<1>1. SameTask(t)'
  BY CopyingKeepsTask, OwnCopies
<1> QED
  BY <1>1 DEF GivenUpAtHand

(* A new task is created at an ID of which nobody holds a copy to act on. *)
LEMMA LaunchIsNew ==
    ASSUME ScalingInv, NEW t \in Tasks, NEW s \in Services, NEW n \in Nodes, Launch(s, n),
           UNCHANGED <<snap, seen>>, GivingUp(t) => GivingUp(t)'
    PROVE  SameTask(t)' /\ GivenUpAtHand(t)'
<1>1. PICK u \in Tasks : /\ Fresh(u)
                         /\ tasks' = [tasks EXCEPT ![u] = NewTask(s, n)]
                         /\ mine' = [mine EXCEPT ![u] = NewTask(s, n)]
  BY DEF Launch
<1>2. SameTask(t) /\ GivenUpAtHand(t) /\ TypeOK
  BY DEF ScalingInv, Inv
<1>3. CASE t = u
  <2>1. Done(snap[t]) /\ seen[t] = Absent
    BY <1>1, <1>3 DEF Fresh, Unused
  <2>2. tasks'[t] = NewTask(s, n) /\ mine'[t] = NewTask(s, n)
    BY <1>1, <1>2, <1>3 DEF TypeOK
  <2>3. \A r \in Copies(t)' : Done(r) \/ r = NewTask(s, n)
    BY <2>1, <2>2 DEF Copies, Done, Absent
  <2>4. SameTask(t)'
    BY <2>3 DEF SameTask, Done
  <2> QED
    BY <2>2, <2>4 DEF GivenUpAtHand, NewTask
<1>4. CASE t # u
  BY <1>1, <1>2, <1>4, TaskUntouched DEF TypeOK
<1> QED
  BY <1>3, <1>4

(* A record that is stopped for good. *)
LEMMA RetiringKeepsTask ==
    ASSUME ScalingInv, NEW t \in Tasks, NEW u \in Tasks, NEW r \in Record,
           UNCHANGED <<seen, mine>>, Update(u, Retired(r)),
           snap' = snap \/ snap' = [snap EXCEPT ![u] = Retired(r)],
           GivingUp(t) => GivingUp(t)' \/ t = u
    PROVE  SameTask(t)' /\ GivenUpAtHand(t)'
<1>1. SameTask(t) /\ GivenUpAtHand(t) /\ TypeOK
  BY DEF ScalingInv, Inv
<1>2. /\ tasks'[t] = IF t = u THEN Retired(r) ELSE tasks[t]
      /\ snap'[t] \in {snap[t], IF t = u THEN Retired(r) ELSE snap[t]}
  BY <1>1 DEF Update, TypeOK
<1>3. CASE t = u
  <2>1. Done(Retired(r)) /\ Retired(r).status = "stopped"
    BY RetiredIsDone DEF Retired, Record
  <2>2. From(Retired(r), t)
    BY <2>1 DEF From
  <2> QED
    BY <1>1, <1>2, <1>3, <2>1, <2>2, CopyingKeepsTask, OwnCopies DEF GivenUpAtHand
<1>4. CASE t # u
  BY <1>1, <1>2, <1>4, TaskUntouched
<1> QED
  BY <1>3, <1>4

(***************************************************************************)
(* The steps of the goroutines.                                            *)
(***************************************************************************)

(* The executor writes its own object, which is of its task and wanted. *)
LEMMA ExecutorKeepsTask ==
    ASSUME ScalingInv, NEW t \in Tasks, NEW u \in Tasks, Executor(u)
    PROVE  SameTask(t)' /\ GivenUpAtHand(t)'
<1>0. SameTask(t) /\ GivenUpAtHand(t) /\ TypeOK
  BY DEF ScalingInv, Inv
<1>1. UNCHANGED <<snap, seen, rec>>
  BY DEF Executor, ExecStarting, ExecCreateContainer, ExecRunning, ExecFailed, ExecRelease
<1>2. CASE ExecCreateContainer(u)
  BY <1>0, <1>1, <1>2, TaskUntouched DEF ExecCreateContainer, GivingUp
<1>3. CASE ExecRelease(u)
  <2>1. tasks'[t] = tasks[t] /\ mine'[t] \in {mine[t], Absent}
    BY <1>0, <1>3 DEF ExecRelease, TypeOK
  <2> QED
    BY <1>0, <1>1, <2>1, TaskUntouched DEF GivingUp
<1>4. CASE ExecStarting(u) \/ ExecRunning(u) \/ ExecFailed(u)
  <2>1. phase[u] # "none"
    BY <1>4 DEF ExecStarting, ExecRunning, ExecFailed, ExecutorStep
  <2>2. mine[u] \in Record /\ mine[u].desired = "running"
    BY <1>0, <2>1 DEF ScalingInv, Inv, RecordsPlaced, TypeOK
  <2>3. PICK r : /\ ExecutorUpdate(u, r) /\ r.desired = "running"
                 /\ r.service = mine[u].service /\ r.node = mine[u].node
    <3>1. CASE ExecStarting(u)
      BY <2>2, <3>1 DEF ExecStarting, Record
    <3>2. CASE ExecRunning(u)
      <4> DEFINE r == [mine[u] EXCEPT !.status = "running", !.container = TRUE]
      <4>1. r.desired = "running" /\ r.service = mine[u].service /\ r.node = mine[u].node
        BY <2>2 DEF Record
      <4> QED
        BY <3>2, <4>1 DEF ExecRunning
    <3>3. CASE ExecFailed(u)
      BY <2>2, <3>3 DEF ExecFailed, Record
    <3> QED
      BY <1>4, <3>1, <3>2, <3>3
  <2>4. CASE t = u
    <3>1. tasks'[t] = r /\ mine'[t] \in {Absent, r}
      BY <1>0, <2>3, <2>4 DEF ExecutorUpdate, Update, TypeOK
    <3>2. From(r, t)
      BY <2>2, <2>3, <2>4 DEF From, Copies, Done
    <3> QED
      BY <1>0, <1>1, <2>3, <3>1, <3>2, CopyingKeepsTask, OwnCopies DEF GivenUpAtHand
  <2>5. CASE t # u
    <3>1. tasks'[t] = tasks[t] /\ mine'[t] = mine[t]
      BY <1>0, <2>3, <2>5 DEF ExecutorUpdate, Update, TypeOK
    <3> QED
      BY <1>0, <1>1, <3>1, TaskUntouched DEF GivingUp
  <2> QED
    BY <2>4, <2>5
<1> QED
  BY <1>2, <1>3, <1>4 DEF Executor

(* initServices creates tasks. *)
LEMMA BootKeepsTask ==
    ASSUME ScalingInv, Boot, NEW t \in Tasks
    PROVE  SameTask(t)' /\ GivenUpAtHand(t)'
<1>0. SameTask(t) /\ GivenUpAtHand(t) /\ TypeOK /\ RegistersSound
  BY DEF ScalingInv, Inv
<1>1. CASE BootSelect \/ \E s \in Services : BootService(s)
  BY <1>0, <1>1, TaskUntouched DEF BootSelect, BootService, GivingUp
<1>2. CASE BootLaunch
  <2>1. /\ Launch(boot.svc, boot.picked) /\ boot.svc \in Services /\ boot.picked \in Nodes
        /\ UNCHANGED <<snap, seen, rec>>
    BY <1>0, <1>2 DEF BootLaunch, RegistersSound, TypeOK, BootRegisters
  <2> QED
    BY <2>1, LaunchIsNew DEF GivingUp
<1> QED
  BY <1>1, <1>2 DEF Boot

(* The health check writes back the copy it has, as failed. *)
LEMMA HealthKeepsTask ==
    ASSUME ScalingInv, Health, NEW t \in Tasks
    PROVE  SameTask(t)' /\ GivenUpAtHand(t)'
<1>0. SameTask(t) /\ GivenUpAtHand(t) /\ TypeOK /\ RegistersSound
  BY DEF ScalingInv, Inv
<1>1. UNCHANGED <<snap, mine, rec>>
  BY DEF Health, HealthList, HealthCheck, HealthFail, HealthRelease, OnlyHealth
<1>2. CASE HealthList \/ HealthRelease \/ \E u \in Tasks : HealthCheck(u)
  <2>1. tasks'[t] = tasks[t] /\ seen'[t] \in {seen[t], tasks[t], Absent}
    BY <1>0, <1>2 DEF HealthList, HealthRelease, HealthCheck, Copied, TypeOK
  <2> QED
    BY <1>0, <1>1, <2>1, TaskUntouched DEF GivingUp
<1>3. CASE HealthFail
  <2>1. /\ tasks' = [tasks EXCEPT ![health.cur] = [seen[health.cur] EXCEPT !.status = "failed"]]
        /\ seen' = seen /\ health.cur \in Tasks /\ seen[health.cur] # Absent
    BY <1>0, <1>3 DEF HealthFail, Update, RegistersSound
  <2>2. CASE t = health.cur
    <3>1. seen[t] \in Record /\ seen[t].status = "running"
      BY <1>0, <2>1, <2>2 DEF ScalingInv, Inv, RecordsPlaced, TypeOK
    <3>2. /\ tasks'[t].status = "failed"
          /\ tasks'[t].service = seen[t].service /\ tasks'[t].node = seen[t].node
      BY <1>0, <2>1, <2>2, <3>1 DEF TypeOK, Record
    <3>3. From(tasks'[t], t)
      BY <3>1, <3>2 DEF From, Copies, Done, Terminated
    <3> QED
      BY <1>0, <1>1, <2>1, <3>2, <3>3, CopyingKeepsTask, OwnCopies DEF GivenUpAtHand
  <2>3. CASE t # health.cur
    <3>1. tasks'[t] = tasks[t]
      BY <1>0, <2>1, <2>3 DEF TypeOK
    <3> QED
      BY <1>0, <1>1, <2>1, <3>1, TaskUntouched DEF GivingUp
  <2> QED
    BY <2>2, <2>3
<1> QED
  BY <1>2, <1>3 DEF Health

(* Where the loop takes a task down it stays with the task, and where it   *)
(* is not scaling down no running task is unwanted.                        *)
LEMMA ReconcileKeepsTask ==
    ASSUME ScalingInv, Reconcile, NEW t \in Tasks
    PROVE  SameTask(t)' /\ GivenUpAtHand(t)'
<1>0. SameTask(t) /\ GivenUpAtHand(t) /\ TypeOK /\ RegistersSound
  BY DEF ScalingInv, Inv
<1> DEFINE Elsewhere == rec.pc \notin ScalingDown
<1>1. CASE StartPass
  <2>1. tasks'[t] = tasks[t] /\ snap'[t] \in {tasks[t], Absent} /\ Elsewhere
    BY <1>1 DEF StartPass, OnlyTheLoop, Copied, At, ScalingDown
  <2> QED
    BY <1>0, <1>1, <2>1, TaskUntouched DEF StartPass, OnlyTheLoop, NotTheLoops, GivingUp
<1>2. CASE DrainDone \/ ServiceDone
  <2>1. snap'[t] \in {snap[t], Absent}
    BY <1>2, NextServiceIdle DEF DrainDone, ServiceDone
  <2>2. Elsewhere
    BY <1>2 DEF DrainDone, ServiceDone, ScalingDone, At, ScalingDown
  <2> QED
    BY <1>0, <1>2, <2>1, <2>2, TaskUntouched
       DEF DrainDone, ServiceDone, OnlyTheLoop, NotTheLoops, GivingUp
<1>3. CASE EvacuateDone \/ \E n \in Nodes : DrainNode(n)
  BY <1>0, <1>3, TaskUntouched
     DEF EvacuateDone, DrainNode, OnlyTheLoop, NotTheLoops, GivingUp, At, ScalingDown
<1>4. CASE Scale \/ SelectNode \/ (\E u \in Tasks : ScaleDownSkip(u)) \/ \E f \in 1..3 : performScaleUp(f)
  <2>1. Elsewhere /\ OnlyTheLoop /\ UNCHANGED snap
    BY <1>4 DEF Scale, SelectNode, ScaleDownSkip, NextToStop, performScaleUp, Predicting,
                ScalingDone, At, Creating, ScalingDown
  <2> QED
    BY <1>0, <2>1, TaskUntouched DEF OnlyTheLoop, NotTheLoops, GivingUp
<1>5. CASE performScaleDown
  <2>1. Elsewhere /\ OnlyTheLoop /\ snap'[t] \in {snap[t], tasks[t], Absent}
    BY <1>5 DEF performScaleDown, Predicting, ScalingDone, At, ScalingDown
  <2> QED
    BY <1>0, <2>1, TaskUntouched DEF OnlyTheLoop, NotTheLoops, GivingUp
<1>6. CASE \E u \in Tasks : EvacuateRelease(u)
  BY <1>0, <1>6, TaskUntouched DEF EvacuateRelease, NotTheLoops, GivingUp, At, ScalingDown
<1>7. CASE RestartRelease \/ ScaleDownRelease
  <2>1. UNCHANGED <<tasks, snap, seen, mine>> /\ (GivingUp(t) => GivingUp(t)')
    BY <1>0, <1>7 DEF RestartRelease, ScaleDownRelease, NotTheLoops, GivingUp, At, Goto,
                      ScalingDown, TypeOK, ReconcileRegisters
  <2> QED
    BY <1>0, <2>1, TaskUntouched
<1>8. CASE TakeDown
  <2>1. UNCHANGED <<tasks, snap, seen, mine>>
    BY <1>8 DEF TakeDown, NotTheLoops
  <2>2. ASSUME GivingUp(t) PROVE GivingUp(t)'
    <3>1. rec.pc \in {"scaleDownStop", "scaleDownRemove"}
      BY <1>8, <2>2 DEF TakeDown, GivingUp, ScalingDown, Stopping, Removing
    <3>2. CASE rec.pc = "scaleDownStop"
      <4>1. Goto(Stopping["scaleDownStop"])
        BY <1>8, <3>2 DEF TakeDown, Removing
      <4> QED
        BY <1>0, <2>2, <4>1 DEF Goto, Stopping, GivingUp, ScalingDown, TypeOK, ReconcileRegisters
    <3>3. CASE rec.pc = "scaleDownRemove"
      <4>1. rec' = [rec EXCEPT !.pc = "scaleDownRelease", !.cur = @]
        BY <1>8, <3>3 DEF TakeDown, Removing, Stopping, At
      <4> QED
        BY <1>0, <2>2, <4>1 DEF GivingUp, ScalingDown, TypeOK, ReconcileRegisters
    <3> QED
      BY <3>1, <3>2, <3>3
  <2> QED
    BY <1>0, <2>1, <2>2, TaskUntouched
<1>9. CASE LaunchPicked
  <2>1. /\ Launch(rec.svc, rec.picked) /\ rec.svc \in Services /\ rec.picked \in Nodes
        /\ UNCHANGED <<snap, seen>> /\ Elsewhere
    <3>1. rec.picked \in Nodes /\ rec.pc \in Creating
      BY <1>0, <1>9 DEF LaunchPicked, RegistersSound, TypeOK, ReconcileRegisters
    <3> QED
      BY <1>0, <1>9, <3>1
         DEF LaunchPicked, NotTheLoops, Creating, ScalingDown, RegistersSound
  <2> QED
    BY <2>1, LaunchIsNew DEF GivingUp
<1>10. CASE EvacuateMark
  <2>1. /\ rec.cur \in Tasks /\ drained[rec.cur] \in Record /\ Elsewhere
        /\ Update(rec.cur, Retired(drained[rec.cur])) /\ UNCHANGED <<snap, seen, mine>>
    BY <1>0, <1>10, AtHand
       DEF EvacuateMark, NotTheLoops, At, Evacuating, ScalingDown, ScalingInv
  <2> QED
    BY <2>1, RetiringKeepsTask DEF GivingUp
<1>11. CASE RestartMark \/ ScaleDownMark
  <2>1. /\ rec.cur \in Tasks /\ snap[rec.cur] \in Record
        /\ Update(rec.cur, Retired(snap[rec.cur])) /\ UNCHANGED <<seen, mine>>
        /\ snap' = [snap EXCEPT ![rec.cur] = Retired(snap[rec.cur])]
    BY <1>0, <1>11, AtHand
       DEF RestartMark, ScaleDownMark, NotTheLoops, At, Restarting, ScalingDown, ScalingInv
  <2> QED
    BY <2>1, RetiringKeepsTask DEF GivingUp
<1>12. CASE \E u \in Tasks : RestartIncrement(u)
  <2>1. PICK u \in Tasks : RestartIncrement(u)
    BY <1>12
  <2>2. UNCHANGED <<snap, seen, mine>> /\ Elsewhere
    BY <2>1 DEF RestartIncrement, NotTheLoops, At, ScalingDown
  <2>3. tasks'[t] = tasks[t] \/ tasks'[t] = [tasks[t] EXCEPT !.restarts = @ + 1]
    BY <1>0, <2>1 DEF RestartIncrement, TypeOK
  <2>4. /\ tasks'[t].status = tasks[t].status /\ tasks'[t].desired = tasks[t].desired
        /\ tasks'[t].service = tasks[t].service /\ tasks'[t].node = tasks[t].node
    BY <1>0, <2>3 DEF TypeOK, Record
  <2>5. From(tasks'[t], t)
    BY <2>4 DEF From, Copies, Done
  <2> QED
    BY <1>0, <2>2, <2>4, <2>5, CopyingKeepsTask, OwnCopies DEF GivenUpAtHand, GivingUp
<1>13. CASE \E u \in Tasks : ScaleDownDesire(u)
  <2>1. PICK u \in Tasks : ScaleDownDesire(u)
    BY <1>13
  <2>2. /\ UNCHANGED <<seen, mine>> /\ snap[u].status = "running" /\ snap[u] \in Record
        /\ rec'.cur = u /\ rec'.pc \in ScalingDown /\ Elsewhere
    BY <1>0, <2>1 DEF ScaleDownDesire, NextToStop, NotTheLoops, At, ScalingDown, RegistersSound,
                      TypeOK, ReconcileRegisters
  <2>3. CASE t = u
    <3>1. tasks'[t] = snap'[t] /\ snap'[t] = [snap[t] EXCEPT !.desired = "stopped"]
      BY <1>0, <2>1, <2>3 DEF ScaleDownDesire, Update, TypeOK
    <3>2. From(snap'[t], t)
      BY <2>2, <2>3, <3>1 DEF From, Copies, Done, Terminated, Record
    <3> QED
      BY <1>0, <2>2, <2>3, <3>1, <3>2, CopyingKeepsTask, OwnCopies DEF GivenUpAtHand, GivingUp
  <2>4. CASE t # u
    <3>1. tasks'[t] = tasks[t] /\ snap'[t] = snap[t]
      BY <1>0, <2>1, <2>4 DEF ScaleDownDesire, Update, TypeOK
    <3> QED
      BY <1>0, <2>2, <3>1, TaskUntouched DEF GivingUp
  <2> QED
    BY <2>3, <2>4
<1> QED
  BY <1>1, <1>2, <1>3, <1>4, <1>5, <1>6, <1>7, <1>8, <1>9, <1>10, <1>11, <1>12, <1>13
     DEF Reconcile

(* Neither the daemon nor the API writes to a record. *)
LEMMA EnvironmentKeepsTask ==
    ASSUME ScalingInv, Environment \/ UNCHANGED vars, NEW t \in Tasks
    PROVE  SameTask(t)' /\ GivenUpAtHand(t)'
<1>1. UNCHANGED <<tasks, snap, seen, mine, rec>>
  BY DEF Environment, ContainerLost, SetNodeStatus, CooldownOver, vars
<1> QED
  BY <1>1, TaskUntouched DEF ScalingInv, GivingUp

(* The queue is made by Scale and by performScaleDown.  The other steps at *)
(* most take tasks out of it, for the service it was made for.             *)
LEMMA QueueShrinks ==
    ASSUME Inv, Reconcile, ~Scale, ~performScaleDown
    PROVE  \/ rec'.queue = {}
           \/ rec'.queue \subseteq rec.queue /\ rec'.svc = rec.svc
<1>0. rec \in ReconcileRegisters /\ RegistersSound
  BY DEF Inv, TypeOK
<1>1. ASSUME rec.pc \notin {"scaleDown"} \cup ScalingDown PROVE rec.queue = {}
  BY <1>0, <1>1 DEF RegistersSound
<1>2. CASE StartPass \/ EvacuateDone \/ \E n \in Nodes : DrainNode(n)
  BY <1>0, <1>2 DEF StartPass, EvacuateDone, DrainNode, Goto, ReconcileRegisters
<1>3. CASE DrainDone \/ ServiceDone
  <2>1. PICK left : ToNextService(left)
    BY <1>3 DEF DrainDone, ServiceDone
  <2>2. \/ rec' = IdleReconcile
        \/ \E s \in left : rec' = [IdleReconcile EXCEPT !.pc = "restart", !.svc = s,
                                                       !.servicesLeft = left \ {s}]
    BY <2>1 DEF ToNextService
  <2>3. CASE rec' = IdleReconcile
    BY <2>3 DEF IdleReconcile
  <2>4. ASSUME NEW s, rec' = [IdleReconcile EXCEPT !.pc = "restart", !.svc = s,
                                                  !.servicesLeft = left \ {s}]
        PROVE  rec'.queue = {}
    BY <2>4 DEF IdleReconcile
  <2> QED
    BY <2>2, <2>3, <2>4
<1>4. CASE EvacuateMark
  BY <1>0, <1>4 DEF EvacuateMark, ReconcileRegisters
<1>5. CASE \E t \in Tasks : EvacuateRelease(t)
  <2>1. PICK t \in Tasks : EvacuateRelease(t)
    BY <1>5
  <2>2. rec'.queue = rec.queue
    BY <1>0, <2>1 DEF EvacuateRelease, ReconcileRegisters
  <2>3. rec.queue = {}
    BY <1>1, <2>1 DEF EvacuateRelease, At, ScalingDown
  <2> QED
    BY <2>2, <2>3
<1>6. CASE \E t \in Tasks : RestartIncrement(t) \/ ScaleDownSkip(t) \/ ScaleDownDesire(t)
  <2>1. PICK t \in Tasks : RestartIncrement(t) \/ ScaleDownSkip(t) \/ ScaleDownDesire(t)
    BY <1>6
  <2>2. CASE RestartIncrement(t)
    BY <1>0, <2>2 DEF RestartIncrement, ReconcileRegisters
  <2>3. CASE ScaleDownSkip(t)
    BY <1>0, <2>3 DEF ScaleDownSkip, ReconcileRegisters
  <2>4. CASE ScaleDownDesire(t)
    BY <1>0, <2>4 DEF ScaleDownDesire, ReconcileRegisters
  <2> QED
    BY <2>1, <2>2, <2>3, <2>4
<1>7. CASE RestartRelease \/ ScaleDownRelease \/ TakeDown
  BY <1>0, <1>7 DEF RestartRelease, ScaleDownRelease, TakeDown, Goto, ReconcileRegisters
<1>8. CASE RestartMark
  BY <1>0, <1>8 DEF RestartMark, ReconcileRegisters
<1>9. CASE ScaleDownMark
  BY <1>0, <1>9 DEF ScaleDownMark, ReconcileRegisters
<1>10. CASE SelectNode \/ LaunchPicked
  BY <1>0, <1>10 DEF SelectNode, LaunchPicked, ReconcileRegisters
<1>11. CASE \E f \in 1..3 : performScaleUp(f)
  BY <1>0, <1>11 DEF performScaleUp, ReconcileRegisters
<1> QED
  BY <1>2, <1>3, <1>4, <1>5, <1>6, <1>7, <1>8, <1>9, <1>10, <1>11 DEF Reconcile

(* The steps that neither make the queue nor copy tasks leave the services *)
(* of the queued tasks alone.                                              *)
LEMMA QueuedCopiesStay ==
    ASSUME Inv, Reconcile, ~performScaleDown, rec.queue # {}, NEW t \in rec.queue
    PROVE  rec'.queue = {} \/ snap'[t].service = snap[t].service
<1>0. TypeOK /\ RegistersSound /\ t \in Tasks
  BY DEF Inv, TypeOK, ReconcileRegisters
<1>1. rec.pc \in {"scaleDown"} \cup ScalingDown
  BY <1>0 DEF RegistersSound
<1>2. CASE ServiceDone
  <2>1. rec' = IdleReconcile \/ UNCHANGED snap
    BY <1>2 DEF ServiceDone, ToNextService
  <2> QED
    BY <2>1 DEF IdleReconcile
<1>3. CASE ScaleDownMark
  <2>1. snap' = [snap EXCEPT ![rec.cur] = Retired(snap[rec.cur])]
    BY <1>3 DEF ScaleDownMark
  <2>2. Retired(snap[t]).service = snap[t].service
    BY <1>0 DEF Retired, TypeOK, Record
  <2> QED
    BY <1>0, <2>1, <2>2 DEF TypeOK
<1>4. CASE \E u \in Tasks : ScaleDownDesire(u)
  <2>1. PICK u \in Tasks : snap' = [snap EXCEPT ![u].desired = "stopped"]
    BY <1>4 DEF ScaleDownDesire
  <2>2. [snap[t] EXCEPT !.desired = "stopped"].service = snap[t].service
    BY <1>0 DEF TypeOK, Record
  <2> QED
    BY <1>0, <2>1, <2>2 DEF TypeOK
<1>5. ~(StartPass \/ DrainDone \/ RestartMark)
  BY <1>1 DEF StartPass, DrainDone, RestartMark, At, ScalingDown
<1>6. CASE ~(ServiceDone \/ ScaleDownMark \/ \E u \in Tasks : ScaleDownDesire(u))
  <2>1. UNCHANGED snap
    BY <1>5, <1>6
       DEF Reconcile, EvacuateMark, EvacuateDone, DrainNode, EvacuateRelease, RestartIncrement,
           ScaleDownSkip, RestartRelease, Scale, SelectNode, LaunchPicked, ScaleDownRelease,
           TakeDown, performScaleUp
  <2> QED
    BY <2>1
<1> QED
  BY <1>2, <1>3, <1>4, <1>6

(* The queue is made for one service and emptied before the next one. *)
LEMMA QueueKept ==
    ASSUME ScalingInv, [Next]_vars, NEW t \in Tasks
    PROVE  QueuedOfService(t)'
<1>0. QueuedOfService(t) /\ TypeOK
  BY DEF ScalingInv, Inv
<1>1. CASE ~Reconcile
  <2>1. UNCHANGED <<rec, snap>>
    BY <1>1 DEF Next, Boot, BootService, BootSelect, BootLaunch, Health, HealthList, HealthCheck,
                HealthFail, HealthRelease, OnlyHealth, Executor, ExecStarting,
                ExecCreateContainer, ExecRunning, ExecFailed, ExecRelease, Environment,
                ContainerLost, SetNodeStatus, CooldownOver, vars
  <2> QED
    BY <1>0, <2>1 DEF QueuedOfService
<1>2. CASE Scale
  <2>1. /\ rec'.queue \subseteq RunningCopies(rec.svc) /\ rec'.svc = rec.svc
        /\ UNCHANGED snap
    BY <1>0, <1>2 DEF Scale, TypeOK, ReconcileRegisters
  <2> QED
    BY <2>1 DEF QueuedOfService, RunningCopies, OfStatus
<1>3. CASE performScaleDown
  <2>1. /\ rec'.queue = {u \in Tasks : tasks[u].service = rec.svc /\ tasks[u].status = "running"}
        /\ rec'.svc = rec.svc
    BY <1>0, <1>3 DEF performScaleDown, TypeOK, ReconcileRegisters
  <2>2. tasks[t].service = rec.svc /\ ~Done(tasks[t]) => snap'[t] = tasks[t]
    BY <1>3 DEF performScaleDown
  <2>3. tasks[t].status = "running" => ~Done(tasks[t])
    BY DEF Done, Terminated
  <2> QED
    BY <2>1, <2>2, <2>3 DEF QueuedOfService
<1>4. CASE Reconcile /\ ~Scale /\ ~performScaleDown
  BY <1>0, <1>4, QueueShrinks, QueuedCopiesStay DEF QueuedOfService, ScalingInv
<1> QED
  BY <1>1, <1>2, <1>3, <1>4

(* At first there is nothing to scale. *)
LEMMA ScalingInit == Init => ScalingInv
<1>1. ASSUME Init, NEW t \in Tasks
      PROVE  SameTask(t) /\ GivenUpAtHand(t) /\ QueuedOfService(t)
  BY <1>1 DEF Init, NoTasks, SameTask, Copies, GivenUpAtHand, Absent, Done, QueuedOfService,
              IdleReconcile
<1> QED
  BY <1>1, InitInv DEF ScalingInv

(* Whatever the goroutines copy and write back, the invariant holds. *)
THEOREM ScalingInductive == Spec => []ScalingInv
<1>2. ASSUME ScalingInv, [Next]_vars, NEW t \in Tasks
      PROVE  SameTask(t)' /\ GivenUpAtHand(t)' /\ QueuedOfService(t)'
  BY <1>2, ExecutorKeepsTask, BootKeepsTask, HealthKeepsTask, ReconcileKeepsTask,
     EnvironmentKeepsTask, QueueKept DEF Next
<1>3. ScalingInv /\ Inv' /\ [Next]_vars => ScalingInv'
  BY <1>2 DEF ScalingInv
<1> QED
  BY Inductive, ScalingInit, <1>3, PTL DEF Spec

(***************************************************************************)
(* What scale down decides.                                                *)
(***************************************************************************)

(* A wanted task becomes unwanted, and still runs, only by scale down: the *)
(* executors write wanted tasks, the health check failed ones, evacuation  *)
(* and restarts stopped ones.                                              *)
LEMMA OnlyScaleDownGivesUp ==
    ASSUME ScalingInv, [Next]_vars, NEW t \in Tasks, GivesUp(t)
    PROVE  ScaleDownDesire(t)
<1>0. /\ tasks[t].desired = "running" /\ tasks'[t].desired = "stopped"
      /\ tasks'[t].status = "running" /\ tasks'[t] # tasks[t]
  BY DEF GivesUp
<1>1. TypeOK /\ RegistersSound
  BY DEF ScalingInv, Inv
<1>2. GivingUp(t)'
  BY <1>0, ExecutorKeepsTask, BootKeepsTask, HealthKeepsTask, ReconcileKeepsTask,
     EnvironmentKeepsTask DEF Next, GivenUpAtHand
<1>3. ~Environment /\ ~UNCHANGED vars
  BY <1>0 DEF Environment, ContainerLost, SetNodeStatus, CooldownOver, vars
<1>5. CASE Reconcile /\ ~\E u \in Tasks : ScaleDownDesire(u)
  <2>1. ~(RestartMark \/ ScaleDownMark \/ EvacuateMark)
    <3>1. ASSUME RestartMark \/ ScaleDownMark \/ EvacuateMark PROVE FALSE
      <4>1. rec'.pc \notin ScalingDown
        BY <1>1, <3>1 DEF RestartMark, ScaleDownMark, EvacuateMark, ScalingDown, TypeOK,
                          ReconcileRegisters
      <4> QED
        BY <1>2, <4>1 DEF GivingUp
    <3> QED
      BY <3>1
  <2>2. ~LaunchPicked
    BY <1>0, <1>1 DEF LaunchPicked, Launch, NewTask, TypeOK
  <2>3. ~\E u \in Tasks : RestartIncrement(u)
    <3>1. ASSUME NEW u \in Tasks, RestartIncrement(u) PROVE FALSE
      <4>1. tasks'[t].desired = tasks[t].desired
        BY <1>1, <3>1 DEF RestartIncrement, TypeOK, Record
      <4> QED
        BY <1>0, <4>1
    <3> QED
      BY <3>1
  <2>4. UNCHANGED tasks
    BY <1>5, <2>1, <2>2, <2>3
       DEF Reconcile, StartPass, EvacuateDone, DrainDone, DrainNode, EvacuateRelease,
           ScaleDownSkip, RestartRelease, Scale, SelectNode, ScaleDownRelease, TakeDown,
           performScaleUp, performScaleDown, ServiceDone, OnlyTheLoop
  <2> QED
    BY <1>0, <2>4
<1>6. CASE \E u \in Tasks : ScaleDownDesire(u)
  <2>1. PICK u \in Tasks : ScaleDownDesire(u)
    BY <1>6
  <2>2. t = u
    BY <1>0, <1>1, <2>1 DEF ScaleDownDesire, Update, TypeOK
  <2> QED
    BY <2>1, <2>2
<1>7. ~Boot
  <2>1. ~BootLaunch
    BY <1>0, <1>1 DEF BootLaunch, Launch, NewTask, TypeOK
  <2> QED
    BY <1>0, <2>1 DEF Boot, BootService, BootSelect
<1>8. ~Health
  <2>1. ASSUME HealthFail PROVE FALSE
    <3>1. tasks'[t] = tasks[t] \/ tasks'[t] = [seen[t] EXCEPT !.status = "failed"]
      BY <1>1, <2>1 DEF HealthFail, Update, TypeOK
    <3>2. [seen[t] EXCEPT !.status = "failed"].status = "failed"
      BY <1>1 DEF TypeOK, Record
    <3> QED
      BY <1>0, <3>1, <3>2
  <2> QED
    BY <1>0, <2>1 DEF Health, HealthList, HealthCheck, HealthRelease
<1>9. ~\E u \in Tasks : Executor(u)
  <2>1. ASSUME NEW u \in Tasks, NEW r, mine[u].desired = "running", ExecutorUpdate(u, r),
               r.desired = mine[u].desired
        PROVE  FALSE
    BY <1>0, <1>1, <2>1 DEF ExecutorUpdate, Update, TypeOK
  <2>2. ASSUME NEW u \in Tasks, ExecStarting(u) \/ ExecRunning(u) \/ ExecFailed(u) PROVE FALSE
    <3>1. phase[u] # "none"
      BY <2>2 DEF ExecStarting, ExecRunning, ExecFailed, ExecutorStep
    <3>2. mine[u] \in Record /\ mine[u].desired = "running"
      BY <1>1, <3>1 DEF ScalingInv, Inv, RecordsPlaced, TypeOK
    <3>3. \A status \in {"starting", "failed"} :
             [mine[u] EXCEPT !.status = status].desired = mine[u].desired
      BY <3>2 DEF Record
    <3>4. [mine[u] EXCEPT !.status = "running", !.container = TRUE].desired = mine[u].desired
      BY <3>2 DEF Record
    <3> QED
      BY <2>1, <2>2, <3>2, <3>3, <3>4 DEF ExecStarting, ExecRunning, ExecFailed
  <2> QED
    BY <1>0, <2>2 DEF Executor, ExecCreateContainer, ExecRelease
<1> QED
  BY <1>3, <1>5, <1>6, <1>7, <1>8, <1>9 DEF Next

(* What scale down knows of the other running tasks of its copy when it    *)
(* gives up t: they run and are wanted, on the node the copy names, unless *)
(* something has stopped or failed them since.                             *)
LEMMA OthersServe ==
    ASSUME ScalingInv, NEW t \in Tasks, ScaleDownDesire(t),
           NEW u \in RunningCopies(rec.svc) \ {t}, tasks[u].status = "running"
    PROVE  u \in Serving(rec.svc)' /\ tasks[u].node = snap[u].node /\ snap[u].node \in Nodes
<1>1. u \in Tasks /\ snap[u].service = rec.svc /\ snap[u].status = "running"
  BY DEF RunningCopies, OfStatus
<1>2. tasks'[u] = tasks[u] /\ rec.pc = "scaleDown" /\ rec'.svc = rec.svc
  BY <1>1 DEF ScaleDownDesire, NextToStop, At, Update, ScalingInv, Inv, TypeOK,
              ReconcileRegisters
<1>3. tasks[u].desired = "running"
  BY <1>1, <1>2 DEF ScalingInv, GivenUpAtHand, GivingUp, ScalingDown, Inv, TypeOK, Record
<1>4. ~Done(tasks[u]) /\ ~Done(snap[u])
  BY <1>1 DEF Done, Terminated
<1>5. tasks[u].service = snap[u].service /\ tasks[u].node = snap[u].node
  BY <1>1, <1>4 DEF ScalingInv, SameTask, Copies
<1>6. snap[u].node \in Nodes
  BY <1>1, <1>4 DEF ScalingInv, Inv, RecordsPlaced, Placed
<1> QED
  BY <1>1, <1>2, <1>3, <1>5, <1>6 DEF Serving

(* The task that scale down gives up is the one its copy shows. *)
LEMMA GivenUpAsCopied ==
    ASSUME ScalingInv, NEW t \in Tasks, ScaleDownDesire(t), GivesUp(t)
    PROVE  /\ canStopTask(t) /\ rec.svc \in Services /\ rec.stopped \in Nat
           /\ tasks[t].service = rec.svc /\ tasks[t].node = snap[t].node
           /\ t \in RunningCopies(rec.svc) /\ tasks'[t].service = rec'.svc
<1>1. t \in rec.queue /\ canStopTask(t)
  BY DEF ScaleDownDesire, NextToStop
<1>2. snap[t].status = "running" /\ snap[t].service = rec.svc
  BY <1>1 DEF ScalingInv, Inv, RegistersSound, QueuedOfService
<1>3. ~Done(snap[t]) /\ ~Done(tasks[t])
  BY <1>2 DEF Done, Terminated, GivesUp
<1>4. tasks[t].service = snap[t].service /\ tasks[t].node = snap[t].node
  BY <1>3 DEF ScalingInv, SameTask, Copies
<1>5. rec.svc \in Services /\ rec.stopped \in Nat
  BY DEF ScaleDownDesire, NextToStop, At, ScalingInv, Inv, RegistersSound, TypeOK,
         ReconcileRegisters
<1>6. tasks'[t].service = rec'.svc
  <2>1. snap[t] \in Record /\ tasks'[t] = [snap[t] EXCEPT !.desired = "stopped"]
    BY DEF ScaleDownDesire, Update, ScalingInv, Inv, TypeOK
  <2>2. rec'.svc = rec.svc
    BY DEF ScaleDownDesire, ScalingInv, Inv, TypeOK, ReconcileRegisters
  <2> QED
    BY <1>2, <2>1, <2>2 DEF Record
<1> QED
  BY <1>1, <1>2, <1>4, <1>5, <1>6 DEF RunningCopies, OfStatus

(* A set that is larger than a number that is not negative has a member. *)
LEMMA CountedAreThere ==
    ASSUME NEW S \in SUBSET Tasks, NEW k \in Nat, Cardinality(S) - k > 0
    PROVE  S # {}
BY FS_EmptySet

(* A daemon's task is given up when its node has two, a stateful one when  *)
(* its zone has.                                                           *)
LEMMA StoppedNotAlone ==
    ASSUME ScalingInv, NEW t \in Tasks, canStopTask(t), t \in RunningCopies(rec.svc),
           rec.stopped \in Nat
    PROVE  /\ ServiceType[rec.svc] = "stateful" => InItsZone(t) \ {t} # {}
           /\ ServiceType[rec.svc] = "daemon" => OnItsNode(t) \ {t} # {}
<1>1. OnItsNode(t) \in SUBSET Tasks /\ InItsZone(t) \in SUBSET Tasks /\ t \in OnItsNode(t)
  BY DEF OnItsNode, InItsZone, RunningCopies, OfStatus
<1>2. ASSUME ServiceType[rec.svc] = "stateful" PROVE InItsZone(t) \ {t} # {}
  BY <1>1, <1>2, CountedAreThere DEF canStopTask, NotLastInZone
<1>3. ASSUME ServiceType[rec.svc] = "daemon" PROVE OnItsNode(t) \ {t} # {}
  <2>1. IsFiniteSet(OnItsNode(t))
    BY <1>1, FiniteTasks, FS_Subset
  <2>2. Cardinality(OnItsNode(t) \ {t}) = Cardinality(OnItsNode(t)) - 1
           /\ Cardinality(OnItsNode(t)) \in Nat
    BY <1>1, <2>1, FS_RemoveElement, FS_CardinalityType
  <2>3. Cardinality(OnItsNode(t)) - rec.stopped > 1
    BY <1>3 DEF canStopTask, NotLastOnNode
  <2>4. Cardinality(OnItsNode(t) \ {t}) - rec.stopped > 0
    BY <2>2, <2>3
  <2> QED
    BY <1>1, <2>4, CountedAreThere
<1> QED
  BY <1>2, <1>3

(* LastOnesKept: canStopTask looks at a copy, and counts what it has       *)
(* stopped twice, but it never lets the last task of a zone or a node go.  *)
THEOREM LastOnesStay == Spec => LastOnesKept
<1> DEFINE Kept(t) ==
      LET s == tasks[t].service
          n == tasks[t].node
      IN  /\ ServiceType[s] = "stateful" =>
                \/ \E u \in Serving(s)' : Zone[tasks[u].node] = Zone[n]
                \/ \E m \in Nodes : Zone[m] = Zone[n] /\ Outdated(m)
          /\ ServiceType[s] = "daemon" =>
                (\E u \in Serving(s)' : tasks[u].node = n) \/ Outdated(n)
<1>1. ASSUME ScalingInv, [Next]_vars, NEW t \in Tasks, GivesUp(t)
      PROVE  Kept(t)
  <2>1. ScaleDownDesire(t)
    BY <1>1, OnlyScaleDownGivesUp
  <2>2. /\ canStopTask(t) /\ rec.svc \in Services /\ rec.stopped \in Nat
        /\ tasks[t].service = rec.svc /\ tasks[t].node = snap[t].node
        /\ t \in RunningCopies(rec.svc) /\ tasks'[t].service = rec'.svc
    BY <1>1, <2>1, GivenUpAsCopied
  <2>3. ASSUME NEW u \in RunningCopies(rec.svc) \ {t}
        PROVE  /\ snap[u].node \in Nodes
               /\ \/ u \in Serving(rec.svc)' /\ tasks[u].node = snap[u].node
                  \/ Outdated(snap[u].node)
    <3>1. u \in Tasks /\ snap[u].status = "running"
      BY DEF RunningCopies, OfStatus
    <3>2. snap[u].node \in Nodes
      BY <1>1, <3>1 DEF ScalingInv, Inv, RecordsPlaced, Placed, Done, Terminated
    <3> QED
      BY <1>1, <2>1, <3>1, <3>2, OthersServe DEF Outdated
  <2>4. ASSUME ServiceType[rec.svc] = "stateful"
        PROVE  \/ \E u \in Serving(rec.svc)' : Zone[tasks[u].node] = Zone[snap[t].node]
               \/ \E m \in Nodes : Zone[m] = Zone[snap[t].node] /\ Outdated(m)
    <3>1. PICK u \in RunningCopies(rec.svc) \ {t} : Zone[snap[u].node] = Zone[snap[t].node]
      BY <1>1, <2>2, <2>4, StoppedNotAlone DEF InItsZone
    <3> QED
      BY <2>3, <3>1
  <2>5. ASSUME ServiceType[rec.svc] = "daemon"
        PROVE  (\E u \in Serving(rec.svc)' : tasks[u].node = snap[t].node) \/ Outdated(snap[t].node)
    <3>1. PICK u \in RunningCopies(rec.svc) \ {t} : snap[u].node = snap[t].node
      BY <1>1, <2>2, <2>5, StoppedNotAlone DEF OnItsNode
    <3> QED
      BY <2>3, <3>1
  <2>6. Serving(tasks[t].service)' = Serving(rec.svc)'
    BY <2>2 DEF Serving
  <2> QED
    BY <2>2, <2>4, <2>5, <2>6
<1>2. ScalingInv /\ [Next]_vars => [\A t \in Tasks : GivesUp(t) => Kept(t)]_vars
  BY <1>1
<1> QED
  BY ScalingInductive, <1>2, PTL DEF Spec, LastOnesKept

(* What scale down gives up leaves the service what its policy asks for.   *)
LEMMA GivenUpLeavesEnough ==
    ASSUME ScalingInv, [Next]_vars, NEW t \in Tasks, GivesUp(t)
    PROVE  LET s == tasks[t].service
           IN  Cardinality(Serving(s)') + Cardinality(OutdatedOf(s)) >= MinReplicas[s]
<1>1. ScaleDownDesire(t)
  BY OnlyScaleDownGivesUp
<1>2. /\ canStopTask(t) /\ rec.svc \in Services /\ rec.stopped \in Nat
      /\ tasks[t].service = rec.svc /\ t \in RunningCopies(rec.svc)
      /\ tasks'[t].service = rec'.svc
  BY <1>1, GivenUpAsCopied
<1> DEFINE S == Serving(rec.svc)'
           O == OutdatedOf(rec.svc)
           R == RunningCopies(rec.svc)
<1>3. R \ {t} \subseteq S \cup O
  BY <1>1, OthersServe DEF RunningCopies, OfStatus, OutdatedOf
<1>4. /\ IsFiniteSet(S) /\ IsFiniteSet(O) /\ IsFiniteSet(R) /\ IsFiniteSet(S \cup O)
      /\ IsFiniteSet(S \cap O) /\ IsFiniteSet(R \ {t})
  <2>1. S \subseteq Tasks /\ O \subseteq Tasks /\ R \subseteq Tasks
    BY DEF Serving, OutdatedOf, RunningCopies, OfStatus
  <2>2. S \cup O \subseteq Tasks /\ S \cap O \subseteq Tasks /\ R \ {t} \subseteq Tasks
    BY <2>1
  <2> QED
    BY <2>1, <2>2, FiniteTasks, FS_Subset
<1> HIDE DEF S, O, R
<1>5. /\ Cardinality(S) \in Nat /\ Cardinality(O) \in Nat /\ Cardinality(R) \in Nat
      /\ Cardinality(S \cup O) \in Nat /\ Cardinality(S \cap O) \in Nat
      /\ Cardinality(R \ {t}) \in Nat
  BY <1>4, FS_CardinalityType
<1>6. Cardinality(S \cup O) = Cardinality(S) + Cardinality(O) - Cardinality(S \cap O)
  BY <1>4, FS_Union
<1>7. Cardinality(R \ {t}) = Cardinality(R) - 1
  BY <1>2, <1>4, FS_RemoveElement DEF R
<1>8. Cardinality(R \ {t}) <= Cardinality(S \cup O)
  BY <1>3, <1>4, FS_Subset
<1>9. Cardinality(R) - rec.stopped - 1 >= MinReplicas[rec.svc]
  BY <1>2 DEF canStopTask, EnoughRemain, R
<1>10. MinReplicas[rec.svc] \in Nat
  BY <1>2, ServiceAssumption
<1>11. Cardinality(S) + Cardinality(O) >= MinReplicas[rec.svc]
  BY <1>2, <1>5, <1>6, <1>7, <1>8, <1>9, <1>10
<1>12. Serving(tasks[t].service)' = S
  BY <1>2 DEF Serving, S
<1> QED
  BY <1>2, <1>11, <1>12 DEF O

(* MinReplicasButForOutdated: with drains, health checks and failures in   *)
(* between, the tasks that remain and those lost since the copy was made   *)
(* are as many as the policy asks for.                                     *)
THEOREM MinReplicasButForOutdatedStay == Spec => MinReplicasButForOutdated
<1> DEFINE Kept(t) ==
      LET s == tasks[t].service
      IN  Cardinality(Serving(s)') + Cardinality(OutdatedOf(s)) >= MinReplicas[s]
<1>1. ScalingInv /\ [Next]_vars => [\A t \in Tasks : GivesUp(t) => Kept(t)]_vars
  BY GivenUpLeavesEnough
<1> QED
  BY ScalingInductive, <1>1, PTL DEF Spec, MinReplicasButForOutdated

(***************************************************************************)
(* As long as no node is drained and no container exits or is found sick,  *)
(* the copy that scale down works from is not outdated: the only task that *)
(* does not run any more is the one it is stopping itself.                 *)
(***************************************************************************)
Undisturbed == MaxDrains = 0 /\ Failures \cap {"exit", "sick"} = {}

(* The loop has stopped t's container for scale down. *)
PastStop(t) == rec.cur = t /\ rec.pc \in {"scaleDownRemove", "scaleDownRelease", "scaleDownMark"}

(* The loop takes down what is left of t's container for a restart. *)
ClearingAway(t) == rec.cur = t /\ rec.pc \in {"restartStop", "restartRemove"}

(* A stopped container is that of no running task but the one that scale   *)
(* down is stopping; so the health check finds no other one unhealthy, and *)
(* what runs in the copy still runs.                                       *)
Steady(t) ==
    /\ drained[t] = Absent
    /\ snap[t].status = "running" => tasks[t].status = "running" \/ GivingUp(t)
    /\ container[t] = "down" /\ tasks[t].status = "running" => PastStop(t)
    /\ health.pc = "fail" /\ health.cur = t => tasks[t].status # "running" \/ PastStop(t)
    /\ ClearingAway(t) => tasks[t].status # "running" /\ phase[t] \notin Owned
    /\ phase[t] = "created" => container[t] # "down"

SteadyInv ==
    /\ ScalingInv
    /\ \A n \in Nodes : nodeStatus[n] = "ready"
    /\ \A t \in Tasks : Steady(t)

(* A step that changes neither the task nor its container, nor what the    *)
(* goroutines are about to do to it.                                       *)
LEMMA SteadyUntouched ==
    ASSUME NEW t \in Tasks, Steady(t),
           UNCHANGED <<health, container, phase>>, tasks'[t].status = tasks[t].status,
           drained'[t] \in {drained[t], Absent}, snap'[t] \in {snap[t], tasks[t], Absent},
           GivingUp(t) => GivingUp(t)', PastStop(t) => PastStop(t)',
           ClearingAway(t)' => ClearingAway(t)
    PROVE  Steady(t)'
<1>1. Absent.status # "running"
  BY DEF Absent
<1>2. drained'[t] = Absent
  BY DEF Steady
<1>3. snap'[t].status = "running" => tasks'[t].status = "running" \/ GivingUp(t)'
  BY <1>1 DEF Steady
<1> QED
  BY <1>2, <1>3 DEF Steady

(* Where nothing of the task changes. *)
LEMMA SteadyWhereLoopIs ==
    ASSUME NEW t \in Tasks, UNCHANGED rec
    PROVE  /\ GivingUp(t)' <=> GivingUp(t)
           /\ PastStop(t)' <=> PastStop(t)
           /\ ClearingAway(t)' <=> ClearingAway(t)
BY DEF GivingUp, PastStop, ClearingAway

(* While an executor owns the task no copy of it runs, and nobody checks it. *)
LEMMA OwnedNotCopied ==
    ASSUME SteadyInv, NEW t \in Tasks, phase[t] \in Owned
    PROVE  /\ snap[t].status # "running" /\ seen[t] = Absent /\ mine[t] \in Record
           /\ ~GivingUp(t) /\ ~PastStop(t) /\ ~ClearingAway(t)
           /\ ~(health.pc = "fail" /\ health.cur = t)
<1>1. /\ OwnedAreLeftAlone /\ RegistersSound /\ TypeOK /\ Inv /\ Steady(t)
  BY DEF SteadyInv, ScalingInv, Inv
<1>2. snap[t].status # "running" /\ seen[t] = Absent /\ mine[t] \in Record
  BY <1>1 DEF OwnedAreLeftAlone, Done, Terminated, TypeOK
<1>3. ~GivingUp(t) /\ ~PastStop(t)
  BY <1>1, AtHand DEF GivingUp, PastStop, ScalingDown
<1>4. ~ClearingAway(t)
  BY <1>1 DEF Steady
<1>5. ~(health.pc = "fail" /\ health.cur = t)
  BY <1>1, <1>2 DEF RegistersSound
<1> QED
  BY <1>2, <1>3, <1>4, <1>5

(* An executor starts the container before it says that the task runs. *)
LEMMA ExecutorSteady ==
    ASSUME SteadyInv, NEW t \in Tasks, NEW u \in Tasks, Executor(u)
    PROVE  Steady(t)'
<1>0. Steady(t) /\ TypeOK /\ RegistersSound
  BY DEF SteadyInv, ScalingInv, Inv
<1>1. UNCHANGED <<snap, drained, health, rec>>
  BY DEF Executor, ExecStarting, ExecCreateContainer, ExecRunning, ExecFailed, ExecRelease
<1>2. CASE t # u
  <2>1. phase'[t] = phase[t]
    BY <1>0, <1>2 DEF Executor, ExecStarting, ExecCreateContainer, ExecRunning, ExecFailed,
                      ExecRelease, ExecutorStep, TypeOK
  <2>2. container'[t] = container[t]
    BY <1>0, <1>2 DEF Executor, ExecStarting, ExecCreateContainer, ExecRunning, ExecFailed,
                      ExecRelease, TypeOK
  <2>3. tasks'[t] = tasks[t]
    BY <1>0, <1>2 DEF Executor, ExecStarting, ExecCreateContainer, ExecRunning, ExecFailed,
                      ExecRelease, ExecutorUpdate, Update, TypeOK
  <2> QED
    BY <1>0, <1>1, <2>1, <2>2, <2>3, SteadyWhereLoopIs DEF Steady
<1>3. CASE t = u /\ ExecRelease(u)
  <2>1. tasks' = tasks /\ container' = container /\ phase'[t] = "none"
    BY <1>0, <1>3 DEF ExecRelease, ExecutorStep, TypeOK
  <2> QED
    BY <1>0, <1>1, <2>1, SteadyWhereLoopIs DEF Steady, Owned
<1>4. CASE t = u /\ ExecCreateContainer(u)
  <2>1. /\ phase[t] = "creating" /\ tasks' = tasks
        /\ phase'[t] = "created" => container'[t] = "up"
    BY <1>0, <1>4 DEF ExecCreateContainer, ExecutorStep, TypeOK
  <2>2. tasks[t].status # "running"
    BY <2>1 DEF SteadyInv, ScalingInv, Inv, OwnedAreLeftAlone, Owned
  <2> QED
    BY <1>0, <1>1, <2>1, <2>2, OwnedNotCopied, SteadyWhereLoopIs DEF Steady, Owned
<1>5. CASE t = u /\ (ExecStarting(u) \/ ExecRunning(u) \/ ExecFailed(u))
  <2>1. /\ phase[t] \in Owned /\ phase'[t] # "created" /\ container' = container
    BY <1>0, <1>5 DEF ExecStarting, ExecRunning, ExecFailed, ExecutorStep, Owned, TypeOK
  <2>2. /\ snap[t].status # "running" /\ mine[t] \in Record
        /\ ~GivingUp(t) /\ ~PastStop(t) /\ ~ClearingAway(t)
        /\ ~(health.pc = "fail" /\ health.cur = t)
    BY <2>1, OwnedNotCopied
  <2>3. container[t] = "down" => tasks'[t].status # "running"
    <3>1. CASE ExecRunning(u)
      BY <1>0, <1>5, <3>1 DEF ExecRunning, ExecutorStep, Steady
    <3>2. CASE ExecStarting(u) \/ ExecFailed(u)
      <4>1. PICK status \in {"starting", "failed"} :
               tasks'[t] = [mine[t] EXCEPT !.status = status]
        BY <1>0, <1>5, <3>2 DEF ExecStarting, ExecFailed, ExecutorUpdate, Update, TypeOK
      <4> QED
        BY <2>2, <4>1 DEF Record
    <3> QED
      BY <1>5, <3>1, <3>2
  <2> QED
    BY <1>0, <1>1, <2>1, <2>2, <2>3, SteadyWhereLoopIs DEF Steady
<1> QED
  BY <1>2, <1>3, <1>4, <1>5 DEF Executor

(* A new task is made at an ID of which there is nothing left. *)
LEMMA LaunchSteady ==
    ASSUME SteadyInv, NEW t \in Tasks, NEW s \in Services, NEW n \in Nodes, Launch(s, n),
           UNCHANGED <<snap, drained, health, container>>,
           GivingUp(t) => GivingUp(t)', PastStop(t) => PastStop(t)',
           ClearingAway(t)' => ClearingAway(t)
    PROVE  Steady(t)'
<1>0. Steady(t) /\ TypeOK /\ RegistersSound
  BY DEF SteadyInv, ScalingInv, Inv
<1>1. PICK u \in Tasks : /\ Fresh(u)
                         /\ tasks' = [tasks EXCEPT ![u] = NewTask(s, n)]
                         /\ phase' = [phase EXCEPT ![u] = "spawned"]
  BY DEF Launch
<1>2. CASE t = u
  <2>1. /\ Done(snap[t]) /\ rec.cur # t /\ container[t] = "none" /\ seen[t] = Absent
        /\ tasks'[t].status = "pending" /\ phase'[t] = "spawned"
    BY <1>0, <1>1, <1>2 DEF Fresh, Unused, NewTask, TypeOK
  <2>2. snap[t].status # "running"
    BY <2>1 DEF Done, Terminated
  <2>3. ~ClearingAway(t)'
    BY <2>1 DEF ClearingAway
  <2> QED
    BY <1>0, <2>1, <2>2, <2>3 DEF Steady
<1>3. CASE t # u
  <2>1. tasks'[t] = tasks[t] /\ phase'[t] = phase[t]
    BY <1>0, <1>1, <1>3 DEF TypeOK
  <2> QED
    BY <1>0, <2>1 DEF Steady
<1> QED
  BY <1>2, <1>3

(* initServices creates tasks. *)
LEMMA BootSteady ==
    ASSUME SteadyInv, Boot, NEW t \in Tasks
    PROVE  Steady(t)'
<1>0. Steady(t) /\ TypeOK /\ RegistersSound
  BY DEF SteadyInv, ScalingInv, Inv
<1>1. CASE BootSelect \/ \E s \in Services : BootService(s)
  BY <1>0, <1>1, SteadyUntouched, SteadyWhereLoopIs DEF BootSelect, BootService
<1>2. CASE BootLaunch
  <2>1. /\ Launch(boot.svc, boot.picked) /\ boot.svc \in Services /\ boot.picked \in Nodes
        /\ UNCHANGED <<snap, drained, health, container, rec>>
    BY <1>0, <1>2 DEF BootLaunch, RegistersSound, TypeOK, BootRegisters
  <2> QED
    BY <2>1, LaunchSteady, SteadyWhereLoopIs
<1> QED
  BY <1>1, <1>2 DEF Boot

(* The health check fails only the task that scale down is stopping. *)
LEMMA HealthSteady ==
    ASSUME Undisturbed, SteadyInv, Health, NEW t \in Tasks
    PROVE  Steady(t)'
<1>0. Steady(t) /\ TypeOK /\ RegistersSound
  BY DEF SteadyInv, ScalingInv, Inv
<1>1. UNCHANGED <<snap, drained, container, phase, rec>>
  BY DEF Health, HealthList, HealthCheck, HealthFail, HealthRelease, OnlyHealth
<1>2. CASE HealthList \/ HealthRelease
  BY <1>0, <1>1, <1>2, SteadyWhereLoopIs DEF HealthList, HealthRelease, Steady
<1>3. CASE \E u \in Tasks : HealthCheck(u)
  <2>1. PICK u \in Tasks : HealthCheck(u)
    BY <1>3
  <2>2. tasks' = tasks
    BY <2>1 DEF HealthCheck
  <2>3. ASSUME health'.pc = "fail", health'.cur = t PROVE tasks[t].status # "running" \/ PastStop(t)
    <3>1. ~Fault("sick")
      BY DEF Undisturbed, Fault
    <3>2. u = t /\ container[t] = "down"
      BY <2>1, <2>3, <3>1 DEF HealthCheck
    <3> QED
      BY <1>0, <3>2 DEF Steady
  <2> QED
    BY <1>0, <1>1, <2>2, <2>3, SteadyWhereLoopIs DEF Steady
<1>4. CASE HealthFail
  <2>1. /\ health.pc = "fail" /\ health'.pc = "release"
        /\ tasks' = [tasks EXCEPT ![health.cur] = [seen[health.cur] EXCEPT !.status = "failed"]]
    BY <1>0, <1>4 DEF HealthFail, Update, TypeOK, HealthRegisters
  <2>2. CASE t = health.cur
    <3>1. tasks'[t].status = "failed"
      BY <1>0, <2>1, <2>2 DEF TypeOK, Record
    <3>2. snap[t].status = "running" => GivingUp(t)
      BY <1>0, <2>1, <2>2 DEF Steady, PastStop, GivingUp, ScalingDown
    <3> QED
      BY <1>0, <1>1, <2>1, <3>1, <3>2, SteadyWhereLoopIs DEF Steady
  <2>3. CASE t # health.cur
    <3>1. tasks'[t] = tasks[t]
      BY <1>0, <2>1, <2>3 DEF TypeOK
    <3> QED
      BY <1>0, <1>1, <2>1, <3>1, SteadyWhereLoopIs DEF Steady
  <2> QED
    BY <2>2, <2>3
<1> QED
  BY <1>2, <1>3, <1>4 DEF Health

(* No container exits, no node is drained. *)
LEMMA EnvironmentSteady ==
    ASSUME Undisturbed, SteadyInv, Environment \/ UNCHANGED vars, NEW t \in Tasks
    PROVE  Steady(t)' /\ UNCHANGED nodeStatus
<1>0. Steady(t) /\ TypeOK
  BY DEF SteadyInv, ScalingInv, Inv
<1>1. ~\E n \in Nodes, status \in {"ready", "draining"} : SetNodeStatus(n, status)
  BY <1>0, BoundsAssumption DEF SetNodeStatus, Undisturbed, TypeOK
<1>2. UNCHANGED <<tasks, snap, drained, health, phase, rec, nodeStatus>>
  BY <1>1 DEF Environment, ContainerLost, CooldownOver, vars
<1>3. container'[t] \in {container[t], "none"}
  <2>1. ~Fault("exit")
    BY DEF Undisturbed, Fault
  <2> QED
    BY <1>0, <1>1, <2>1 DEF Environment, ContainerLost, CooldownOver, vars, TypeOK
<1> QED
  BY <1>0, <1>2, <1>3, SteadyWhereLoopIs DEF Steady

(* The loop stops containers of tasks it has restarted, and of the one     *)
(* that scale down is giving up.                                           *)
LEMMA TakeDownSteady ==
    ASSUME SteadyInv, TakeDown, NEW t \in Tasks
    PROVE  Steady(t)'
<1>0. Steady(t) /\ TypeOK /\ RegistersSound /\ Inv
  BY DEF SteadyInv, ScalingInv, Inv
<1>1. UNCHANGED <<tasks, snap, drained, health, phase>>
  BY DEF TakeDown, NotTheLoops
<1>2. rec \in ReconcileRegisters /\ None \notin Tasks
  BY <1>0, NoneIsNone DEF TypeOK
<1>3. GivingUp(t) => phase[t] \notin Owned
  BY <1>0, AtHand DEF GivingUp
<1>4. rec.pc \notin Evacuating
  BY <1>0 DEF RegistersSound, SteadyInv, Steady, Evacuating
<1>5. CASE rec.pc \in DOMAIN Stopping /\ StopContainer(rec.cur) /\ Goto(Stopping[rec.pc])
  <2>1. /\ t # rec.cur => container'[t] = container[t]
        /\ container'[t] \in {container[t], "down"}
    BY <1>0, <1>5 DEF StopContainer, TypeOK
  <2>2. \/ rec.pc = "restartStop" /\ rec' = [rec EXCEPT !.pc = "restartRemove"]
        \/ rec.pc = "scaleDownStop" /\ rec' = [rec EXCEPT !.pc = "scaleDownRemove"]
    BY <1>4, <1>5 DEF Stopping, Goto, Evacuating
  <2>3. CASE rec.pc = "restartStop" /\ rec' = [rec EXCEPT !.pc = "restartRemove"]
    <3>1. rec'.pc = "restartRemove" /\ rec'.cur = rec.cur
      BY <1>2, <2>3 DEF ReconcileRegisters
    <3> QED
      BY <1>0, <1>1, <2>1, <2>3, <3>1
         DEF Steady, ClearingAway, GivingUp, PastStop, ScalingDown, Owned
  <2>4. CASE rec.pc = "scaleDownStop" /\ rec' = [rec EXCEPT !.pc = "scaleDownRemove"]
    <3>1. rec'.pc = "scaleDownRemove" /\ rec'.cur = rec.cur
      BY <1>2, <2>4 DEF ReconcileRegisters
    <3> QED
      BY <1>0, <1>1, <1>3, <2>1, <2>4, <3>1
         DEF Steady, ClearingAway, GivingUp, PastStop, ScalingDown, Owned
  <2> QED
    BY <2>2, <2>3, <2>4
<1>6. CASE /\ rec.pc \in DOMAIN Removing /\ RemoveContainer(rec.cur)
           /\ rec' = [rec EXCEPT !.pc = Removing[@],
                                 !.cur = IF At("restartRemove") THEN None ELSE @]
  <2>1. container'[t] \in {container[t], "none"}
    BY <1>0, <1>6 DEF RemoveContainer, TypeOK
  <2>2. CASE rec.pc = "restartRemove"
    <3>1. rec'.pc = "restartCreate"
      BY <1>2, <1>6, <2>2 DEF At, Removing, ReconcileRegisters
    <3> QED
      BY <1>0, <1>1, <2>1, <2>2, <3>1 DEF Steady, ClearingAway, GivingUp, PastStop, ScalingDown
  <2>3. CASE rec.pc = "scaleDownRemove"
    <3>1. rec' = [rec EXCEPT !.pc = "scaleDownRelease", !.cur = rec.cur]
      BY <1>6, <2>3 DEF At, Removing
    <3>2. rec'.pc = "scaleDownRelease" /\ rec'.cur = rec.cur
      BY <1>2, <3>1 DEF ReconcileRegisters
    <3> QED
      BY <1>0, <1>1, <2>1, <2>3, <3>2 DEF Steady, ClearingAway, GivingUp, PastStop, ScalingDown
  <2> QED
    BY <1>4, <1>6, <2>2, <2>3 DEF Removing, Evacuating
<1> QED
  BY <1>5, <1>6 DEF TakeDown

(* The copies that the loop makes, and the records it writes. *)
LEMMA ReconcileSteady ==
    ASSUME SteadyInv, Reconcile, NEW t \in Tasks
    PROVE  Steady(t)'
<1>0. Steady(t) /\ TypeOK /\ RegistersSound /\ Inv /\ rec \in ReconcileRegisters
  BY DEF SteadyInv, ScalingInv, Inv, TypeOK
<1> DEFINE Elsewhere == rec.pc \notin ScalingDown
           Clear == rec'.pc \notin {"restartStop", "restartRemove"}
<1>a. ASSUME Elsewhere, Clear, OnlyTheLoop, drained' = drained,
             snap'[t] \in {snap[t], tasks[t], Absent}
      PROVE  Steady(t)'
  BY <1>0, <1>a, SteadyUntouched
     DEF OnlyTheLoop, NotTheLoops, GivingUp, PastStop, ClearingAway, ScalingDown
<1>1. CASE StartPass
  BY <1>0, <1>1, <1>a DEF StartPass, Copied, At, ScalingDown, ReconcileRegisters
<1>2. CASE DrainDone \/ ServiceDone
  <2>1. snap'[t] \in {snap[t], Absent} /\ rec'.pc \in {"idle", "restart"}
    BY <1>2, NextServiceIdle DEF DrainDone, ServiceDone
  <2> QED
    BY <1>2, <1>a, <2>1 DEF DrainDone, ServiceDone, ScalingDone, At, ScalingDown
<1>3. CASE EvacuateDone
  BY <1>0, <1>3, <1>a DEF EvacuateDone, Goto, At, ScalingDown, ReconcileRegisters
<1>4. ~(EvacuateMark \/ (\E n \in Nodes : DrainNode(n)) \/ \E u \in Tasks : EvacuateRelease(u))
  <2>1. ~EvacuateMark
    BY <1>0 DEF EvacuateMark, At, RegistersSound, SteadyInv, Steady, Evacuating
  <2> QED
    BY <2>1 DEF DrainNode, EvacuateRelease, ToMove, SteadyInv, Steady
<1>5. CASE Scale \/ (\E f \in 1..3 : performScaleUp(f)) \/ performScaleDown
  <2>1. Elsewhere /\ OnlyTheLoop /\ drained' = drained
    BY <1>5 DEF Scale, performScaleUp, performScaleDown, Predicting, ScalingDone, At, ScalingDown
  <2>2. rec'.pc \in {"scaleUp", "scaleDown"}
    BY <1>0, <1>5 DEF Scale, performScaleUp, performScaleDown, ReconcileRegisters
  <2>3. snap'[t] \in {snap[t], tasks[t], Absent}
    BY <1>5 DEF Scale, performScaleUp, performScaleDown
  <2> QED
    BY <1>a, <2>1, <2>2, <2>3
<1>6. CASE SelectNode
  <2>1. Elsewhere /\ OnlyTheLoop /\ UNCHANGED <<drained, snap>> /\ rec.pc \in Creating
    BY <1>6 DEF SelectNode, Creating, ScalingDown
  <2>2. rec'.pc \in Creating \cup {"evacuate", "restart", "scaleUp"}
    BY <1>0, <1>6, <2>1, CreatorsGoOn DEF SelectNode, ReconcileRegisters
  <2> QED
    BY <1>a, <2>1, <2>2 DEF Creating
<1>7. CASE \E u \in Tasks : ScaleDownSkip(u)
  BY <1>0, <1>7, <1>a DEF ScaleDownSkip, NextToStop, At, ScalingDown, ReconcileRegisters
<1>8. CASE LaunchPicked
  <2>1. /\ Launch(rec.svc, rec.picked) /\ rec.picked \in Nodes /\ rec.pc \in Creating
        /\ UNCHANGED <<snap, drained, health, container>>
    BY <1>0, <1>8 DEF LaunchPicked, NotTheLoops, RegistersSound, ReconcileRegisters
  <2>2. rec.svc \in Services /\ Elsewhere
    BY <1>0, <1>8, <2>1 DEF LaunchPicked, RegistersSound, Creating, ScalingDown
  <2>3. rec'.pc \in {"evacuate", "restart", "scaleUp"}
    BY <1>0, <1>8, <2>1, CreatorsGoOn DEF LaunchPicked, ReconcileRegisters
  <2> QED
    BY <2>1, <2>2, <2>3, LaunchSteady DEF GivingUp, PastStop, ClearingAway, ScalingDown
<1>9. CASE RestartRelease \/ ScaleDownRelease
  <2>1. UNCHANGED <<tasks, snap, drained, health, container, phase>>
    BY <1>9 DEF RestartRelease, ScaleDownRelease, NotTheLoops
  <2>2. /\ rec'.cur = rec.cur
        /\ \/ rec.pc = "restartRelease" /\ rec'.pc = "restartMark"
           \/ rec.pc = "scaleDownRelease" /\ rec'.pc = "scaleDownMark"
    BY <1>0, <1>9 DEF RestartRelease, ScaleDownRelease, At, Goto, ReconcileRegisters
  <2> QED
    BY <1>0, <2>1, <2>2, SteadyUntouched DEF GivingUp, PastStop, ClearingAway, ScalingDown
<1>10. CASE RestartMark \/ ScaleDownMark
  <2>1. /\ rec.cur \in Tasks /\ phase[rec.cur] \notin Owned /\ snap[rec.cur] \in Record
        /\ tasks' = [tasks EXCEPT ![rec.cur] = Retired(snap[rec.cur])]
        /\ snap' = [snap EXCEPT ![rec.cur] = Retired(snap[rec.cur])]
        /\ UNCHANGED <<drained, health, container, phase>>
    BY <1>0, <1>10, AtHand
       DEF RestartMark, ScaleDownMark, Update, NotTheLoops, At, Restarting, ScalingDown
  <2>2. Retired(snap[rec.cur]).status = "stopped"
    BY <2>1 DEF Retired, Record
  <2>3. CASE t = rec.cur
    <3>1. tasks'[t].status = "stopped" /\ snap'[t].status = "stopped"
      BY <1>0, <2>1, <2>2, <2>3 DEF TypeOK
    <3> QED
      BY <1>0, <2>1, <2>3, <3>1 DEF Steady
  <2>4. CASE t # rec.cur
    <3>1. tasks'[t] = tasks[t] /\ snap'[t] = snap[t]
      BY <1>0, <2>1, <2>4 DEF TypeOK
    <3>2. ~GivingUp(t) /\ ~PastStop(t)
      BY <2>4 DEF GivingUp, PastStop
    <3>3. rec'.cur \in {rec.cur, None}
      BY <1>0, <1>10 DEF RestartMark, ScaleDownMark, ReconcileRegisters
    <3>4. ~ClearingAway(t)'
      BY <2>4, <3>3, NoneIsNone DEF ClearingAway
    <3> QED
      BY <1>0, <2>1, <3>1, <3>2, <3>4 DEF Steady
  <2> QED
    BY <2>3, <2>4
<1>11. CASE \E u \in Tasks : RestartIncrement(u)
  <2>1. PICK u \in Tasks : RestartIncrement(u)
    BY <1>11
  <2>2. UNCHANGED <<snap, drained, health, container, phase>> /\ Elsewhere
    BY <2>1 DEF RestartIncrement, NotTheLoops, At, ScalingDown
  <2>3. tasks'[t].status = tasks[t].status
    <3>1. tasks'[t] = tasks[t] \/ tasks'[t] = [tasks[t] EXCEPT !.restarts = @ + 1]
      BY <1>0, <2>1 DEF RestartIncrement, TypeOK
    <3> QED
      BY <1>0, <3>1 DEF TypeOK, Record
  <2>4. rec'.pc = "restartRelease"
    BY <1>0, <2>1 DEF RestartIncrement, ReconcileRegisters
  <2> QED
    BY <1>0, <2>2, <2>3, <2>4, SteadyUntouched DEF GivingUp, PastStop, ClearingAway, ScalingDown
<1>12. CASE \E u \in Tasks : ScaleDownDesire(u)
  <2>1. PICK u \in Tasks : ScaleDownDesire(u)
    BY <1>12
  <2>2. /\ UNCHANGED <<drained, health, container, phase>> /\ Elsewhere
        /\ snap[u].status = "running"
    BY <1>0, <2>1 DEF ScaleDownDesire, NextToStop, NotTheLoops, At, ScalingDown, RegistersSound
  <2>3. Clear
    BY <1>0, <2>1 DEF ScaleDownDesire, ReconcileRegisters
  <2>4. ~GivingUp(t) /\ ~PastStop(t) /\ ~ClearingAway(t)'
    BY <2>2, <2>3 DEF GivingUp, PastStop, ClearingAway, ScalingDown
  <2>5. tasks'[t].status = tasks[t].status /\ snap'[t].status = snap[t].status
    <3>1. CASE t = u
      <4>1. tasks'[t] = snap'[t] /\ snap'[t] = [snap[t] EXCEPT !.desired = "stopped"]
        BY <1>0, <2>1, <3>1 DEF ScaleDownDesire, Update, TypeOK
      <4>2. tasks[t].status = "running"
        BY <1>0, <2>2, <2>4, <3>1 DEF Steady
      <4> QED
        BY <1>0, <2>2, <3>1, <4>1, <4>2 DEF TypeOK, Record
    <3>2. CASE t # u
      BY <1>0, <2>1, <3>2 DEF ScaleDownDesire, Update, TypeOK
    <3> QED
      BY <3>1, <3>2
  <2> QED
    BY <1>0, <2>2, <2>4, <2>5 DEF Steady
<1> QED
  BY <1>1, <1>2, <1>3, <1>4, <1>5, <1>6, <1>7, <1>8, <1>9, <1>10, <1>11, <1>12, TakeDownSteady
     DEF Reconcile

(* Only the API changes the status of a node. *)
LEMMA NodesStay ==
    ASSUME [Next]_vars, ~Environment
    PROVE  UNCHANGED nodeStatus
<1>1. CASE Boot
  BY <1>1 DEF Boot, BootService, BootSelect, BootLaunch, Launch, updateNodeResources
<1>2. CASE Health
  BY <1>2 DEF Health, HealthList, HealthCheck, HealthFail, HealthRelease, Release,
              ReleaseNodeResources
<1>3. CASE \E t \in Tasks : Executor(t)
  BY <1>3 DEF Executor, ExecStarting, ExecCreateContainer, ExecRunning, ExecFailed, ExecRelease,
              Release, ReleaseNodeResources
<1>4. CASE Reconcile
  <2>1. CASE \/ StartPass \/ EvacuateMark \/ EvacuateDone \/ DrainDone \/ RestartMark \/ Scale
             \/ SelectNode \/ ScaleDownMark \/ TakeDown \/ performScaleDown \/ ServiceDone
             \/ (\E n \in Nodes : DrainNode(n)) \/ \E f \in 1..3 : performScaleUp(f)
    BY <2>1 DEF StartPass, EvacuateMark, EvacuateDone, DrainDone, RestartMark, Scale, SelectNode,
                ScaleDownMark, TakeDown, performScaleDown, ServiceDone, DrainNode,
                performScaleUp, OnlyTheLoop
  <2>2. CASE \/ RestartRelease \/ LaunchPicked \/ ScaleDownRelease
             \/ \E t \in Tasks : \/ EvacuateRelease(t) \/ RestartIncrement(t)
                                 \/ ScaleDownSkip(t) \/ ScaleDownDesire(t)
    BY <2>2 DEF RestartRelease, LaunchPicked, Launch, ScaleDownRelease, EvacuateRelease,
                RestartIncrement, ScaleDownSkip, ScaleDownDesire, OnlyTheLoop, Release,
                ReleaseNodeResources, updateNodeResources
  <2> QED
    BY <1>4, <2>1, <2>2 DEF Reconcile
<1> QED
  BY <1>1, <1>2, <1>3, <1>4 DEF Next, vars

(* Undisturbed, the copy of the running tasks is up to date. *)
THEOREM SteadyInductive == ASSUME Undisturbed PROVE Spec => []SteadyInv
<1>1. Init => SteadyInv
  <2>1. ASSUME Init, NEW t \in Tasks PROVE Steady(t)
    BY <2>1 DEF Init, NoTasks, Steady, Absent, IdleReconcile, ClearingAway
  <2>2. Init => \A n \in Nodes : nodeStatus[n] = "ready"
    BY DEF Init, SchedulerInit
  <2> QED
    BY <2>1, <2>2, ScalingInit DEF SteadyInv
<1>2. ASSUME SteadyInv, [Next]_vars, NEW t \in Tasks PROVE Steady(t)'
  BY <1>2, ExecutorSteady, BootSteady, HealthSteady, ReconcileSteady, EnvironmentSteady DEF Next
<1>3. ASSUME SteadyInv, [Next]_vars PROVE \A n \in Nodes : nodeStatus'[n] = "ready"
  <2>1. ~\E n \in Nodes, status \in {"ready", "draining"} : SetNodeStatus(n, status)
    BY <1>3, BoundsAssumption DEF SteadyInv, ScalingInv, Inv, TypeOK, SetNodeStatus, Undisturbed
  <2>2. CASE Environment
    BY <1>3, <2>1, <2>2 DEF SteadyInv, Environment, ContainerLost, CooldownOver
  <2>3. CASE ~Environment
    BY <1>3, <2>3, NodesStay DEF SteadyInv
  <2> QED
    BY <1>3, <2>2, <2>3 DEF SteadyInv
<1>4. ScalingInv' /\ SteadyInv /\ [Next]_vars => SteadyInv'
  BY <1>2, <1>3 DEF SteadyInv
<1> QED
  BY ScalingInductive, <1>1, <1>4, PTL DEF Spec

(* MinReplicasKept: undisturbed, scale down leaves a service the running   *)
(* tasks that its policy asks for.                                         *)
THEOREM MinReplicasStay == ASSUME Undisturbed PROVE Spec => MinReplicasKept
<1> DEFINE Kept(t) ==
      LET s == tasks[t].service IN Cardinality(Serving(s)') >= MinReplicas[s]
<1>1. ASSUME SteadyInv, [Next]_vars, NEW t \in Tasks, GivesUp(t)
      PROVE  Kept(t)
  <2>1. ScalingInv /\ TypeOK
    BY <1>1 DEF SteadyInv, ScalingInv, Inv
  <2>2. ScaleDownDesire(t)
    BY <1>1, <2>1, OnlyScaleDownGivesUp
  <2>3. rec.pc = "scaleDown"
    BY <2>2 DEF ScaleDownDesire, NextToStop, At
  <2>4. ASSUME NEW u \in Tasks PROVE u \notin OutdatedOf(tasks[t].service)
    <3>1. Steady(u) /\ ~GivingUp(u)
      BY <1>1, <2>3 DEF SteadyInv, GivingUp, ScalingDown
    <3> QED
      BY <3>1 DEF Steady, OutdatedOf
  <2>5. OutdatedOf(tasks[t].service) = {}
    BY <2>4 DEF OutdatedOf
  <2>6. Cardinality({}) = 0
    BY FS_EmptySet
  <2>7. Serving(tasks[t].service)' \subseteq Tasks
    BY DEF Serving
  <2>8. Cardinality(Serving(tasks[t].service)') \in Nat
    BY <2>7, FiniteTasks, FS_Subset, FS_CardinalityType
  <2>9. Cardinality(Serving(tasks[t].service)') + Cardinality(OutdatedOf(tasks[t].service))
           >= MinReplicas[tasks[t].service]
    BY <1>1, <2>1, GivenUpLeavesEnough
  <2> QED
    BY <2>5, <2>6, <2>8, <2>9
<1>2. SteadyInv /\ [Next]_vars => [\A t \in Tasks : GivesUp(t) => Kept(t)]_vars
  BY <1>1
<1> QED
  BY SteadyInductive, <1>2, PTL DEF Spec, MinReplicasKept
==============================================================================
