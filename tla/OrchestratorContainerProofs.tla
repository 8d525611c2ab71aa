-------------------- MODULE OrchestratorContainerProofs --------------------
(***************************************************************************)
(* The containers are accounted for, for any nodes, services, tasks,       *)
(* strategies, failures and bounds.  Besides what the goroutines may rely  *)
(* on (Inv of OrchestratorProperties) the argument needs to know when a    *)
(* container is gone: before its executor has created it, when a task      *)
(* failed without one, and once a handler has taken it down.               *)
(***************************************************************************)
EXTENDS OrchestratorProofs

USE DEF storeVars, dockerVars, executorVars, scalingVars, reconcileVars, healthVars,
        budgetVars, schedulerVars

(* A record that says running names its container. *)
Named(r) == r.status = "running" => r.container

(* t has no container, or one that the daemon has refused to remove. *)
Gone(t) == container[t] = "none" \/ t \in abandoned

(* The loop has taken t's container down and is about to say so. *)
TakenDown(t) == rec.cur = t /\ rec.pc \in {"evacuateMark", "scaleDownRelease", "scaleDownMark"}

(* The loop is taking t's container down. *)
BeingRemoved(t) ==
    /\ rec.cur = t
    /\ rec.pc \in {"evacuateStop", "evacuateRemove", "restartStop", "restartRemove",
                  "scaleDownStop", "scaleDownRemove"}

(* ContainersTracked, for one task. *)
Tracked(t) ==
    \/ container[t] = "none" \/ t \in abandoned
    \/ tasks[t].container /\ tasks[t].desired = "running"
    \/ phase[t] = "created" \/ BeingRemoved(t)

(* What holds of every task. *)
Accounted(t) ==
    /\ Named(tasks[t]) /\ Named(snap[t]) /\ Named(drained[t]) /\ Named(seen[t])
    /\ phase[t] \in {"spawned", "creating", "refused"} => ~mine[t].container /\ Gone(t)
    /\ NeedsRestart(tasks[t]) /\ ~tasks[t].container => Gone(t)
    /\ NeedsRestart(snap[t]) /\ ~snap[t].container => Gone(t)
    /\ TakenDown(t) => Gone(t)
    /\ seen[t] # Absent /\ seen[t].desired = "stopped" => tasks[t].desired = "stopped"
    /\ Tracked(t)

ContainersInv == Inv /\ \A t \in Tasks : Accounted(t)

(***************************************************************************)
(* What the steps have in common.                                          *)
(***************************************************************************)

(* The record at an unused ID neither runs nor is restarted. *)
LEMMA ParkedIsNothing == ~NeedsRestart(Absent) /\ Named(Absent)
  BY DEF Absent, NeedsRestart, Terminated, Named

(* Where the loop takes down the container of the task at hand. *)
LEMMA TakingDownSteps == \A t \in Tasks : TakingDown(t) <=> BeingRemoved(t)
  BY DEF TakingDown, BeingRemoved, Stopping, Removing

(* While its executor is at work nobody restarts a task or takes it down. *)
LEMMA OwnedAreFree ==
    ASSUME ContainersInv, NEW t \in Tasks, phase[t] \in Owned
    PROVE  ~NeedsRestart(tasks[t]) /\ ~NeedsRestart(snap[t]) /\ ~TakenDown(t) /\ seen[t] = Absent
<1>1. /\ tasks[t].status \in {"pending", "starting"}
      /\ Done(snap[t]) \/ snap[t].status \in {"pending", "starting"}
      /\ seen[t] = Absent
  BY DEF ContainersInv, Inv, OwnedAreLeftAlone
<1>2. snap[t] \in Record
  BY DEF ContainersInv, Inv, TypeOK
<1>3. rec.pc \in Evacuating \cup Restarting \cup ScalingDown => rec.cur # t
  BY AtHand DEF ContainersInv
<1> QED
  BY <1>1, <1>2, <1>3
     DEF NeedsRestart, Terminated, Done, Record, TakenDown, Evacuating, ScalingDown

(* The executor creates the container and records it. *)
LEMMA ExecutorAccounts ==
    ASSUME ContainersInv, NEW t \in Tasks, NEW t0 \in Tasks, Executor(t0)
    PROVE  Accounted(t)'
<1>0. /\ Accounted(t) /\ TypeOK /\ RegistersSound
      /\ RecordsPlaced /\ OwnedAreLeftAlone
  BY DEF ContainersInv, Inv
<1>1. CASE ExecStarting(t0)
  <2>1. UNCHANGED <<container, abandoned, snap, drained, seen, rec>>
    BY <1>1 DEF ExecStarting
  <2>2. CASE t = t0
    <3>1. phase[t] = "spawned" /\ phase'[t] # "created" /\ phase[t] \in Owned
      BY <1>0, <1>1, <2>2 DEF ExecStarting, ExecutorStep, TypeOK, Owned
    <3>2. tasks'[t] = [mine[t] EXCEPT !.status = "starting"] /\ mine'[t] \in {Absent, tasks'[t]}
      BY <1>0, <1>1, <2>2 DEF ExecStarting, ExecutorUpdate, Update, TypeOK
    <3>3. mine[t] \in Record /\ ~mine[t].container /\ Gone(t)
      BY <1>0, <3>1 DEF TypeOK, Accounted
    <3>4. tasks'[t].status = "starting" /\ ~tasks'[t].container
      BY <3>2, <3>3 DEF Record
    <3>5. seen[t] = Absent /\ ~Absent.container
      BY <3>1, OwnedAreFree DEF Absent
    <3> QED
      BY <1>0, <2>1, <3>2, <3>3, <3>4, <3>5
         DEF Accounted, Named, Gone, TakenDown, Tracked, NeedsRestart
  <2>3. CASE t # t0
    <3>1. tasks'[t] = tasks[t] /\ mine'[t] = mine[t] /\ phase'[t] = phase[t]
      BY <1>0, <1>1, <2>3 DEF ExecStarting, ExecutorStep, ExecutorUpdate, Update, TypeOK
    <3> QED
      BY <1>0, <2>1, <3>1
         DEF Accounted, Named, Gone, TakenDown, Tracked, BeingRemoved, NeedsRestart
  <2> QED
    BY <2>2, <2>3
<1>2. CASE ExecCreateContainer(t0)
  <2>1. CASE t = t0
    <3>1. phase[t] \in Owned
      BY <1>2, <2>1 DEF ExecCreateContainer, ExecutorStep, Owned
    <3>2. ~NeedsRestart(tasks[t]) /\ ~NeedsRestart(snap[t]) /\ ~TakenDown(t)
      BY <3>1, OwnedAreFree
    <3>3. \/ phase'[t] = "created" \/ (phase'[t] = "refused" /\ UNCHANGED dockerVars)
          \/ phase'[t] = "refused" /\ t \in abandoned'
      BY <1>0, <1>2, <2>1 DEF ExecCreateContainer, ExecutorStep, TypeOK
    <3>4. phase[t] = "creating" /\ UNCHANGED <<tasks, mine, snap, drained, seen, rec>>
      BY <1>2, <2>1 DEF ExecCreateContainer, ExecutorStep
    <3> QED
      BY <1>0, <3>2, <3>3, <3>4
         DEF Accounted, Named, Gone, TakenDown, Tracked, BeingRemoved, NeedsRestart
  <2>2. CASE t # t0
    <3>1. phase'[t] = phase[t] /\ container'[t] = container[t] /\ abandoned \subseteq abandoned'
      BY <1>0, <1>2, <2>2 DEF ExecCreateContainer, ExecutorStep, TypeOK
    <3>2. UNCHANGED <<tasks, mine, snap, drained, seen, rec>>
      BY <1>2 DEF ExecCreateContainer
    <3> QED
      BY <1>0, <3>1, <3>2
         DEF Accounted, Named, Gone, TakenDown, Tracked, BeingRemoved, NeedsRestart
  <2> QED
    BY <2>1, <2>2
<1>3. CASE ExecRunning(t0)
  <2>1. UNCHANGED <<container, abandoned, snap, drained, seen, rec>>
    BY <1>3 DEF ExecRunning
  <2>2. CASE t = t0
    <3>1. phase[t] = "created" /\ phase'[t] = "none"
      BY <1>0, <1>3, <2>2 DEF ExecRunning, ExecutorStep, TypeOK
    <3>2. tasks'[t] = [mine[t] EXCEPT !.status = "running", !.container = TRUE]
      BY <1>0, <1>3, <2>2 DEF ExecRunning, ExecutorUpdate, Update, TypeOK
    <3>3. mine[t] \in Record /\ mine[t].desired = "running"
      BY <1>0, <3>1 DEF TypeOK, RecordsPlaced
    <3>4. tasks'[t].status = "running" /\ tasks'[t].container = TRUE /\ tasks'[t].desired = "running"
      BY <3>2, <3>3 DEF Record
    <3>5. seen[t] = Absent
      BY <3>1, OwnedAreFree DEF Owned
    <3> QED
      BY <1>0, <2>1, <3>1, <3>4, <3>5
         DEF Accounted, Named, Gone, TakenDown, Tracked, NeedsRestart, Terminated
  <2>3. CASE t # t0
    <3>1. tasks'[t] = tasks[t] /\ mine'[t] = mine[t] /\ phase'[t] = phase[t]
      BY <1>0, <1>3, <2>3 DEF ExecRunning, ExecutorStep, ExecutorUpdate, Update, TypeOK
    <3> QED
      BY <1>0, <2>1, <3>1
         DEF Accounted, Named, Gone, TakenDown, Tracked, BeingRemoved, NeedsRestart
  <2> QED
    BY <2>2, <2>3
<1>4. CASE ExecFailed(t0)
  <2>1. UNCHANGED <<container, abandoned, snap, drained, seen, rec>>
    BY <1>4 DEF ExecFailed
  <2>2. CASE t = t0
    <3>1. phase[t] = "refused" /\ phase'[t] # "created" /\ phase[t] \in Owned
      BY <1>0, <1>4, <2>2 DEF ExecFailed, ExecutorStep, TypeOK, Owned
    <3>2. tasks'[t] = [mine[t] EXCEPT !.status = "failed"] /\ mine'[t] \in {Absent, tasks'[t]}
      BY <1>0, <1>4, <2>2 DEF ExecFailed, ExecutorUpdate, Update, TypeOK
    <3>3. mine[t] \in Record /\ ~mine[t].container /\ Gone(t)
      BY <1>0, <3>1 DEF TypeOK, Accounted
    <3>4. tasks'[t].status = "failed" /\ ~tasks'[t].container
      BY <3>2, <3>3 DEF Record
    <3>5. seen[t] = Absent /\ ~Absent.container
      BY <3>1, OwnedAreFree DEF Absent
    <3> QED
      BY <1>0, <2>1, <3>2, <3>3, <3>4, <3>5
         DEF Accounted, Named, Gone, TakenDown, Tracked, NeedsRestart
  <2>3. CASE t # t0
    <3>1. tasks'[t] = tasks[t] /\ mine'[t] = mine[t] /\ phase'[t] = phase[t]
      BY <1>0, <1>4, <2>3 DEF ExecFailed, ExecutorStep, ExecutorUpdate, Update, TypeOK
    <3> QED
      BY <1>0, <2>1, <3>1
         DEF Accounted, Named, Gone, TakenDown, Tracked, BeingRemoved, NeedsRestart
  <2> QED
    BY <2>2, <2>3
<1>5. CASE ExecRelease(t0)
  BY <1>0, <1>5, ParkedIsNothing
     DEF ExecRelease, ExecutorStep, Release, Accounted, Named, Gone, TakenDown, Tracked,
         BeingRemoved, TypeOK, Record, NeedsRestart, Terminated
<1> QED
  BY <1>1, <1>2, <1>3, <1>4, <1>5 DEF Executor

(* initServices creates only at IDs that nobody uses. *)
LEMMA BootAccounts ==
    ASSUME ContainersInv, Boot, NEW t \in Tasks
    PROVE  Accounted(t)'
<1>0. /\ Accounted(t) /\ TypeOK /\ RegistersSound
      /\ RecordsPlaced /\ OwnedAreLeftAlone
  BY DEF ContainersInv, Inv
<1>1. CASE BootSelect
  BY <1>0, <1>1, ParkedIsNothing
     DEF BootSelect, Accounted, Named, Gone, TakenDown, Tracked, BeingRemoved, TypeOK,
         Record, NeedsRestart, Terminated
<1>2. CASE BootLaunch
  BY <1>0, <1>2, ParkedIsNothing
     DEF BootLaunch, Launch, Fresh, Unused, NewTask, Accounted, Named, Gone, TakenDown,
         Tracked, BeingRemoved, TypeOK, Record, NeedsRestart, Terminated
<1>3. CASE \E s \in Services : BootService(s)
  BY <1>0, <1>3, ParkedIsNothing
     DEF BootService, Accounted, Named, Gone, TakenDown, Tracked, BeingRemoved, TypeOK,
         Record, NeedsRestart, Terminated
<1> QED
  BY <1>1, <1>2, <1>3 DEF Boot

(* The health check writes its copy back, which names the container. *)
LEMMA HealthAccounts ==
    ASSUME ContainersInv, Health, NEW t \in Tasks
    PROVE  Accounted(t)'
<1>0. /\ Accounted(t) /\ TypeOK /\ RegistersSound
      /\ RecordsPlaced /\ OwnedAreLeftAlone
  BY DEF ContainersInv, Inv
<1>1. CASE HealthList
  BY <1>0, <1>1, ParkedIsNothing
     DEF HealthList, Copied, OnlyHealth, Accounted, Named, Gone, TakenDown, Tracked,
         BeingRemoved, TypeOK, Record, NeedsRestart, Terminated
<1>2. CASE HealthFail
  <2>1. UNCHANGED <<container, abandoned, phase, mine, snap, drained, seen, rec>>
    BY <1>2 DEF HealthFail, OnlyHealth
  <2>2. CASE t = health.cur
    <3>1. seen[t] # Absent /\ seen[t] \in Record /\ seen[t].status = "running"
      BY <1>0, <1>2, <2>2 DEF HealthFail, RegistersSound, RecordsPlaced, TypeOK
    <3>2. tasks'[t] = [seen[t] EXCEPT !.status = "failed"]
      BY <1>0, <1>2, <2>2 DEF HealthFail, Update, TypeOK
    <3>3. tasks'[t].status = "failed" /\ tasks'[t].container /\ tasks'[t].desired = seen[t].desired
      BY <1>0, <3>1, <3>2 DEF Record, Accounted, Named
    <3>4. seen[t].desired \in {"running", "stopped"}
      BY <3>1 DEF Record
    <3> QED
      BY <1>0, <2>1, <3>1, <3>3, <3>4
         DEF Accounted, Named, Gone, TakenDown, Tracked, BeingRemoved, NeedsRestart,
             Terminated
  <2>3. CASE t # health.cur
    <3>1. tasks'[t] = tasks[t]
      BY <1>0, <1>2, <2>3 DEF HealthFail, Update, TypeOK
    <3> QED
      BY <1>0, <2>1, <3>1
         DEF Accounted, Named, Gone, TakenDown, Tracked, BeingRemoved, NeedsRestart
  <2> QED
    BY <2>2, <2>3
<1>3. CASE HealthRelease
  BY <1>0, <1>3, ParkedIsNothing
     DEF HealthRelease, OnlyHealth, Release, Accounted, Named, Gone, TakenDown, Tracked,
         BeingRemoved, TypeOK, Record, NeedsRestart, Terminated
<1>4. CASE \E u \in Tasks : HealthCheck(u)
  <2>1. UNCHANGED <<tasks, container, abandoned, phase, mine, snap, drained, rec>>
    BY <1>4 DEF HealthCheck, OnlyHealth
  <2>2. seen'[t] \in {seen[t], Absent}
    BY <1>0, <1>4 DEF HealthCheck, TypeOK
  <2> QED
    BY <1>0, <2>1, <2>2, ParkedIsNothing
       DEF Accounted, Named, Gone, TakenDown, Tracked, BeingRemoved, NeedsRestart
<1> QED
  BY <1>1, <1>2, <1>3, <1>4 DEF Health

(* The reconcile loop takes containers down before it says that they are gone. *)
LEMMA ReconcileAccounts ==
    ASSUME ContainersInv, Reconcile, NEW t \in Tasks
    PROVE  Accounted(t)'
<1>0. /\ Accounted(t) /\ TypeOK /\ RegistersSound
      /\ RecordsPlaced /\ OwnedAreLeftAlone
  BY DEF ContainersInv, Inv
<1>1. CASE StartPass
  BY <1>0, <1>1, ParkedIsNothing
     DEF StartPass, Copied, At, NotTheLoops, OnlyTheLoop, Accounted, Named, Gone, TakenDown,
         Tracked, BeingRemoved, TypeOK, Record, NeedsRestart, Terminated
<1>2. CASE EvacuateMark
  BY <1>0, <1>2, ParkedIsNothing
     DEF EvacuateMark, Update, Retired, At, NotTheLoops, Accounted, Named, Gone, TakenDown,
         Tracked, BeingRemoved, TypeOK, Record, NeedsRestart, Terminated
<1>3. CASE EvacuateDone
  BY <1>0, <1>3, ParkedIsNothing
     DEF EvacuateDone, Goto, At, NotTheLoops, OnlyTheLoop, Accounted, Named, Gone,
         TakenDown, Tracked, BeingRemoved, TypeOK, Record, NeedsRestart, Terminated
<1>4. CASE DrainDone
  <2>1. UNCHANGED <<tasks, container, abandoned, phase, mine, drained, seen>>
    BY <1>4 DEF DrainDone, OnlyTheLoop, NotTheLoops
  <2>2. rec.pc \in {"drain", "scaleUp", "scaleDown"}
    BY <1>4 DEF DrainDone, ScalingDone, At
  <2>3. ToNextService(Services)
    BY <1>4 DEF DrainDone
  <2> QED
    BY <1>0, <2>1, <2>2, <2>3, NextServiceIdle, ParkedIsNothing
       DEF Accounted, Named, Gone, TakenDown, Tracked, BeingRemoved, NeedsRestart
<1>5. CASE \E n \in Nodes : DrainNode(n)
  BY <1>0, <1>5, ParkedIsNothing
     DEF DrainNode, Copied, At, NotTheLoops, OnlyTheLoop, Accounted, Named, Gone, TakenDown,
         Tracked, BeingRemoved, TypeOK, Record, NeedsRestart, Terminated
<1>6. CASE \E u \in Tasks : EvacuateRelease(u)
  <2>1. PICK u \in Tasks : EvacuateRelease(u)
    BY <1>6
  <2>2. UNCHANGED <<tasks, container, abandoned, phase, mine, snap, drained, seen>>
    BY <2>1 DEF EvacuateRelease, NotTheLoops
  <2>3. rec.pc = "evacuate"
    BY <2>1 DEF EvacuateRelease, At
  <2>4. drained[u].container
    BY <2>1 DEF EvacuateRelease, ToMove, ContainersInv, Inv, RecordsPlaced, Accounted, Named
  <2>5. rec'.pc = "evacuateStop" /\ rec'.cur = u
    BY <1>0, <2>1, <2>4 DEF EvacuateRelease, TypeOK, ReconcileRegisters
  <2> QED
    BY <1>0, <2>2, <2>3, <2>5
       DEF Accounted, Named, Gone, TakenDown, Tracked, BeingRemoved, NeedsRestart
<1>7. CASE \E u \in Tasks : RestartIncrement(u)
  BY <1>0, <1>7, ParkedIsNothing
     DEF RestartIncrement, ToRestart, At, NotTheLoops, Accounted, Named, Gone, TakenDown,
         Tracked, BeingRemoved, TypeOK, Record, NeedsRestart, Terminated
<1>8. CASE \E u \in Tasks : ScaleDownSkip(u)
  BY <1>0, <1>8, ParkedIsNothing
     DEF ScaleDownSkip, NextToStop, At, NotTheLoops, OnlyTheLoop, Accounted, Named, Gone,
         TakenDown, Tracked, BeingRemoved, TypeOK, Record, NeedsRestart, Terminated
<1>9. CASE \E u \in Tasks : ScaleDownDesire(u)
  <2>1. PICK u \in Tasks : ScaleDownDesire(u)
    BY <1>9
  <2>2. UNCHANGED <<container, abandoned, phase, mine, drained, seen>>
    BY <2>1 DEF ScaleDownDesire, NotTheLoops
  <2>3. rec.pc = "scaleDown" /\ snap[u].status = "running" /\ snap[u] \in Record
    BY <1>0, <2>1 DEF ScaleDownDesire, NextToStop, At, RegistersSound, TypeOK
  <2>4. snap[u].container
    BY <2>3 DEF ContainersInv, Accounted, Named
  <2>5. rec'.pc = "scaleDownStop" /\ rec'.cur = u
    BY <1>0, <2>1, <2>4 DEF ScaleDownDesire, TypeOK, ReconcileRegisters
  <2>6. /\ snap'[t] = IF t = u THEN [snap[u] EXCEPT !.desired = "stopped"] ELSE snap[t]
        /\ tasks'[t] = IF t = u THEN [snap[u] EXCEPT !.desired = "stopped"] ELSE tasks[t]
    BY <1>0, <2>1 DEF ScaleDownDesire, Update, TypeOK
  <2>7. CASE t = u
    <3>1. /\ snap'[t].status = "running" /\ snap'[t].container
          /\ tasks'[t] = snap'[t] /\ tasks'[t].desired = "stopped"
      BY <2>3, <2>4, <2>6, <2>7 DEF Record
    <3> QED
      BY <1>0, <2>2, <2>5, <2>7, <3>1
         DEF Accounted, Named, Gone, TakenDown, Tracked, BeingRemoved, NeedsRestart,
             Terminated
  <2>8. CASE t # u
    BY <1>0, <2>2, <2>3, <2>5, <2>6, <2>8
       DEF Accounted, Named, Gone, TakenDown, Tracked, BeingRemoved, NeedsRestart
  <2> QED
    BY <2>7, <2>8
<1>10. CASE RestartRelease
  BY <1>0, <1>10, ParkedIsNothing
     DEF RestartRelease, Release, Goto, At, NotTheLoops, Accounted, Named, Gone, TakenDown,
         Tracked, BeingRemoved, TypeOK, Record, NeedsRestart, Terminated
<1>11. CASE RestartMark
  <2>1. UNCHANGED <<container, abandoned, phase, mine, drained, seen>>
    BY <1>11 DEF RestartMark, NotTheLoops
  <2>2. rec.pc = "restartMark" /\ NeedsRestart(snap[rec.cur]) /\ rec.cur \in Tasks
    BY <1>0, <1>11 DEF RestartMark, At, RegistersSound, Restarting
  <2>3. \/ snap[rec.cur].container /\ rec'.pc = "restartStop" /\ rec'.cur = rec.cur
        \/ ~snap[rec.cur].container /\ rec'.pc = "restartCreate"
    BY <1>0, <1>11 DEF RestartMark, TypeOK, ReconcileRegisters
  <2>4. /\ snap'[t] = IF t = rec.cur THEN Retired(snap[t]) ELSE snap[t]
        /\ tasks'[t] = IF t = rec.cur THEN Retired(snap[t]) ELSE tasks[t]
    BY <1>0, <2>2, <1>11 DEF RestartMark, Update, TypeOK
  <2>5. CASE t = rec.cur
    <3>1. Retired(snap[t]).status = "stopped" /\ Retired(snap[t]).desired = "stopped"
      BY <1>0 DEF Retired, TypeOK, Record
    <3>2. BeingRemoved(t)' \/ Gone(t)
      BY <1>0, <2>2, <2>3, <2>5 DEF BeingRemoved, Accounted
    <3> QED
      BY <1>0, <2>1, <2>3, <2>4, <2>5, <3>1, <3>2
         DEF Accounted, Named, Gone, TakenDown, Tracked, NeedsRestart
  <2>6. CASE t # rec.cur
    BY <1>0, <2>1, <2>2, <2>3, <2>4, <2>6
       DEF Accounted, Named, Gone, TakenDown, Tracked, BeingRemoved, NeedsRestart
  <2> QED
    BY <2>5, <2>6
<1>12. CASE Scale
  BY <1>0, <1>12, ParkedIsNothing
     DEF Scale, ToRestart, At, NotTheLoops, OnlyTheLoop, Accounted, Named, Gone, TakenDown,
         Tracked, BeingRemoved, TypeOK, Record, NeedsRestart, Terminated
<1>13. CASE SelectNode
  <2>1. UNCHANGED <<tasks, container, abandoned, phase, mine, snap, drained, seen>>
    BY <1>13 DEF SelectNode, OnlyTheLoop, NotTheLoops
  <2>2. rec.pc \in Creating /\ rec'.pc \in Creating \cup {"evacuate", "restart", "scaleUp"}
    BY <1>0, <1>13, CreatorsGoOn DEF SelectNode, TypeOK, ReconcileRegisters
  <2> QED
    BY <1>0, <2>1, <2>2
       DEF Accounted, Named, Gone, TakenDown, Tracked, BeingRemoved, NeedsRestart, Creating
<1>14. CASE LaunchPicked
  <2>1. UNCHANGED <<container, abandoned, snap, drained, seen>>
    BY <1>14 DEF LaunchPicked, NotTheLoops
  <2>2. rec.pc \in Creating /\ rec'.pc \in {"evacuate", "restart", "scaleUp"}
    BY <1>0, <1>14, CreatorsGoOn DEF LaunchPicked, RegistersSound, TypeOK, ReconcileRegisters
  <2>3. Launch(rec.svc, rec.picked)
    BY <1>14 DEF LaunchPicked
  <2> QED
    BY <1>0, <2>1, <2>2, <2>3
       DEF Launch, Fresh, Unused, NewTask, Accounted, Named, Gone, TakenDown, Tracked,
           BeingRemoved,
           TypeOK, Record, NeedsRestart, Terminated, Creating
<1>15. CASE ScaleDownRelease
  BY <1>0, <1>15, ParkedIsNothing
     DEF ScaleDownRelease, Release, Goto, At, NotTheLoops, Accounted, Named, Gone,
         TakenDown, Tracked, BeingRemoved, TypeOK, Record, NeedsRestart, Terminated
<1>16. CASE ScaleDownMark
  BY <1>0, <1>16, ParkedIsNothing
     DEF ScaleDownMark, Update, Retired, At, NotTheLoops, Accounted, Named, Gone, TakenDown,
         Tracked, BeingRemoved, TypeOK, Record, NeedsRestart, Terminated
<1>17. CASE TakeDown
  <2>1. UNCHANGED <<tasks, phase, mine, snap, drained, seen>>
    BY <1>17 DEF TakeDown, NotTheLoops
  <2>2. /\ container'[t] # "none" => container[t] # "none"
        /\ abandoned \subseteq abandoned'
    BY <1>0, <1>17 DEF TakeDown, StopContainer, RemoveContainer, TypeOK
  <2>3. rec \in ReconcileRegisters /\ None \notin Tasks
    BY <1>0, NoneIsNone DEF TypeOK
  <2>4. CASE rec.pc \in DOMAIN Stopping /\ Goto(Stopping[rec.pc])
    <3>1. /\ rec.pc \in {"evacuateStop", "restartStop", "scaleDownStop"}
          /\ Stopping[rec.pc] \in {"evacuateRemove", "restartRemove", "scaleDownRemove"}
      BY <2>4 DEF Stopping
    <3>2. rec'.pc = Stopping[rec.pc] /\ rec'.cur = rec.cur
      BY <2>3, <2>4 DEF Goto, ReconcileRegisters
    <3> QED
      BY <1>0, <2>1, <2>2, <3>1, <3>2
         DEF Accounted, Named, Gone, TakenDown, Tracked, BeingRemoved, NeedsRestart
  <2>6. rec.pc \in DOMAIN Removing => RemoveContainer(rec.cur)
    BY <1>17 DEF TakeDown, Stopping, Removing
  <2>5. CASE /\ rec.pc \in DOMAIN Removing
             /\ rec' = [rec EXCEPT !.pc = Removing[@],
                                   !.cur = IF At("restartRemove") THEN None ELSE @]
    <3>1. rec.pc \in {"evacuateRemove", "restartRemove", "scaleDownRemove"}
      BY <2>5 DEF Removing
    <3>2. rec.cur \in Tasks
      BY <1>0, <3>1 DEF RegistersSound, Evacuating, ScalingDown
    <3>3. t = rec.cur => container'[t] = "none" \/ t \in abandoned'
      BY <1>0, <2>5, <2>6, <3>2 DEF RemoveContainer, TypeOK
    <3>4. rec'.cur = rec.cur \/ rec'.cur = None
      <4>1. CASE rec.pc = "restartRemove"
        BY <2>3, <2>5, <4>1 DEF At, ReconcileRegisters
      <4>2. CASE rec.pc # "restartRemove"
        <5>1. rec' = [rec EXCEPT !.pc = Removing[rec.pc], !.cur = rec.cur]
          BY <2>5, <4>2 DEF At
        <5> QED
          BY <2>3, <5>1 DEF ReconcileRegisters
      <4> QED
        BY <4>1, <4>2
    <3> QED
      BY <1>0, <2>1, <2>2, <2>3, <3>3, <3>4
         DEF Accounted, Named, Gone, TakenDown, Tracked, BeingRemoved, NeedsRestart
  <2> QED
    BY <1>17, <2>4, <2>5 DEF TakeDown
<1>18. CASE \E f \in 1..3 : performScaleUp(f)
  BY <1>0, <1>18, ParkedIsNothing
     DEF performScaleUp, Predicting, ScalingDone, At, NotTheLoops, OnlyTheLoop, Accounted,
         Named, Gone, TakenDown, Tracked, BeingRemoved, TypeOK, Record, NeedsRestart,
         Terminated
<1>19. CASE performScaleDown
  BY <1>0, <1>19, ParkedIsNothing
     DEF performScaleDown, Predicting, ScalingDone, At, NotTheLoops, OnlyTheLoop, Accounted,
         Named, Gone, TakenDown, Tracked, BeingRemoved, TypeOK, Record, NeedsRestart,
         Terminated
<1>20. CASE ServiceDone
  <2>1. UNCHANGED <<tasks, container, abandoned, phase, mine, drained, seen>>
    BY <1>20 DEF ServiceDone, OnlyTheLoop, NotTheLoops
  <2>2. rec.pc \in {"drain", "scaleUp", "scaleDown"}
    BY <1>20 DEF ServiceDone, ScalingDone, At
  <2>3. ToNextService(rec.servicesLeft)
    BY <1>20 DEF ServiceDone
  <2> QED
    BY <1>0, <2>1, <2>2, <2>3, NextServiceIdle, ParkedIsNothing
       DEF Accounted, Named, Gone, TakenDown, Tracked, BeingRemoved, NeedsRestart
<1> QED
  BY <1>1, <1>2, <1>3, <1>4, <1>5, <1>6, <1>7, <1>8, <1>9, <1>10, <1>11, <1>12, <1>13,
     <1>14, <1>15, <1>16, <1>17, <1>18, <1>19, <1>20
     DEF Reconcile

(* A container that is lost is not forgotten. *)
LEMMA EnvironmentAccounts ==
    ASSUME ContainersInv, Environment, NEW t \in Tasks
    PROVE  Accounted(t)'
<1>0. /\ Accounted(t) /\ TypeOK /\ RegistersSound
      /\ RecordsPlaced /\ OwnedAreLeftAlone
  BY DEF ContainersInv, Inv
<1>1. CASE \E u \in Tasks : ContainerLost(u)
  BY <1>0, <1>1, ParkedIsNothing
     DEF ContainerLost, Accounted, Named, Gone, TakenDown, Tracked, BeingRemoved, TypeOK,
         Record, NeedsRestart, Terminated
<1>2. CASE \E n \in Nodes, status \in {"ready", "draining"} : SetNodeStatus(n, status)
  BY <1>0, <1>2, ParkedIsNothing
     DEF SetNodeStatus, Accounted, Named, Gone, TakenDown, Tracked, BeingRemoved, TypeOK,
         Record, NeedsRestart, Terminated
<1>3. CASE \E s \in Services : CooldownOver(s)
  BY <1>0, <1>3, ParkedIsNothing
     DEF CooldownOver, Accounted, Named, Gone, TakenDown, Tracked, BeingRemoved, TypeOK,
         Record, NeedsRestart, Terminated
<1> QED
  BY <1>1, <1>2, <1>3 DEF Environment

(* At first there is nothing to account for. *)
LEMMA InitAccounts == Init => \A t \in Tasks : Accounted(t)
<1> SUFFICES ASSUME Init, NEW t \in Tasks PROVE Accounted(t)
  OBVIOUS
<1>1. /\ tasks[t] = Absent /\ snap[t] = Absent /\ drained[t] = Absent /\ seen[t] = Absent
      /\ container[t] = "none" /\ phase[t] = "none"
  BY DEF Init, NoTasks
<1> QED
  BY <1>1, ParkedIsNothing DEF Accounted, Gone, Tracked

(* A step in which nothing happens. *)
LEMMA StutterAccounts ==
    ASSUME ContainersInv, UNCHANGED vars, NEW t \in Tasks
    PROVE  Accounted(t)'
<1>1. UNCHANGED <<tasks, container, abandoned, phase, mine, rec, snap, drained, seen>>
  BY DEF vars
<1>2. Accounted(t)
  BY DEF ContainersInv
<1> QED
  BY <1>1, <1>2 DEF Accounted, Named, Gone, TakenDown, Tracked, BeingRemoved, NeedsRestart

(* Whatever the interleaving and the failures, the invariant holds. *)
THEOREM ContainersInductive == Spec => []ContainersInv
<1>1. Init => ContainersInv
  BY InitInv, InitAccounts DEF ContainersInv
<1>2. ASSUME ContainersInv, [Next]_vars, NEW t \in Tasks PROVE Accounted(t)'
  BY <1>2, ExecutorAccounts, BootAccounts, HealthAccounts, ReconcileAccounts,
     EnvironmentAccounts, StutterAccounts DEF Next
<1>3. Inv /\ ContainersInv /\ Inv' /\ [Next]_vars => ContainersInv'
  BY <1>2 DEF ContainersInv
<1> QED
  BY Inductive, <1>1, <1>3, PTL DEF Spec

(* RunningNamesContainer: whoever shortens the ContainerID of a running    *)
(* task for a log line or a call to the daemon finds one.                  *)
THEOREM RunningHaveContainers == Spec => []RunningNamesContainer
<1>1. ContainersInv => RunningNamesContainer
  <2> SUFFICES ASSUME ContainersInv, NEW t \in Tasks,
                      NEW copy \in {tasks[t], snap[t], drained[t], seen[t]}
               PROVE  Named(copy)
    BY DEF RunningNamesContainer, Named
  <2> QED
    BY DEF ContainersInv, Accounted
<1> QED
  BY ContainersInductive, <1>1, PTL

(* ContainersTracked: the executors, the health check, evacuation,         *)
(* restarts and scale down lose no container between them, except those    *)
(* the daemon refused to remove.                                           *)
THEOREM NoContainerIsLost == Spec => []ContainersTracked
<1>1. ContainersInv => ContainersTracked
  BY TakingDownSteps DEF ContainersInv, Accounted, Tracked, ContainersTracked
<1> QED
  BY ContainersInductive, <1>1, PTL
============================================================================
