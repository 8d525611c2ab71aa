------------------------------ MODULE LifeCycle ------------------------------
(***************************************************************************)
(* Start and Stop of the orchestrator (core/orchestrator.go), the          *)
(* goroutines they launch, wait for and do not wait for, and the process   *)
(* around them (cmd/gorchester/main.go), whose end takes all of them along *)
(* and leaves the containers.                                              *)
(*                                                                         *)
(* Every Start makes a new context; o.ctx is that of the latest, number    *)
(* starts.  Whoever reads o.ctx gets the latest context, also a loop that  *)
(* an earlier Start has launched, and an executor takes the one that is    *)
(* there when it begins.  Under a cancelled context the calls of the       *)
(* daemon and GetNodes fail; the task store and ReleaseNodeResources do    *)
(* not look at the context.                                                *)
(*                                                                         *)
(* What a pass does to a task is cut down here to what depends on its      *)
(* context; Orchestrator has its steps.                                    *)
(***************************************************************************)
EXTENDS Integers, FiniteSets

CONSTANTS Kinds,        \* the loops that Start launches; "reconcile" and "health" work
          Tasks,
          MaxStarts,    \* bound: calls of Start, and so contexts
          MaxExits      \* bound: ends of the process

Contexts == 1..MaxStarts
Loops == Kinds \X Contexts      \* <<kind, the Start that launched it>>

ASSUME KindsAssumption == {"reconcile", "health"} \subseteq Kinds /\ IsFiniteSet(Kinds)
ASSUME StartsAssumption == MaxStarts \in Nat /\ MaxExits \in Nat

VARIABLES
    isRunning,
    starts,         \* calls of Start so far; o.ctx is context number starts
    cancelled,      \* the contexts that are cancelled
    caller,         \* who holds o.mu: "none", Start in initServices, or Stop waiting
    loop,           \* loop -> "none", "waiting" in its select, "passing", "ended"
    loopCtx,        \* loop -> the context it waits on, or of its pass
    waiter,         \* context -> the goroutine of its Stop that waits for o.wg
    graceful,       \* history: the last Stop saw every loop end
    timeouts,       \* history: Stops of this process that gave up
    panics,         \* history: the process was ended by a panic of the WaitGroup
    record,         \* task -> its status in the store
    container,      \* task -> the state of its container
    exec,           \* task -> where its executeTask is
    execCtx,        \* task -> the context its executeTask took
    cutOff,         \* history: tasks whose container a cancelled call has left behind
    orphaned,       \* history: tasks whose container a former process has left behind
    exits           \* ends of the process so far

controlVars == <<isRunning, starts, cancelled, caller, graceful, timeouts>>
loopVars == <<loop, loopCtx>>
taskVars == <<record, container, exec, execCtx, cutOff>>
processVars == <<panics, orphaned, exits>>
vars == <<isRunning, starts, cancelled, caller, loop, loopCtx, waiter, graceful, timeouts, panics,
          record, container, exec, execCtx, cutOff, orphaned, exits>>

Fresh ==
    /\ isRunning' = FALSE /\ caller' = "none" /\ graceful' = TRUE /\ timeouts' = 0
    /\ loop' = [l \in Loops |-> "none"] /\ loopCtx' = [l \in Loops |-> 0]
    /\ waiter' = [c \in Contexts |-> "none"]
    /\ record' = [t \in Tasks |-> "absent"]
    /\ exec' = [t \in Tasks |-> "none"] /\ execCtx' = [t \in Tasks |-> 0]

Init ==
    /\ isRunning = FALSE /\ caller = "none" /\ graceful = TRUE /\ timeouts = 0
    /\ starts = 0 /\ cancelled = {}
    /\ loop = [l \in Loops |-> "none"] /\ loopCtx = [l \in Loops |-> 0]
    /\ waiter = [c \in Contexts |-> "none"]
    /\ record = [t \in Tasks |-> "absent"] /\ container = [t \in Tasks |-> "none"]
    /\ exec = [t \in Tasks |-> "none"] /\ execCtx = [t \in Tasks |-> 0]
    /\ cutOff = {} /\ orphaned = {} /\ panics = FALSE /\ exits = 0

Alive(l) == loop[l] \in {"waiting", "passing"}

(* o.wg counts the loops that have not ended. *)
Counted == {l \in Loops : Alive(l)}

(***************************************************************************)
(* Start and Stop.  Both hold o.mu, so one waits for the other.            *)
(***************************************************************************)

(* Mutant: a running orchestrator is started once more. *)
NotChecked == TRUE

(* Start refuses to start what runs. *)
MayStart == ~isRunning

(* A context, three loops on it, and initServices. *)
Start ==
    /\ caller = "none" /\ MayStart /\ starts < MaxStarts
    /\ starts' = starts + 1 /\ isRunning' = TRUE /\ caller' = "init"
    /\ loop' = [l \in Loops |-> IF l[2] = starts' THEN "waiting" ELSE loop[l]]
    /\ loopCtx' = [l \in Loops |-> IF l[2] = starts' THEN starts' ELSE loopCtx[l]]
    /\ UNCHANGED <<cancelled, waiter, graceful, timeouts, taskVars, processVars>>

(* initServices has a context of its own, which nobody cancels; that it    *)
(* fails is logged, and the store it asks does not fail.                   *)
InitDone ==
    /\ caller = "init" /\ caller' = "none"
    /\ UNCHANGED <<isRunning, starts, cancelled, graceful, timeouts, loopVars, waiter, taskVars,
                   processVars>>

(* Mutant: the context is not cancelled. *)
StopsWaitingOnly ==
    /\ caller = "none" /\ isRunning /\ caller' = "waiting"
    /\ waiter' = [waiter EXCEPT ![starts] = IF Counted = {} THEN "woken" ELSE "waiting"]
    /\ UNCHANGED <<isRunning, starts, cancelled, graceful, timeouts, loopVars, taskVars,
                   processVars>>

(* The context is cancelled and a goroutine waits for the loops. *)
Stop ==
    /\ caller = "none" /\ isRunning /\ caller' = "waiting"
    /\ cancelled' = cancelled \cup {starts}
    /\ waiter' = [waiter EXCEPT ![starts] = IF Counted = {} THEN "woken" ELSE "waiting"]
    /\ UNCHANGED <<isRunning, starts, graceful, timeouts, loopVars, taskVars, processVars>>

(* Mutant: Stop does not wait. *)
NotWaited == TRUE

(* Its Wait has returned. *)
Done == waiter[starts] = "done"

StopReturns ==
    /\ caller = "waiting" /\ Done
    /\ caller' = "none" /\ isRunning' = FALSE /\ graceful' = TRUE
    /\ UNCHANGED <<starts, cancelled, timeouts, loopVars, waiter, taskVars, processVars>>

(* 30 s are over; the goroutine goes on waiting. *)
StopTimesOut ==
    /\ caller = "waiting" /\ ~Done
    /\ caller' = "none" /\ isRunning' = FALSE /\ graceful' = FALSE /\ timeouts' = timeouts + 1
    /\ UNCHANGED <<starts, cancelled, loopVars, waiter, taskVars, processVars>>

(***************************************************************************)
(* The loops.                                                              *)
(***************************************************************************)

(* The ticker; select may take it although the context is done.  The pass  *)
(* reads o.ctx again.                                                      *)
PassBegins(l) ==
    /\ loop[l] = "waiting" /\ loop' = [loop EXCEPT ![l] = "passing"]
    /\ loopCtx' = [loopCtx EXCEPT ![l] = starts]
    /\ UNCHANGED <<controlVars, waiter, taskVars, processVars>>

(* Back to the select, which reads o.ctx: of the latest Start. *)
PassEnds(l) ==
    /\ loop[l] = "passing" /\ loop' = [loop EXCEPT ![l] = "waiting"]
    /\ loopCtx' = [loopCtx EXCEPT ![l] = starts]
    /\ UNCHANGED <<controlVars, waiter, taskVars, processVars>>

(* o.wg.Done of the last loop wakes who waits. *)
LoopEnds(l) ==
    /\ loop[l] = "waiting" /\ loopCtx[l] \in cancelled
    /\ loop' = [loop EXCEPT ![l] = "ended"]
    /\ waiter' = [c \in Contexts |-> IF waiter[c] = "waiting" /\ Counted = {l}
                                     THEN "woken" ELSE waiter[c]]
    /\ UNCHANGED <<loopCtx, controlVars, taskVars, processVars>>

(* What has been woken finds the WaitGroup at zero, and Wait returns. *)
WaitReturns(c) ==
    /\ waiter[c] = "woken" /\ Counted = {}
    /\ waiter' = [waiter EXCEPT ![c] = "done"]
    /\ UNCHANGED <<controlVars, loopVars, taskVars, processVars>>

(***************************************************************************)
(* What depends on the context in the work on tasks.                       *)
(***************************************************************************)
Live(c) == c \notin cancelled

(* A pass of this kind is under way, with this context. *)
Passing(kind, c) == \E k \in Contexts : loop[<<kind, k>>] = "passing" /\ loopCtx[<<kind, k>>] = c

(* createServiceTask; GetNodes fails when the context is cancelled. *)
CreateTask(t) ==
    /\ record[t] = "absent" /\ container[t] = "none"
    /\ caller = "init" \/ \E c \in Contexts : Live(c) /\ Passing("reconcile", c)
    /\ record' = [record EXCEPT ![t] = "pending"]
    /\ exec' = [exec EXCEPT ![t] = "spawned"]
    /\ UNCHANGED <<controlVars, loopVars, waiter, container, execCtx, cutOff, processVars>>

(* executeTask begins: it takes o.ctx. *)
ExecBegin(t) ==
    /\ exec[t] = "spawned" /\ exec' = [exec EXCEPT ![t] = "begun"]
    /\ execCtx' = [execCtx EXCEPT ![t] = starts]
    /\ record' = [record EXCEPT ![t] = "starting"]
    /\ UNCHANGED <<controlVars, loopVars, waiter, container, cutOff, processVars>>

(* CreateContainer's requests are made only under a live context. *)
ExecRequest(t) ==
    /\ exec[t] = "begun"
    /\ exec' = [exec EXCEPT ![t] = IF Live(execCtx[t]) THEN "requested" ELSE "refused"]
    /\ UNCHANGED <<controlVars, loopVars, waiter, record, container, execCtx, cutOff, processVars>>

(* The answer; or, when the context is cancelled meanwhile, an error, and  *)
(* the daemon may have created the container, or started it, all the same: *)
(* RemoveContainer does not force the removal of one that runs.            *)
ExecAnswer(t) ==
    /\ exec[t] = "requested"
    /\ \/ /\ Live(execCtx[t]) /\ exec' = [exec EXCEPT ![t] = "created"]
          /\ container' = [container EXCEPT ![t] = "up"] /\ UNCHANGED cutOff
       \/ /\ ~Live(execCtx[t]) /\ exec' = [exec EXCEPT ![t] = "refused"]
          /\ \E state \in {"none", "down", "up"} :
                /\ container' = [container EXCEPT ![t] = state]
                /\ cutOff' = IF state = "none" THEN cutOff ELSE cutOff \cup {t}
    /\ UNCHANGED <<controlVars, loopVars, waiter, record, execCtx, processVars>>

(* Mutant: the executor gives up when its context is cancelled. *)
GivesUp(t) ==
    /\ exec[t] \in {"created", "refused"} /\ exec' = [exec EXCEPT ![t] = "none"]
    /\ record' = [record EXCEPT ![t] = IF ~Live(execCtx[t]) THEN @
                                       ELSE IF exec[t] = "created" THEN "running" ELSE "failed"]
    /\ UNCHANGED <<controlVars, loopVars, waiter, container, execCtx, cutOff, processVars>>

(* The outcome is recorded whatever the context. *)
ExecRecord(t) ==
    /\ exec[t] \in {"created", "refused"} /\ exec' = [exec EXCEPT ![t] = "none"]
    /\ record' = [record EXCEPT ![t] = IF exec[t] = "created" THEN "running" ELSE "failed"]
    /\ UNCHANGED <<controlVars, loopVars, waiter, container, execCtx, cutOff, processVars>>

(* A pass of reconcile gives a task up (a restart, an evacuation or a      *)
(* scale down).  Under a cancelled context the container stays as it is,   *)
(* and the record says stopped all the same.                               *)
TakeDown(t) ==
    /\ record[t] \in {"running", "failed"}
    /\ \E c \in Contexts :
          /\ Passing("reconcile", c)
          /\ container' = [container EXCEPT ![t] = IF Live(c) /\ t \notin cutOff THEN "none" ELSE @]
          /\ cutOff' = IF ~Live(c) /\ container[t] # "none" THEN cutOff \cup {t} ELSE cutOff
    /\ record' = [record EXCEPT ![t] = "stopped"]
    /\ UNCHANGED <<controlVars, loopVars, waiter, exec, execCtx, processVars>>

(* checkHealth finds the container exited, if the daemon may be asked. *)
HealthFails(t) ==
    /\ record[t] = "running" /\ container[t] = "down"
    /\ \E c \in Contexts : Live(c) /\ Passing("health", c)
    /\ record' = [record EXCEPT ![t] = "failed"]
    /\ UNCHANGED <<controlVars, loopVars, waiter, container, exec, execCtx, cutOff, processVars>>

ContainerExits(t) ==
    /\ container[t] = "up" /\ container' = [container EXCEPT ![t] = "down"]
    /\ UNCHANGED <<controlVars, loopVars, waiter, record, exec, execCtx, cutOff, processVars>>

(***************************************************************************)
(* The process.                                                            *)
(***************************************************************************)

(* The process ends and is started anew: main returns after Stop, or it is *)
(* killed at any moment.  Nothing is kept but the containers.              *)
Gone ==
    /\ Fresh /\ cancelled' = cancelled \cup 1..starts
    /\ orphaned' = orphaned \cup {t \in Tasks : container[t] # "none"}
    /\ UNCHANGED <<starts, container, cutOff>>

Exit == exits < MaxExits /\ exits' = exits + 1 /\ Gone /\ UNCHANGED panics

(* The goroutine of a Stop that gave up is woken, and before it runs       *)
(* another Start has counted its loops: "WaitGroup is reused before        *)
(* previous Wait has returned".                                            *)
WaitPanics(c) ==
    /\ waiter[c] = "woken" /\ Counted # {}
    /\ panics' = TRUE /\ Gone /\ UNCHANGED exits

Executor(t) == ExecBegin(t) \/ ExecRequest(t) \/ ExecAnswer(t) \/ ExecRecord(t)

Next ==
    \/ Start \/ InitDone \/ Stop \/ StopReturns \/ StopTimesOut \/ Exit
    \/ \E l \in Loops : PassBegins(l) \/ PassEnds(l) \/ LoopEnds(l)
    \/ \E c \in Contexts : WaitReturns(c) \/ WaitPanics(c)
    \/ \E t \in Tasks : CreateTask(t) \/ Executor(t) \/ TakeDown(t) \/ HealthFails(t)
                           \/ ContainerExits(t)

Spec == Init /\ [][Next]_vars

(* Tickers tick, passes and calls of the daemon come to an end, and a      *)
(* select with two channels ready does not take the ticker for ever.       *)
Fairness ==
    /\ WF_vars(InitDone) /\ WF_vars(StopReturns \/ StopTimesOut)
    /\ \A l \in Loops : WF_vars(PassEnds(l)) /\ SF_vars(LoopEnds(l))
    /\ \A c \in Contexts : WF_vars(WaitReturns(c))
    /\ \A t \in Tasks : WF_vars(Executor(t))

FairSpec == Spec /\ Fairness

(***************************************************************************)
(* Properties.                                                             *)
(***************************************************************************)
TypeOK ==
    /\ isRunning \in BOOLEAN /\ caller \in {"none", "init", "waiting"}
    /\ starts \in 0..MaxStarts /\ cancelled \subseteq Contexts
    /\ loop \in [Loops -> {"none", "waiting", "passing", "ended"}]
    /\ loopCtx \in [Loops -> 0..MaxStarts]
    /\ waiter \in [Contexts -> {"none", "waiting", "woken", "done"}]
    /\ graceful \in BOOLEAN /\ timeouts \in Nat /\ panics \in BOOLEAN
    /\ record \in [Tasks -> {"absent", "pending", "starting", "running", "failed", "stopped"}]
    /\ container \in [Tasks -> {"none", "up", "down"}]
    /\ exec \in [Tasks -> {"none", "spawned", "begun", "requested", "created", "refused"}]
    /\ execCtx \in [Tasks -> 0..MaxStarts]
    /\ cutOff \subseteq Tasks /\ orphaned \subseteq Tasks
    /\ exits \in 0..MaxExits

(* A second Start does not double the loops: there is one of a kind, and   *)
(* one more for each Stop that gave up waiting, as what is left of that    *)
(* run goes on with the context of the next.                               *)
OfKind(kind) == {l \in Counted : l[1] = kind}
LoopsBounded == \A kind \in Kinds : Cardinality(OfKind(kind)) <= 1 + timeouts

(* Stop and Start in turn do not make the WaitGroup panic as long as no    *)
(* Stop has given up: who waits is gone before the next loops are counted. *)
OnlyTimeoutsPanic == [][panics' # panics => timeouts > 0]_vars

(* Whenever the orchestrator stops, or its process ends, a container is    *)
(* that of a recorded task or of one about to be recorded; the rest are    *)
(* those that a cancelled call or a former process has left behind.        *)
ContainersAccounted ==
    \A t \in Tasks : container[t] # "none" =>
       \/ record[t] \in {"running", "failed"} \/ exec[t] = "created"
       \/ t \in cutOff \cup orphaned

(* While the orchestrator is stopped no container comes up, although the   *)
(* executors are not waited for: except one that was requested before.     *)
StoppedStartsNothing ==
    [][\A t \in Tasks : (~isRunning /\ container[t] # "up" /\ container'[t] = "up")
                            => t \in cutOff']_vars

(* The loops of an orchestrator that is stopped for good end, also those   *)
(* that Stop did not wait for.                                             *)
StoppedLoopsEnd == <>[](~isRunning) => <>[](Counted = {})

(* No task stays starting, however its executor is cut short.              *)
StartingEnds == \A t \in Tasks : record[t] = "starting" ~> record[t] # "starting"
==============================================================================
