-------------------------- MODULE LifeCycleProofs --------------------------
(***************************************************************************)
(* Theorems about LifeCycle, for every set of tasks, every finite set of   *)
(* kinds of loops, and every number of starts and ends of the process.     *)
(***************************************************************************)
EXTENDS LifeCycle, FiniteSetTheorems, TLAPS

(* Start and Stop are called on what has been started; every context but   *)
(* the latest is cancelled, and that too unless the orchestrator runs.     *)
CallsInOrder ==
    /\ caller # "none" => isRunning
    /\ isRunning => starts >= 1
    /\ \A c \in 1..starts : (c < starts \/ ~isRunning \/ caller = "waiting") => c \in cancelled

(* Nothing belongs to a Start that has not been called. *)
NothingAhead ==
    /\ \A l \in Loops : l[2] > starts => loop[l] = "none"
    /\ \A c \in Contexts : c > starts => waiter[c] = "none"

(* What Stop has waited for has ended. *)
DoneMeansEnded == \A c \in Contexts : c = starts /\ waiter[c] = "done" => Counted = {}

(* LoopsBounded, and one loop less while the orchestrator is stopped. *)
LoopsOfRuns ==
    \A kind \in Kinds : Cardinality(OfKind(kind)) <= IF isRunning THEN 1 + timeouts ELSE timeouts

(* As long as no Stop has given up, only the Stop that is being waited for *)
(* has a goroutine at the WaitGroup.                                       *)
WaitersInOrder ==
    timeouts = 0 =>
       \A c \in Contexts :
          /\ waiter[c] \in {"waiting", "woken"} => c = starts /\ caller = "waiting"
          /\ waiter[c] = "woken" => Counted = {}

(* An executor works on a task that no loop takes up, and under a context  *)
(* that some Start has made.                                               *)
ExecutorsInOrder ==
    \A t \in Tasks :
       /\ exec[t] # "none" => record[t] \in {"pending", "starting"} /\ starts >= 1
       /\ exec[t] \in {"begun", "requested"} => execCtx[t] \in 1..starts

Inv == /\ TypeOK /\ CallsInOrder /\ NothingAhead /\ DoneMeansEnded /\ LoopsOfRuns
       /\ WaitersInOrder /\ ExecutorsInOrder /\ ContainersAccounted

----------------------------------------------------------------------------
(* The loops are finitely many, each with a kind and the number of a Start. *)
LEMMA LoopsAreFinite ==
    /\ IsFiniteSet(Loops)
    /\ \A l \in Loops : l[1] \in Kinds /\ l[2] \in Contexts /\ l = <<l[1], l[2]>>
<1>1. IsFiniteSet(Contexts)
  BY FS_Interval, StartsAssumption DEF Contexts
<1>2. IsFiniteSet(Loops)
  BY <1>1, FS_Product, KindsAssumption DEF Loops
<1>3. \A l \in Loops : l[1] \in Kinds /\ l[2] \in Contexts /\ l = <<l[1], l[2]>>
  BY DEF Loops
<1> QED
  BY <1>2, <1>3

LEMMA ContextsAreNumbers == \A c : c \in Contexts <=> c \in Nat /\ 1 <= c /\ c <= MaxStarts
  BY StartsAssumption DEF Contexts

(* Fewer loops of a kind are not more. *)
LEMMA FewerLoops ==
    ASSUME NEW A, NEW B, B \subseteq Loops, A \subseteq B
    PROVE  Cardinality(A) \in Nat /\ Cardinality(B) \in Nat /\ Cardinality(A) <= Cardinality(B)
<1>1. IsFiniteSet(B)
  BY LoopsAreFinite, FS_Subset
<1>2. IsFiniteSet(A) /\ Cardinality(A) <= Cardinality(B)
  BY <1>1, FS_Subset
<1> QED
  BY <1>1, <1>2, FS_CardinalityType

LEMMA InitInv == Init => Inv
<1> SUFFICES ASSUME Init PROVE Inv
  OBVIOUS
<1>1. TypeOK
  <2>1. /\ loop \in [Loops -> {"none", "waiting", "passing", "ended"}]
        /\ loopCtx \in [Loops -> 0..MaxStarts]
    BY StartsAssumption DEF Init
  <2>2. /\ record \in [Tasks -> {"absent", "pending", "starting", "running", "failed", "stopped"}]
        /\ exec \in [Tasks -> {"none", "spawned", "begun", "requested", "created", "refused"}]
        /\ execCtx \in [Tasks -> 0..MaxStarts]
        /\ container \in [Tasks -> {"none", "up", "down"}]
    BY StartsAssumption DEF Init
  <2>3. waiter \in [Contexts -> {"none", "waiting", "woken", "done"}]
    BY DEF Init
  <2>4. isRunning \in BOOLEAN /\ graceful \in BOOLEAN /\ panics \in BOOLEAN
    BY DEF Init
  <2>5. starts \in 0..MaxStarts /\ timeouts \in Nat /\ exits \in 0..MaxExits
    BY StartsAssumption DEF Init
  <2>6. /\ cancelled \subseteq Contexts /\ cutOff \subseteq Tasks /\ orphaned \subseteq Tasks
        /\ caller \in {"none", "init", "waiting"}
    BY DEF Init
  <2> QED
    BY <2>1, <2>2, <2>3, <2>4, <2>5, <2>6 DEF TypeOK
<1>6. CallsInOrder
  BY DEF Init, CallsInOrder
<1>7. NothingAhead /\ DoneMeansEnded
  BY DEF Init, NothingAhead, DoneMeansEnded
<1>2. Counted = {}
  BY DEF Init, Counted, Alive
<1>3. \A kind \in Kinds : OfKind(kind) = {}
  BY <1>2 DEF OfKind
<1>4. LoopsOfRuns
  BY <1>3, FS_EmptySet DEF LoopsOfRuns, Init
<1>5. WaitersInOrder /\ ExecutorsInOrder /\ ContainersAccounted
  BY <1>2 DEF Init, WaitersInOrder, ExecutorsInOrder, ContainersAccounted
<1> QED
  BY <1>1, <1>4, <1>5, <1>6, <1>7 DEF Inv

LEMMA TypeStep == TypeOK /\ CallsInOrder /\ [Next]_vars => TypeOK'
<1> SUFFICES ASSUME TypeOK, CallsInOrder, [Next]_vars PROVE TypeOK'
  OBVIOUS
<1> USE StartsAssumption, LoopsAreFinite, ContextsAreNumbers
        DEF TypeOK, controlVars, loopVars, taskVars, processVars
<1>1. CASE Start
  BY <1>1 DEF Start, MayStart
<1>2. CASE InitDone
  BY <1>2 DEF InitDone
<1>3. CASE Stop
  <2>1. starts \in Contexts
    BY <1>3, ContextsAreNumbers DEF Stop, CallsInOrder
  <2>2. cancelled' \subseteq Contexts
    BY <1>3, <2>1 DEF Stop
  <2>3. waiter' \in [Contexts -> {"none", "waiting", "woken", "done"}]
    BY <1>3, <2>1 DEF Stop
  <2> QED
    BY <1>3, <2>2, <2>3 DEF Stop
<1>4. CASE StopReturns
  BY <1>4 DEF StopReturns, Done
<1>5. CASE StopTimesOut
  <2>1. timeouts' \in Nat
    BY <1>5 DEF StopTimesOut
  <2> QED
    BY <1>5, <2>1 DEF StopTimesOut
<1>6. CASE Exit
  <2>1. cancelled' \subseteq Contexts
    <3>1. 1..starts \subseteq Contexts
      BY StartsAssumption DEF Contexts
    <3> QED
      BY <1>6, <3>1 DEF Exit, Gone
  <2>2. exits' \in 0..MaxExits
    BY <1>6 DEF Exit, Gone, Fresh
  <2>3. /\ loop' \in [Loops -> {"none", "waiting", "passing", "ended"}]
        /\ loopCtx' \in [Loops -> 0..MaxStarts]
    BY <1>6 DEF Exit, Gone, Fresh
  <2>4. /\ record' \in [Tasks -> {"absent", "pending", "starting", "running", "failed", "stopped"}]
        /\ exec' \in [Tasks -> {"none", "spawned", "begun", "requested", "created", "refused"}]
        /\ execCtx' \in [Tasks -> 0..MaxStarts]
    BY <1>6 DEF Exit, Gone, Fresh
  <2>5. orphaned' \subseteq Tasks
    BY <1>6 DEF Exit, Gone
  <2> QED
    BY <1>6, <2>1, <2>2, <2>3, <2>4, <2>5 DEF Exit, Gone, Fresh
<1>7. ASSUME NEW l \in Loops, PassBegins(l) PROVE TypeOK'
  BY <1>7 DEF PassBegins
<1>8. ASSUME NEW l \in Loops, PassEnds(l) PROVE TypeOK'
  BY <1>8 DEF PassEnds
<1>9. ASSUME NEW l \in Loops, LoopEnds(l) PROVE TypeOK'
  BY <1>9 DEF LoopEnds
<1>10. ASSUME NEW c \in Contexts, WaitReturns(c) PROVE TypeOK'
  BY <1>10 DEF WaitReturns
<1>11. ASSUME NEW c \in Contexts, WaitPanics(c) PROVE TypeOK'
  <2>1. cancelled' \subseteq Contexts
    <3>1. 1..starts \subseteq Contexts
      BY StartsAssumption DEF Contexts
    <3> QED
      BY <1>11, <3>1 DEF WaitPanics, Gone
  <2>2. exits' \in 0..MaxExits
    BY <1>11 DEF WaitPanics, Gone, Fresh
  <2>3. /\ loop' \in [Loops -> {"none", "waiting", "passing", "ended"}]
        /\ loopCtx' \in [Loops -> 0..MaxStarts]
    BY <1>11 DEF WaitPanics, Gone, Fresh
  <2>4. /\ record' \in [Tasks -> {"absent", "pending", "starting", "running", "failed", "stopped"}]
        /\ exec' \in [Tasks -> {"none", "spawned", "begun", "requested", "created", "refused"}]
        /\ execCtx' \in [Tasks -> 0..MaxStarts]
    BY <1>11 DEF WaitPanics, Gone, Fresh
  <2>5. orphaned' \subseteq Tasks
    BY <1>11 DEF WaitPanics, Gone
  <2> QED
    BY <1>11, <2>1, <2>2, <2>3, <2>4, <2>5 DEF WaitPanics, Gone, Fresh
<1>12. ASSUME NEW t \in Tasks, CreateTask(t) PROVE TypeOK'
  BY <1>12 DEF CreateTask
<1>13. ASSUME NEW t \in Tasks, ExecBegin(t) PROVE TypeOK'
  BY <1>13 DEF ExecBegin
<1>14. ASSUME NEW t \in Tasks, ExecRequest(t) PROVE TypeOK'
  BY <1>14 DEF ExecRequest
<1>15. ASSUME NEW t \in Tasks, ExecAnswer(t) PROVE TypeOK'
  BY <1>15 DEF ExecAnswer
<1>16. ASSUME NEW t \in Tasks, ExecRecord(t) PROVE TypeOK'
  BY <1>16 DEF ExecRecord
<1>17. ASSUME NEW t \in Tasks, TakeDown(t) PROVE TypeOK'
  BY <1>17 DEF TakeDown
<1>18. ASSUME NEW t \in Tasks, HealthFails(t) PROVE TypeOK'
  BY <1>18 DEF HealthFails
<1>19. ASSUME NEW t \in Tasks, ContainerExits(t) PROVE TypeOK'
  BY <1>19 DEF ContainerExits
<1>20. CASE UNCHANGED vars
  BY <1>20 DEF vars
<1> QED
  BY <1>1, <1>2, <1>3, <1>4, <1>5, <1>6, <1>7, <1>8, <1>9, <1>10, <1>11, <1>12, <1>13,
     <1>14, <1>15, <1>16, <1>17, <1>18, <1>19, <1>20
     DEF Next, Executor

LEMMA CallsStep == TypeOK /\ CallsInOrder /\ [Next]_vars => CallsInOrder'
<1> SUFFICES ASSUME TypeOK, CallsInOrder, [Next]_vars PROVE CallsInOrder'
  OBVIOUS
<1> USE StartsAssumption, ContextsAreNumbers
        DEF TypeOK, CallsInOrder, controlVars, loopVars, taskVars, processVars
<1>1. CASE Start
  BY <1>1 DEF Start, MayStart
<1>2. CASE InitDone
  BY <1>2 DEF InitDone
<1>3. CASE Stop
  BY <1>3 DEF Stop
<1>4. CASE StopReturns
  BY <1>4 DEF StopReturns, Done
<1>5. CASE StopTimesOut
  BY <1>5 DEF StopTimesOut, Done
<1>6. CASE Exit
  BY <1>6 DEF Exit, Gone, Fresh
<1>7. ASSUME NEW l \in Loops, PassBegins(l) PROVE CallsInOrder'
  BY <1>7 DEF PassBegins
<1>8. ASSUME NEW l \in Loops, PassEnds(l) PROVE CallsInOrder'
  BY <1>8 DEF PassEnds
<1>9. ASSUME NEW l \in Loops, LoopEnds(l) PROVE CallsInOrder'
  BY <1>9 DEF LoopEnds
<1>10. ASSUME NEW c \in Contexts, WaitReturns(c) PROVE CallsInOrder'
  BY <1>10 DEF WaitReturns
<1>11. ASSUME NEW c \in Contexts, WaitPanics(c) PROVE CallsInOrder'
  BY <1>11 DEF WaitPanics, Gone, Fresh
<1>12. ASSUME NEW t \in Tasks, CreateTask(t) PROVE CallsInOrder'
  BY <1>12 DEF CreateTask
<1>13. ASSUME NEW t \in Tasks, ExecBegin(t) PROVE CallsInOrder'
  BY <1>13 DEF ExecBegin
<1>14. ASSUME NEW t \in Tasks, ExecRequest(t) PROVE CallsInOrder'
  BY <1>14 DEF ExecRequest
<1>15. ASSUME NEW t \in Tasks, ExecAnswer(t) PROVE CallsInOrder'
  BY <1>15 DEF ExecAnswer
<1>16. ASSUME NEW t \in Tasks, ExecRecord(t) PROVE CallsInOrder'
  BY <1>16 DEF ExecRecord
<1>17. ASSUME NEW t \in Tasks, TakeDown(t) PROVE CallsInOrder'
  BY <1>17 DEF TakeDown
<1>18. ASSUME NEW t \in Tasks, HealthFails(t) PROVE CallsInOrder'
  BY <1>18 DEF HealthFails
<1>19. ASSUME NEW t \in Tasks, ContainerExits(t) PROVE CallsInOrder'
  BY <1>19 DEF ContainerExits
<1>20. CASE UNCHANGED vars
  BY <1>20 DEF vars
<1> QED
  BY <1>1, <1>2, <1>3, <1>4, <1>5, <1>6, <1>7, <1>8, <1>9, <1>10, <1>11, <1>12, <1>13,
     <1>14, <1>15, <1>16, <1>17, <1>18, <1>19, <1>20
     DEF Next, Executor

LEMMA AheadStep == TypeOK /\ NothingAhead /\ [Next]_vars => NothingAhead'
<1> SUFFICES ASSUME TypeOK, NothingAhead, [Next]_vars PROVE NothingAhead'
  OBVIOUS
<1> USE StartsAssumption, LoopsAreFinite, ContextsAreNumbers
        DEF TypeOK, NothingAhead, controlVars, loopVars, taskVars, processVars
<1>1. CASE Start
  BY <1>1 DEF Start, MayStart
<1>2. CASE InitDone
  BY <1>2 DEF InitDone
<1>3. CASE Stop
  BY <1>3 DEF Stop
<1>4. CASE StopReturns
  BY <1>4 DEF StopReturns, Done
<1>5. CASE StopTimesOut
  BY <1>5 DEF StopTimesOut, Done
<1>6. CASE Exit
  BY <1>6 DEF Exit, Gone, Fresh
<1>7. ASSUME NEW l \in Loops, PassBegins(l) PROVE NothingAhead'
  BY <1>7 DEF PassBegins
<1>8. ASSUME NEW l \in Loops, PassEnds(l) PROVE NothingAhead'
  BY <1>8 DEF PassEnds
<1>9. ASSUME NEW l \in Loops, LoopEnds(l) PROVE NothingAhead'
  BY <1>9 DEF LoopEnds
<1>10. ASSUME NEW c \in Contexts, WaitReturns(c) PROVE NothingAhead'
  BY <1>10 DEF WaitReturns
<1>11. ASSUME NEW c \in Contexts, WaitPanics(c) PROVE NothingAhead'
  BY <1>11 DEF WaitPanics, Gone, Fresh
<1>12. ASSUME NEW t \in Tasks, CreateTask(t) PROVE NothingAhead'
  BY <1>12 DEF CreateTask
<1>13. ASSUME NEW t \in Tasks, ExecBegin(t) PROVE NothingAhead'
  BY <1>13 DEF ExecBegin
<1>14. ASSUME NEW t \in Tasks, ExecRequest(t) PROVE NothingAhead'
  BY <1>14 DEF ExecRequest
<1>15. ASSUME NEW t \in Tasks, ExecAnswer(t) PROVE NothingAhead'
  BY <1>15 DEF ExecAnswer
<1>16. ASSUME NEW t \in Tasks, ExecRecord(t) PROVE NothingAhead'
  BY <1>16 DEF ExecRecord
<1>17. ASSUME NEW t \in Tasks, TakeDown(t) PROVE NothingAhead'
  BY <1>17 DEF TakeDown
<1>18. ASSUME NEW t \in Tasks, HealthFails(t) PROVE NothingAhead'
  BY <1>18 DEF HealthFails
<1>19. ASSUME NEW t \in Tasks, ContainerExits(t) PROVE NothingAhead'
  BY <1>19 DEF ContainerExits
<1>20. CASE UNCHANGED vars
  BY <1>20 DEF vars
<1> QED
  BY <1>1, <1>2, <1>3, <1>4, <1>5, <1>6, <1>7, <1>8, <1>9, <1>10, <1>11, <1>12, <1>13,
     <1>14, <1>15, <1>16, <1>17, <1>18, <1>19, <1>20
     DEF Next, Executor

(* Only Start adds to the loops that o.wg counts: one of every kind. *)
AddedByStart ==
    \/ Counted' \subseteq Counted
    \/ starts' = starts + 1 /\ Counted' \subseteq Counted \cup (Kinds \X {starts + 1})

LEMMA CountedStep == TypeOK /\ [Next]_vars => AddedByStart
<1> SUFFICES ASSUME TypeOK, [Next]_vars PROVE AddedByStart
  OBVIOUS
<1> USE DEF TypeOK, AddedByStart, controlVars, loopVars, taskVars, processVars
<1>1. CASE Start
  <2>1. \A l \in Loops : l[2] # starts' => loop'[l] = loop[l]
    BY <1>1 DEF Start
  <2>2. \A l \in Loops : l[2] = starts' => l \in Kinds \X {starts + 1}
    BY <1>1, LoopsAreFinite DEF Start
  <2>3. Counted' \subseteq Counted \cup (Kinds \X {starts + 1})
    BY <2>1, <2>2 DEF Counted, Alive
  <2> QED
    BY <1>1, <2>3 DEF Start
<1>2. CASE InitDone
  BY <1>2 DEF InitDone, Counted, Alive
<1>3. CASE Stop
  BY <1>3 DEF Stop, Counted, Alive
<1>4. CASE StopReturns
  BY <1>4 DEF StopReturns, Counted, Alive
<1>5. CASE StopTimesOut
  BY <1>5 DEF StopTimesOut, Counted, Alive
<1>6. CASE Exit
  BY <1>6 DEF Exit, Gone, Fresh, Counted, Alive
<1>7. ASSUME NEW l \in Loops, PassBegins(l) PROVE AddedByStart
  BY <1>7 DEF PassBegins, Counted, Alive
<1>8. ASSUME NEW l \in Loops, PassEnds(l) PROVE AddedByStart
  BY <1>8 DEF PassEnds, Counted, Alive
<1>9. ASSUME NEW l \in Loops, LoopEnds(l) PROVE AddedByStart
  BY <1>9 DEF LoopEnds, Counted, Alive
<1>10. ASSUME NEW c \in Contexts, WaitReturns(c) PROVE AddedByStart
  BY <1>10 DEF WaitReturns, Counted, Alive
<1>11. ASSUME NEW c \in Contexts, WaitPanics(c) PROVE AddedByStart
  BY <1>11 DEF WaitPanics, Gone, Fresh, Counted, Alive
<1>12. ASSUME NEW t \in Tasks, CreateTask(t) PROVE AddedByStart
  BY <1>12 DEF CreateTask, Counted, Alive
<1>13. ASSUME NEW t \in Tasks, ExecBegin(t) PROVE AddedByStart
  BY <1>13 DEF ExecBegin, Counted, Alive
<1>14. ASSUME NEW t \in Tasks, ExecRequest(t) PROVE AddedByStart
  BY <1>14 DEF ExecRequest, Counted, Alive
<1>15. ASSUME NEW t \in Tasks, ExecAnswer(t) PROVE AddedByStart
  BY <1>15 DEF ExecAnswer, Counted, Alive
<1>16. ASSUME NEW t \in Tasks, ExecRecord(t) PROVE AddedByStart
  BY <1>16 DEF ExecRecord, Counted, Alive
<1>17. ASSUME NEW t \in Tasks, TakeDown(t) PROVE AddedByStart
  BY <1>17 DEF TakeDown, Counted, Alive
<1>18. ASSUME NEW t \in Tasks, HealthFails(t) PROVE AddedByStart
  BY <1>18 DEF HealthFails, Counted, Alive
<1>19. ASSUME NEW t \in Tasks, ContainerExits(t) PROVE AddedByStart
  BY <1>19 DEF ContainerExits, Counted, Alive
<1>20. CASE UNCHANGED vars
  BY <1>20 DEF vars, Counted, Alive
<1> QED
  BY <1>1, <1>2, <1>3, <1>4, <1>5, <1>6, <1>7, <1>8, <1>9, <1>10, <1>11,
     <1>12, <1>13, <1>14, <1>15, <1>16, <1>17, <1>18, <1>19, <1>20 DEF Next, Executor

(* Fewer loops in all are not more of a kind. *)
LEMMA FewerOfAKind ==
    Counted' \subseteq Counted =>
       \A kind \in Kinds : /\ Cardinality(OfKind(kind)) \in Nat
                           /\ Cardinality(OfKind(kind))' \in Nat
                           /\ Cardinality(OfKind(kind))' <= Cardinality(OfKind(kind))
<1> SUFFICES ASSUME Counted' \subseteq Counted, NEW kind \in Kinds
             PROVE  /\ Cardinality(OfKind(kind)) \in Nat
                    /\ Cardinality(OfKind(kind))' \in Nat
                    /\ Cardinality(OfKind(kind))' <= Cardinality(OfKind(kind))
  OBVIOUS
<1>1. OfKind(kind) \subseteq Loops /\ OfKind(kind)' \subseteq OfKind(kind)
  BY DEF OfKind, Counted
<1> QED
  BY <1>1, FewerLoops

LEMMA DoneStep == TypeOK /\ NothingAhead /\ DoneMeansEnded /\ [Next]_vars => DoneMeansEnded'
<1> SUFFICES ASSUME TypeOK, NothingAhead, DoneMeansEnded, [Next]_vars PROVE DoneMeansEnded'
  OBVIOUS
<1>0. starts' = starts + 1 \/ Counted' \subseteq Counted
  BY CountedStep DEF AddedByStart
<1> USE <1>0, ContextsAreNumbers
        DEF TypeOK, NothingAhead, DoneMeansEnded, controlVars, loopVars, taskVars,
            processVars
<1>1. CASE Start
  BY <1>1 DEF Start
<1>2. CASE InitDone
  BY <1>2 DEF InitDone
<1>3. CASE Stop
  BY <1>3 DEF Stop
<1>4. CASE StopReturns
  BY <1>4 DEF StopReturns
<1>5. CASE StopTimesOut
  BY <1>5 DEF StopTimesOut
<1>6. CASE Exit
  BY <1>6 DEF Exit, Gone, Fresh
<1>7. ASSUME NEW l \in Loops, PassBegins(l) PROVE DoneMeansEnded'
  BY <1>7 DEF PassBegins
<1>8. ASSUME NEW l \in Loops, PassEnds(l) PROVE DoneMeansEnded'
  BY <1>8 DEF PassEnds
<1>9. ASSUME NEW l \in Loops, LoopEnds(l) PROVE DoneMeansEnded'
  BY <1>9 DEF LoopEnds
<1>10. ASSUME NEW c \in Contexts, WaitReturns(c) PROVE DoneMeansEnded'
  <2>1. Counted = {}
    BY <1>10 DEF WaitReturns
  <2> QED
    BY <1>10, <2>1 DEF WaitReturns
<1>11. ASSUME NEW c \in Contexts, WaitPanics(c) PROVE DoneMeansEnded'
  BY <1>11 DEF WaitPanics, Gone, Fresh
<1>12. ASSUME NEW t \in Tasks, CreateTask(t) PROVE DoneMeansEnded'
  BY <1>12 DEF CreateTask
<1>13. ASSUME NEW t \in Tasks, ExecBegin(t) PROVE DoneMeansEnded'
  BY <1>13 DEF ExecBegin
<1>14. ASSUME NEW t \in Tasks, ExecRequest(t) PROVE DoneMeansEnded'
  BY <1>14 DEF ExecRequest
<1>15. ASSUME NEW t \in Tasks, ExecAnswer(t) PROVE DoneMeansEnded'
  BY <1>15 DEF ExecAnswer
<1>16. ASSUME NEW t \in Tasks, ExecRecord(t) PROVE DoneMeansEnded'
  BY <1>16 DEF ExecRecord
<1>17. ASSUME NEW t \in Tasks, TakeDown(t) PROVE DoneMeansEnded'
  BY <1>17 DEF TakeDown
<1>18. ASSUME NEW t \in Tasks, HealthFails(t) PROVE DoneMeansEnded'
  BY <1>18 DEF HealthFails
<1>19. ASSUME NEW t \in Tasks, ContainerExits(t) PROVE DoneMeansEnded'
  BY <1>19 DEF ContainerExits
<1>20. CASE UNCHANGED vars
  BY <1>20 DEF vars
<1> QED
  BY <1>1, <1>2, <1>3, <1>4, <1>5, <1>6, <1>7, <1>8, <1>9, <1>10, <1>11,
     <1>12, <1>13, <1>14, <1>15, <1>16, <1>17, <1>18, <1>19, <1>20 DEF Next, Executor

LEMMA LoopsStep ==
    TypeOK /\ CallsInOrder /\ NothingAhead /\ DoneMeansEnded /\ LoopsOfRuns /\
      [Next]_vars => LoopsOfRuns'
<1> SUFFICES ASSUME TypeOK, CallsInOrder, NothingAhead, DoneMeansEnded, LoopsOfRuns,
                    [Next]_vars
             PROVE  LoopsOfRuns'
  OBVIOUS
<1>0. Counted' \subseteq Counted \cup (Kinds \X {starts + 1})
  BY CountedStep DEF AddedByStart
<1>1. CASE Start
  <2> SUFFICES ASSUME NEW kind \in Kinds PROVE Cardinality(OfKind(kind))' <= 1 + timeouts
    BY <1>1 DEF Start, LoopsOfRuns
  <2> DEFINE more == OfKind(kind) \cup {<<kind, starts + 1>>}
  <2>1. Counted' \subseteq Counted \cup (Kinds \X {starts + 1})
    BY <1>0
  <2>2. OfKind(kind)' \subseteq more
    BY <2>1 DEF OfKind
  <2>3. OfKind(kind) \subseteq Loops
    BY DEF OfKind, Counted
  <2>4. IsFiniteSet(OfKind(kind))
    BY <2>3, LoopsAreFinite, FS_Subset
  <2>9. /\ IsFiniteSet(more)
        /\ \/ Cardinality(more) = Cardinality(OfKind(kind)) + 1
           \/ Cardinality(more) = Cardinality(OfKind(kind))
    BY <2>4, FS_AddElement
  <2>5. IsFiniteSet(more) /\ Cardinality(more) <= Cardinality(OfKind(kind)) + 1
    BY <2>4, <2>9, FS_CardinalityType
  <2>6. IsFiniteSet(OfKind(kind)') /\ Cardinality(OfKind(kind)') <= Cardinality(more)
    BY <2>2, <2>5, FS_Subset
  <2>7. Cardinality(OfKind(kind)) <= timeouts
    BY <1>1 DEF Start, MayStart, LoopsOfRuns
  <2>8. /\ Cardinality(OfKind(kind)) \in Nat /\ Cardinality(more) \in Nat
        /\ Cardinality(OfKind(kind)') \in Nat /\ timeouts \in Nat
    BY <2>4, <2>5, <2>6, FS_CardinalityType DEF TypeOK
  <2> HIDE DEF more
  <2> QED
    BY <2>5, <2>6, <2>7, <2>8
<1>2. CASE InitDone
  <2>1. (isRunning => isRunning') /\ timeouts' = timeouts
    BY <1>2 DEF InitDone, controlVars
  <2>2. (isRunning' => isRunning) /\ Counted' \subseteq Counted
    BY <1>2 DEF InitDone, controlVars, loopVars, Counted, Alive
  <2> QED
    BY <2>1, <2>2, FewerOfAKind DEF LoopsOfRuns, TypeOK
<1>3. CASE Stop
  <2>1. (isRunning => isRunning') /\ timeouts' = timeouts
    BY <1>3 DEF Stop, controlVars
  <2>2. (isRunning' => isRunning) /\ Counted' \subseteq Counted
    BY <1>3 DEF Stop, controlVars, loopVars, Counted, Alive
  <2> QED
    BY <2>1, <2>2, FewerOfAKind DEF LoopsOfRuns, TypeOK
<1>4. CASE StopReturns
  <2>1. Counted = {} /\ Counted' = {}
    BY <1>4, ContextsAreNumbers
       DEF StopReturns, Done, DoneMeansEnded, CallsInOrder, TypeOK, Counted, Alive,
           loopVars
  <2>2. \A kind \in Kinds : OfKind(kind)' = {}
    BY <2>1 DEF OfKind
  <2>3. ~isRunning' /\ timeouts' = timeouts /\ timeouts \in Nat
    BY <1>4 DEF StopReturns, TypeOK
  <2> QED
    BY <2>2, <2>3, FS_EmptySet DEF LoopsOfRuns
<1>5. CASE StopTimesOut
  <2>1. isRunning /\ ~isRunning' /\ timeouts' = timeouts + 1
    BY <1>5 DEF StopTimesOut, CallsInOrder
  <2>2. Counted' \subseteq Counted
    BY <1>5 DEF StopTimesOut, Counted, Alive, loopVars
  <2> QED
    BY <2>1, <2>2, FewerOfAKind DEF LoopsOfRuns, TypeOK
<1>6. CASE Exit
  <2>1. Counted' = {} /\ ~isRunning' /\ timeouts' = 0
    BY <1>6 DEF Exit, Gone, Fresh, Counted, Alive
  <2>2. \A kind \in Kinds : OfKind(kind)' = {}
    BY <2>1 DEF OfKind
  <2> QED
    BY <2>1, <2>2, FS_EmptySet DEF LoopsOfRuns
<1>7. ASSUME NEW l \in Loops, PassBegins(l) PROVE LoopsOfRuns'
  <2>1. (isRunning => isRunning') /\ timeouts' = timeouts
    BY <1>7 DEF PassBegins, controlVars
  <2>2. (isRunning' => isRunning) /\ Counted' \subseteq Counted
    BY <1>7 DEF PassBegins, controlVars, loopVars, Counted, Alive
  <2> QED
    BY <2>1, <2>2, FewerOfAKind DEF LoopsOfRuns, TypeOK
<1>8. ASSUME NEW l \in Loops, PassEnds(l) PROVE LoopsOfRuns'
  <2>1. (isRunning => isRunning') /\ timeouts' = timeouts
    BY <1>8 DEF PassEnds, controlVars
  <2>2. (isRunning' => isRunning) /\ Counted' \subseteq Counted
    BY <1>8 DEF PassEnds, controlVars, loopVars, Counted, Alive
  <2> QED
    BY <2>1, <2>2, FewerOfAKind DEF LoopsOfRuns, TypeOK
<1>9. ASSUME NEW l \in Loops, LoopEnds(l) PROVE LoopsOfRuns'
  <2>1. (isRunning => isRunning') /\ timeouts' = timeouts
    BY <1>9 DEF LoopEnds, controlVars
  <2>2. (isRunning' => isRunning) /\ Counted' \subseteq Counted
    BY <1>9 DEF LoopEnds, controlVars, loopVars, Counted, Alive
  <2> QED
    BY <2>1, <2>2, FewerOfAKind DEF LoopsOfRuns, TypeOK
<1>10. ASSUME NEW c \in Contexts, WaitReturns(c) PROVE LoopsOfRuns'
  <2>1. (isRunning => isRunning') /\ timeouts' = timeouts
    BY <1>10 DEF WaitReturns, controlVars
  <2>2. (isRunning' => isRunning) /\ Counted' \subseteq Counted
    BY <1>10 DEF WaitReturns, controlVars, loopVars, Counted, Alive
  <2> QED
    BY <2>1, <2>2, FewerOfAKind DEF LoopsOfRuns, TypeOK
<1>11. ASSUME NEW c \in Contexts, WaitPanics(c) PROVE LoopsOfRuns'
  <2>1. Counted' = {} /\ ~isRunning' /\ timeouts' = 0
    BY <1>11 DEF WaitPanics, Gone, Fresh, Counted, Alive
  <2>2. \A kind \in Kinds : OfKind(kind)' = {}
    BY <2>1 DEF OfKind
  <2> QED
    BY <2>1, <2>2, FS_EmptySet DEF LoopsOfRuns
<1>12. ASSUME NEW t \in Tasks, CreateTask(t) PROVE LoopsOfRuns'
  <2>1. (isRunning => isRunning') /\ timeouts' = timeouts
    BY <1>12 DEF CreateTask, controlVars
  <2>2. (isRunning' => isRunning) /\ Counted' \subseteq Counted
    BY <1>12 DEF CreateTask, controlVars, loopVars, Counted, Alive
  <2> QED
    BY <2>1, <2>2, FewerOfAKind DEF LoopsOfRuns, TypeOK
<1>13. ASSUME NEW t \in Tasks, ExecBegin(t) PROVE LoopsOfRuns'
  <2>1. (isRunning => isRunning') /\ timeouts' = timeouts
    BY <1>13 DEF ExecBegin, controlVars
  <2>2. (isRunning' => isRunning) /\ Counted' \subseteq Counted
    BY <1>13 DEF ExecBegin, controlVars, loopVars, Counted, Alive
  <2> QED
    BY <2>1, <2>2, FewerOfAKind DEF LoopsOfRuns, TypeOK
<1>14. ASSUME NEW t \in Tasks, ExecRequest(t) PROVE LoopsOfRuns'
  <2>1. (isRunning => isRunning') /\ timeouts' = timeouts
    BY <1>14 DEF ExecRequest, controlVars
  <2>2. (isRunning' => isRunning) /\ Counted' \subseteq Counted
    BY <1>14 DEF ExecRequest, controlVars, loopVars, Counted, Alive
  <2> QED
    BY <2>1, <2>2, FewerOfAKind DEF LoopsOfRuns, TypeOK
<1>15. ASSUME NEW t \in Tasks, ExecAnswer(t) PROVE LoopsOfRuns'
  <2>1. (isRunning => isRunning') /\ timeouts' = timeouts
    BY <1>15 DEF ExecAnswer, controlVars
  <2>2. (isRunning' => isRunning) /\ Counted' \subseteq Counted
    BY <1>15 DEF ExecAnswer, controlVars, loopVars, Counted, Alive
  <2> QED
    BY <2>1, <2>2, FewerOfAKind DEF LoopsOfRuns, TypeOK
<1>16. ASSUME NEW t \in Tasks, ExecRecord(t) PROVE LoopsOfRuns'
  <2>1. (isRunning => isRunning') /\ timeouts' = timeouts
    BY <1>16 DEF ExecRecord, controlVars
  <2>2. (isRunning' => isRunning) /\ Counted' \subseteq Counted
    BY <1>16 DEF ExecRecord, controlVars, loopVars, Counted, Alive
  <2> QED
    BY <2>1, <2>2, FewerOfAKind DEF LoopsOfRuns, TypeOK
<1>17. ASSUME NEW t \in Tasks, TakeDown(t) PROVE LoopsOfRuns'
  <2>1. (isRunning => isRunning') /\ timeouts' = timeouts
    BY <1>17 DEF TakeDown, controlVars
  <2>2. (isRunning' => isRunning) /\ Counted' \subseteq Counted
    BY <1>17 DEF TakeDown, controlVars, loopVars, Counted, Alive
  <2> QED
    BY <2>1, <2>2, FewerOfAKind DEF LoopsOfRuns, TypeOK
<1>18. ASSUME NEW t \in Tasks, HealthFails(t) PROVE LoopsOfRuns'
  <2>1. (isRunning => isRunning') /\ timeouts' = timeouts
    BY <1>18 DEF HealthFails, controlVars
  <2>2. (isRunning' => isRunning) /\ Counted' \subseteq Counted
    BY <1>18 DEF HealthFails, controlVars, loopVars, Counted, Alive
  <2> QED
    BY <2>1, <2>2, FewerOfAKind DEF LoopsOfRuns, TypeOK
<1>19. ASSUME NEW t \in Tasks, ContainerExits(t) PROVE LoopsOfRuns'
  <2>1. (isRunning => isRunning') /\ timeouts' = timeouts
    BY <1>19 DEF ContainerExits, controlVars
  <2>2. (isRunning' => isRunning) /\ Counted' \subseteq Counted
    BY <1>19 DEF ContainerExits, controlVars, loopVars, Counted, Alive
  <2> QED
    BY <2>1, <2>2, FewerOfAKind DEF LoopsOfRuns, TypeOK
<1>20. CASE UNCHANGED vars
  <2>1. (isRunning => isRunning') /\ timeouts' = timeouts
    BY <1>20 DEF vars, controlVars
  <2>2. (isRunning' => isRunning) /\ Counted' \subseteq Counted
    BY <1>20 DEF vars, controlVars, loopVars, Counted, Alive
  <2> QED
    BY <2>1, <2>2, FewerOfAKind DEF LoopsOfRuns, TypeOK
<1> QED
  BY <1>1, <1>2, <1>3, <1>4, <1>5, <1>6, <1>7, <1>8, <1>9, <1>10, <1>11,
     <1>12, <1>13, <1>14, <1>15, <1>16, <1>17, <1>18, <1>19, <1>20 DEF Next, Executor

LEMMA WaitersStep ==
    TypeOK /\ CallsInOrder /\ WaitersInOrder /\ [Next]_vars => WaitersInOrder'
<1> SUFFICES ASSUME TypeOK, CallsInOrder, WaitersInOrder, [Next]_vars PROVE WaitersInOrder'
  OBVIOUS
<1>0. starts' = starts + 1 \/ Counted' \subseteq Counted
  BY CountedStep DEF AddedByStart
<1> USE <1>0, ContextsAreNumbers
        DEF TypeOK, CallsInOrder, WaitersInOrder, controlVars, loopVars, taskVars,
            processVars
<1>1. CASE Start
  BY <1>1 DEF Start
<1>2. CASE InitDone
  BY <1>2 DEF InitDone
<1>3. CASE Stop
  BY <1>3 DEF Stop
<1>4. CASE StopReturns
  BY <1>4 DEF StopReturns, Done
<1>5. CASE StopTimesOut
  BY <1>5 DEF StopTimesOut, Done
<1>6. CASE Exit
  BY <1>6 DEF Exit, Gone, Fresh
<1>7. ASSUME NEW l \in Loops, PassBegins(l) PROVE WaitersInOrder'
  BY <1>7 DEF PassBegins
<1>8. ASSUME NEW l \in Loops, PassEnds(l) PROVE WaitersInOrder'
  BY <1>8 DEF PassEnds
<1>9. ASSUME NEW l \in Loops, LoopEnds(l) PROVE WaitersInOrder'
  <2>1. Counted' \subseteq Counted \ {l}
    BY <1>9 DEF LoopEnds, Counted, Alive
  <2>2. timeouts = 0 => \A c \in Contexts : waiter'[c] = "woken" => Counted' = {}
    BY <1>9, <2>1 DEF LoopEnds
  <2> QED
    BY <1>9, <2>2 DEF LoopEnds
<1>10. ASSUME NEW c \in Contexts, WaitReturns(c) PROVE WaitersInOrder'
  BY <1>10 DEF WaitReturns
<1>11. ASSUME NEW c \in Contexts, WaitPanics(c) PROVE WaitersInOrder'
  BY <1>11 DEF WaitPanics, Gone, Fresh
<1>12. ASSUME NEW t \in Tasks, CreateTask(t) PROVE WaitersInOrder'
  BY <1>12 DEF CreateTask
<1>13. ASSUME NEW t \in Tasks, ExecBegin(t) PROVE WaitersInOrder'
  BY <1>13 DEF ExecBegin
<1>14. ASSUME NEW t \in Tasks, ExecRequest(t) PROVE WaitersInOrder'
  BY <1>14 DEF ExecRequest
<1>15. ASSUME NEW t \in Tasks, ExecAnswer(t) PROVE WaitersInOrder'
  BY <1>15 DEF ExecAnswer
<1>16. ASSUME NEW t \in Tasks, ExecRecord(t) PROVE WaitersInOrder'
  BY <1>16 DEF ExecRecord
<1>17. ASSUME NEW t \in Tasks, TakeDown(t) PROVE WaitersInOrder'
  BY <1>17 DEF TakeDown
<1>18. ASSUME NEW t \in Tasks, HealthFails(t) PROVE WaitersInOrder'
  BY <1>18 DEF HealthFails
<1>19. ASSUME NEW t \in Tasks, ContainerExits(t) PROVE WaitersInOrder'
  BY <1>19 DEF ContainerExits
<1>20. CASE UNCHANGED vars
  BY <1>20 DEF vars
<1> QED
  BY <1>1, <1>2, <1>3, <1>4, <1>5, <1>6, <1>7, <1>8, <1>9, <1>10, <1>11,
     <1>12, <1>13, <1>14, <1>15, <1>16, <1>17, <1>18, <1>19, <1>20 DEF Next, Executor

LEMMA ExecutorsStep ==
    TypeOK /\ CallsInOrder /\ NothingAhead /\ ExecutorsInOrder /\ [Next]_vars =>
      ExecutorsInOrder'
<1> SUFFICES ASSUME TypeOK, CallsInOrder, NothingAhead, ExecutorsInOrder, [Next]_vars
             PROVE  ExecutorsInOrder'
  OBVIOUS
<1> USE ContextsAreNumbers, LoopsAreFinite
        DEF TypeOK, CallsInOrder, NothingAhead, ExecutorsInOrder, controlVars, loopVars,
            taskVars, processVars
<1>1. CASE Start
  BY <1>1 DEF Start, MayStart
<1>2. CASE InitDone
  BY <1>2 DEF InitDone
<1>3. CASE Stop
  BY <1>3 DEF Stop
<1>4. CASE StopReturns
  BY <1>4 DEF StopReturns, Done
<1>5. CASE StopTimesOut
  BY <1>5 DEF StopTimesOut, Done
<1>6. CASE Exit
  BY <1>6 DEF Exit, Gone, Fresh
<1>7. ASSUME NEW l \in Loops, PassBegins(l) PROVE ExecutorsInOrder'
  BY <1>7 DEF PassBegins
<1>8. ASSUME NEW l \in Loops, PassEnds(l) PROVE ExecutorsInOrder'
  BY <1>8 DEF PassEnds
<1>9. ASSUME NEW l \in Loops, LoopEnds(l) PROVE ExecutorsInOrder'
  BY <1>9 DEF LoopEnds
<1>10. ASSUME NEW c \in Contexts, WaitReturns(c) PROVE ExecutorsInOrder'
  BY <1>10 DEF WaitReturns
<1>11. ASSUME NEW c \in Contexts, WaitPanics(c) PROVE ExecutorsInOrder'
  BY <1>11 DEF WaitPanics, Gone, Fresh
<1>12. ASSUME NEW t \in Tasks, CreateTask(t) PROVE ExecutorsInOrder'
  <2>1. CASE caller = "init"
    BY <1>12, <2>1 DEF CreateTask
  <2>2. CASE \E k \in Contexts : loop[<<"reconcile", k>>] = "passing"
    <3>1. PICK k \in Contexts : loop[<<"reconcile", k>>] = "passing"
      BY <2>2
    <3>2. <<"reconcile", k>> \in Loops /\ <<"reconcile", k>>[2] = k
      BY KindsAssumption DEF Loops
    <3>3. starts >= 1
      BY <3>1, <3>2
    <3> QED
      BY <1>12, <3>3 DEF CreateTask
  <2> QED
    BY <1>12, <2>1, <2>2 DEF CreateTask, Passing
<1>13. ASSUME NEW t \in Tasks, ExecBegin(t) PROVE ExecutorsInOrder'
  BY <1>13 DEF ExecBegin
<1>14. ASSUME NEW t \in Tasks, ExecRequest(t) PROVE ExecutorsInOrder'
  BY <1>14 DEF ExecRequest
<1>15. ASSUME NEW t \in Tasks, ExecAnswer(t) PROVE ExecutorsInOrder'
  BY <1>15 DEF ExecAnswer
<1>16. ASSUME NEW t \in Tasks, ExecRecord(t) PROVE ExecutorsInOrder'
  BY <1>16 DEF ExecRecord
<1>17. ASSUME NEW t \in Tasks, TakeDown(t) PROVE ExecutorsInOrder'
  BY <1>17 DEF TakeDown
<1>18. ASSUME NEW t \in Tasks, HealthFails(t) PROVE ExecutorsInOrder'
  BY <1>18 DEF HealthFails
<1>19. ASSUME NEW t \in Tasks, ContainerExits(t) PROVE ExecutorsInOrder'
  BY <1>19 DEF ContainerExits
<1>20. CASE UNCHANGED vars
  BY <1>20 DEF vars
<1> QED
  BY <1>1, <1>2, <1>3, <1>4, <1>5, <1>6, <1>7, <1>8, <1>9, <1>10, <1>11,
     <1>12, <1>13, <1>14, <1>15, <1>16, <1>17, <1>18, <1>19, <1>20 DEF Next, Executor

LEMMA ContainersStep ==
    TypeOK /\ ExecutorsInOrder /\ ContainersAccounted /\ [Next]_vars =>
      ContainersAccounted'
<1> SUFFICES ASSUME TypeOK, ExecutorsInOrder, ContainersAccounted, [Next]_vars
             PROVE  ContainersAccounted'
  OBVIOUS
<1> USE
        DEF TypeOK, ExecutorsInOrder, ContainersAccounted, controlVars, loopVars,
            taskVars, processVars
<1>1. CASE Start
  BY <1>1 DEF Start, MayStart
<1>2. CASE InitDone
  BY <1>2 DEF InitDone
<1>3. CASE Stop
  BY <1>3 DEF Stop
<1>4. CASE StopReturns
  BY <1>4 DEF StopReturns, Done
<1>5. CASE StopTimesOut
  BY <1>5 DEF StopTimesOut, Done
<1>6. CASE Exit
  BY <1>6 DEF Exit, Gone, Fresh
<1>7. ASSUME NEW l \in Loops, PassBegins(l) PROVE ContainersAccounted'
  BY <1>7 DEF PassBegins
<1>8. ASSUME NEW l \in Loops, PassEnds(l) PROVE ContainersAccounted'
  BY <1>8 DEF PassEnds
<1>9. ASSUME NEW l \in Loops, LoopEnds(l) PROVE ContainersAccounted'
  BY <1>9 DEF LoopEnds
<1>10. ASSUME NEW c \in Contexts, WaitReturns(c) PROVE ContainersAccounted'
  BY <1>10 DEF WaitReturns
<1>11. ASSUME NEW c \in Contexts, WaitPanics(c) PROVE ContainersAccounted'
  BY <1>11 DEF WaitPanics, Gone, Fresh
<1>12. ASSUME NEW t \in Tasks, CreateTask(t) PROVE ContainersAccounted'
  BY <1>12 DEF CreateTask
<1>13. ASSUME NEW t \in Tasks, ExecBegin(t) PROVE ContainersAccounted'
  BY <1>13 DEF ExecBegin
<1>14. ASSUME NEW t \in Tasks, ExecRequest(t) PROVE ContainersAccounted'
  BY <1>14 DEF ExecRequest
<1>15. ASSUME NEW t \in Tasks, ExecAnswer(t) PROVE ContainersAccounted'
  BY <1>15 DEF ExecAnswer
<1>16. ASSUME NEW t \in Tasks, ExecRecord(t) PROVE ContainersAccounted'
  BY <1>16 DEF ExecRecord
<1>17. ASSUME NEW t \in Tasks, TakeDown(t) PROVE ContainersAccounted'
  BY <1>17 DEF TakeDown
<1>18. ASSUME NEW t \in Tasks, HealthFails(t) PROVE ContainersAccounted'
  BY <1>18 DEF HealthFails
<1>19. ASSUME NEW t \in Tasks, ContainerExits(t) PROVE ContainersAccounted'
  BY <1>19 DEF ContainerExits
<1>20. CASE UNCHANGED vars
  BY <1>20 DEF vars
<1> QED
  BY <1>1, <1>2, <1>3, <1>4, <1>5, <1>6, <1>7, <1>8, <1>9, <1>10, <1>11,
     <1>12, <1>13, <1>14, <1>15, <1>16, <1>17, <1>18, <1>19, <1>20 DEF Next, Executor

LEMMA Inductive == Inv /\ [Next]_vars => Inv'
  BY TypeStep, CallsStep, AheadStep, DoneStep, LoopsStep, WaitersStep,
     ExecutorsStep, ContainersStep DEF Inv

LEMMA InvHolds == Spec => []Inv
  BY InitInv, Inductive, PTL DEF Spec

(* The variables keep their types. *)
THEOREM LifeCycleTypeCorrect == Spec => []TypeOK
  BY InvHolds, PTL DEF Inv

(* LoopsBounded: of every kind there is one loop, and one more for each    *)
(* Stop that gave up waiting.                                              *)
THEOREM LoopsStayBounded == Spec => []LoopsBounded
<1>1. Inv => LoopsBounded
  <2> SUFFICES ASSUME Inv, NEW kind \in Kinds
             PROVE  Cardinality(OfKind(kind)) <= 1 + timeouts
    BY DEF LoopsBounded
  <2>1. OfKind(kind) \subseteq Loops
    BY DEF OfKind, Counted
  <2>2. Cardinality(OfKind(kind)) \in Nat /\ timeouts \in Nat
    BY <2>1, FewerLoops DEF Inv, TypeOK
  <2> QED
    BY <2>2 DEF Inv, LoopsOfRuns
<1> QED
  BY <1>1, InvHolds, PTL

(* OnlyTimeoutsPanic: the WaitGroup is not reused too early as long as no  *)
(* Stop has given up.                                                      *)
THEOREM NoPanicWithoutTimeout == Spec => OnlyTimeoutsPanic
<1>1. Inv /\ [Next]_vars => [panics' # panics => timeouts > 0]_vars
  <2> SUFFICES ASSUME Inv, Next, panics' # panics PROVE timeouts > 0
    OBVIOUS
  <2>1. \E c \in Contexts : WaitPanics(c)
    BY
       DEF Next, Executor, Start, InitDone, Stop, StopReturns, StopTimesOut, Exit,
           PassBegins,
       PassEnds, LoopEnds, WaitReturns, CreateTask, ExecBegin, ExecRequest, ExecAnswer,
       ExecRecord, TakeDown, HealthFails, ContainerExits, processVars
  <2>2. timeouts # 0
    BY <2>1 DEF WaitPanics, Inv, WaitersInOrder
  <2> QED
    BY <2>2 DEF Inv, TypeOK
<1> QED
  BY <1>1, InvHolds, PTL DEF Spec, OnlyTimeoutsPanic

(* ContainersAccounted: no container is lost without a cancelled call or   *)
(* the end of a process.                                                   *)
THEOREM ContainersAreAccounted == Spec => []ContainersAccounted
  BY InvHolds, PTL DEF Inv

(* StoppedStartsNothing: while the orchestrator is stopped, a container    *)
(* comes up only for a request that Stop has cut off.                      *)
THEOREM NothingStartsWhenStopped == Spec => StoppedStartsNothing
<1> DEFINE Cut == \A t \in Tasks :
              (~isRunning /\ container[t] # "up" /\ container'[t] = "up") => t \in cutOff'
<1>1. Inv /\ [Next]_vars => [Cut]_vars
  <2> SUFFICES ASSUME Inv, Next, NEW t \in Tasks,
                      ~isRunning, container[t] # "up", container'[t] = "up"
               PROVE  t \in cutOff'
    OBVIOUS
  <2>1. ExecAnswer(t)
    BY DEF Next, Executor, Start, InitDone, Stop, StopReturns, StopTimesOut, Exit, Gone,
       PassBegins, PassEnds, LoopEnds, WaitReturns, WaitPanics, CreateTask, ExecBegin,
       ExecRequest, ExecAnswer, ExecRecord, TakeDown, HealthFails, ContainerExits, taskVars,
       Inv, TypeOK
  <2>2. execCtx[t] \in 1..starts
    BY <2>1 DEF ExecAnswer, Inv, ExecutorsInOrder
  <2>3. execCtx[t] \in cancelled
    BY <2>2 DEF Inv, CallsInOrder
  <2> QED
    BY <2>1, <2>3 DEF ExecAnswer, Live, Inv, TypeOK
<1> QED
  BY <1>1, InvHolds, PTL DEF Spec, StoppedStartsNothing
============================================================================
