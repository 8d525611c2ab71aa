--------------------------- MODULE ReplicaScaling ---------------------------
(***************************************************************************)
(* What predictive scaling may do to the replica count of a service,       *)
(* whatever the load is and is forecast to be: a few replicas more, not    *)
(* past the maximum, or one less, not below the minimum, and a cooldown    *)
(* between two changes.  Orchestrator, which does not look at the load,    *)
(* scales like this; Autoscaling, which does, is shown to implement it.    *)
(***************************************************************************)
EXTENDS Integers

VARIABLES min, max,     \* scale_policy.min_replicas and max_replicas
          replicas,     \* service.Replicas
          cooling       \* the cooldown of the last scaling is not over

vars == <<min, max, replicas, cooling>>

AtMost(a, b) == IF a < b THEN a ELSE b

Init == min \in Int /\ max \in Int /\ replicas \in Nat /\ cooling = FALSE

ScaleUp(factor) ==
    /\ ~cooling /\ cooling' = TRUE
    /\ replicas < max /\ replicas' = AtMost(replicas + factor, max)
    /\ UNCHANGED <<min, max>>

ScaleDown ==
    /\ ~cooling /\ cooling' = TRUE
    /\ replicas > min /\ replicas' = replicas - 1
    /\ UNCHANGED <<min, max>>

CooldownEnds == cooling' = FALSE /\ UNCHANGED <<min, max, replicas>>

Next == ScaleDown \/ CooldownEnds \/ \E factor \in 1..3 : ScaleUp(factor)

Spec == Init /\ [][Next]_vars
=============================================================================
