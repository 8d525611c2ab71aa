---------------------------- MODULE MCAutoscaling ----------------------------
(***************************************************************************)
(* An instance of Autoscaling for TLC.                                     *)
(***************************************************************************)
EXTENDS Autoscaling

(* The forecast lines have integer coefficients.  (TLC tabulates Lines to  *)
(* find this out, and looks them up in the table from then on.)            *)
ASSUME LinesAreIntegral ==
    Lines \in [DOMAIN Lines -> [Measures -> [{"a", "b", "d"} -> Int]]]

File(count, min, max, cpu) ==
    [replicas |-> count, min |-> min, max |-> max, window |-> 0, cpu |-> cpu, mem |-> 0]

(* A plain policy; one that is absent; two that the replicas are outside   *)
(* of; a maximum below zero; a maximum below the minimum.                  *)
ManyFiles == {File(1, 1, 3, 80), File(2, 0, 0, 0), File(3, 1, 2, 40), File(0, 1, 2, 30),
              File(2, 1, -1, 0), File(1, 2, 1, 0)}

(* What the containers share, and what each of them needs. *)
Shared(cpu, mem) ==
    [m \in Measures |-> [each |-> 0, shared |-> IF m = "cpu" THEN cpu ELSE mem]]
Each(cpu, mem) ==
    [m \in Measures |-> [each |-> IF m = "cpu" THEN cpu ELSE mem, shared |-> 0]]

(* A load that is near the thresholds of 80 for one container, below half  *)
(* of them for two, and a third for three; and one that is above 80, and   *)
(* far above 40 and 30, however many there are.                            *)
TwoLoads == {Shared(75, 76), Each(95, 20)}
==============================================================================
