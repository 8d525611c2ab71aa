---------------------------- MODULE Configuration ----------------------------
(***************************************************************************)
(* The scale policy of a service from the file to the program              *)
(* (config/config.go): defaults for what is zero, which is also what is    *)
(* absent, and then the validation.  A policy here is a record of the      *)
(* numbers that scaling works with; percentages are integers.              *)
(***************************************************************************)
EXTENDS Integers

applyScalePolicyDefaults(p) ==
    LET min == IF p.min < 0 THEN 1 ELSE p.min
    IN  [p EXCEPT !.min = min, !.max = IF @ = 0 THEN min ELSE @]

applyPredictiveScalingDefaults(p) ==
    [p EXCEPT !.window = IF @ = 0 THEN 60 ELSE @,
              !.cpu = IF @ = 0 THEN 70 ELSE @,
              !.mem = IF @ = 0 THEN 80 ELSE @]

(* Mutant: the maximum is not compared with the minimum. *)
UncheckedMaximum(p) ==
    /\ p.replicas >= 0 /\ p.min >= 0
    /\ p.cpu \in 1..100 /\ p.mem \in 1..100 /\ p.window >= 10

(* validateConfig, of a policy that enables predictive scaling. *)
validateConfig(p) ==
    /\ p.replicas >= 0 /\ p.min >= 0
    /\ ~(p.max > 0 /\ p.max < p.min)
    /\ p.cpu \in 1..100 /\ p.mem \in 1..100 /\ p.window >= 10

(* LoadConfig: the policies that come out of those in the files. *)
Loaded(files) ==
    LET filled == {applyPredictiveScalingDefaults(applyScalePolicyDefaults(p)) : p \in files}
    IN  {p \in filled : validateConfig(p)}
==============================================================================
