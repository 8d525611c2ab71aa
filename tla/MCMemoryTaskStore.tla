-------------------------- MODULE MCMemoryTaskStore --------------------------
(* A store of two tasks, each with a container of its own. *)
EXTENDS MemoryTaskStore

CONSTANTS t1, t2, c1, c2

MCContainersOf == [t \in {t1, t2} |-> IF t = t1 THEN {c1} ELSE {c2}]
==============================================================================
