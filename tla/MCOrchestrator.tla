--------------------------- MODULE MCOrchestrator ---------------------------
(* Small instances of the orchestrator: every function of a node or of a   *)
(* service is the same for all of them, and a cfg picks one of these.      *)
EXTENDS OrchestratorProperties, TLC

PerService(n) == [s \in Services |-> n]
PerNode(n) == [s \in Nodes |-> n]
Zero == PerService(0)
OneEach == PerService(1)
TwoEach == PerService(2)
Room1 == PerNode(1)
Room2 == PerNode(2)
Room3 == PerNode(3)
ByName == CHOOSE order \in [Nodes -> 1..Cardinality(Nodes)] :
             \A m, n \in Nodes : m # n => order[m] # order[n]
Stateless == PerService("stateless")
Stateful == PerService("stateful")
Daemon == PerService("daemon")
OwnZone == [n \in Nodes |-> n]
NoZones == PerService({})
Symmetry == Permutations(Tasks)
==============================================================================
