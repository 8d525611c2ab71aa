SPECIFICATION Spec
CONSTANTS
    Nodes = {n1}
    Services = {web}
    Tasks = {t1, t2, t3, t4}
    Strategy = "spread"
    None = None
    Failures = {"create"}
    MaxFaults = 1
    MaxDrains = 0
    HealthChecked = {}
    Predictive = {}
    Replicas <- Zero
    MinReplicas <- TwoEach
    MaxReplicas <- TwoEach
    ServiceType <- Stateless
    Capacity <- Room2
    Request <- OneEach
    NodeOrder <- ByName
    Zone <- OwnZone
    PreferredZones <- NoZones
SYMMETRY Symmetry
INVARIANT NoOvercommit
