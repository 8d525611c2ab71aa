SPECIFICATION Spec
CONSTANTS
    Nodes = {n1}
    Services = {web}
    Tasks = {t1, t2, t3, t4}
    Strategy = "spread"
    None = None
    Failures = {}
    MaxFaults = 0
    MaxDrains = 0
    HealthChecked = {}
    Predictive = {}
    Replicas <- Zero
    MinReplicas <- OneEach
    MaxReplicas <- TwoEach
    ServiceType <- Stateless
    Capacity <- Room3
    Request <- OneEach
    NodeOrder <- ByName
    Zone <- OwnZone
    PreferredZones <- NoZones
SYMMETRY Symmetry
INVARIANT AtMostMaxReplicas
