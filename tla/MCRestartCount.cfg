SPECIFICATION Spec
CONSTANTS
    Nodes = {n1}
    Services = {web}
    Tasks = {t1, t2, t3}
    Strategy = "spread"
    None = None
    Failures = {"create"}
    MaxFaults = 1
    MaxDrains = 0
    HealthChecked = {}
    Predictive = {}
    Replicas <- Zero
    MinReplicas <- OneEach
    MaxReplicas <- TwoEach
    ServiceType <- Stateless
    Capacity <- Room2
    Request <- OneEach
    NodeOrder <- ByName
    Zone <- OwnZone
    PreferredZones <- NoZones
SYMMETRY Symmetry
PROPERTY RestartsCounted
