SPECIFICATION FairSpec
CONSTANTS
    Nodes = {n1, n2}
    Services = {web}
    Tasks = {t1, t2, t3}
    Strategy = "binpack"
    None = None
    Failures = {}
    MaxFaults = 0
    MaxDrains = 2
    HealthChecked = {}
    Predictive = {}
    Replicas <- Zero
    MinReplicas <- OneEach
    MaxReplicas <- OneEach
    ServiceType <- Stateless
    Capacity <- Room1
    Request <- OneEach
    NodeOrder <- ByName
    Zone <- OwnZone
    PreferredZones <- NoZones
PROPERTIES
    DrainedNodesEmpty
    MinReplicasButForOutdated
