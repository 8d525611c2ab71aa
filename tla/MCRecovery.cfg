SPECIFICATION FairSpec
CONSTANTS
    Nodes = {n1}
    Services = {web}
    Tasks = {t1, t2, t3}
    Strategy = "round_robin"
    None = None
    Failures = {"exit"}
    MaxFaults = 1
    MaxDrains = 0
    HealthChecked = {web}
    Predictive = {}
    Replicas <- Zero
    MinReplicas <- OneEach
    MaxReplicas <- OneEach
    ServiceType <- Stateless
    Capacity <- Room1
    Request <- OneEach
    NodeOrder <- ByName
    Zone <- OwnZone
    PreferredZones <- NoZones
PROPERTIES
    PassesEnd
    FailedAreRestarted
    ExitsAreNoticed
    Recovers
