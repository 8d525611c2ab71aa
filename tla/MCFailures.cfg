SPECIFICATION Spec
CONSTANTS
    Nodes = {n1}
    Services = {web}
    Tasks = {t1, t2, t3}
    Strategy = "spread"
    None = None
    Failures = {"exit", "vanish", "sick", "create", "stop", "remove", "inspect"}
    MaxFaults = 2
    MaxDrains = 0
    HealthChecked = {web}
    Predictive = {}
    Replicas <- Zero
    MinReplicas <- OneEach
    MaxReplicas <- TwoEach
    ServiceType <- Stateful
    Capacity <- Room2
    Request <- OneEach
    NodeOrder <- ByName
    Zone <- OwnZone
    PreferredZones <- NoZones
SYMMETRY Symmetry
INVARIANTS
    TypeOK
    NothingLeaks
    ReservedAreWanted
    ExecutorOwnsRecord
    RunningNamesContainer
    ContainersTracked
