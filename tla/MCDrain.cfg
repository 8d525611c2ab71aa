SPECIFICATION Spec
CONSTANTS
    Nodes = {n1, n2}
    Services = {web}
    Tasks = {t1, t2, t3}
    Strategy = "spread"
    None = None
    Failures = {}
    MaxFaults = 0
    MaxDrains = 1
    HealthChecked = {}
    Predictive = {web}
    Replicas <- OneEach
    MinReplicas <- OneEach
    MaxReplicas <- TwoEach
    ServiceType <- Daemon
    Capacity <- Room2
    Request <- OneEach
    NodeOrder <- ByName
    Zone <- OwnZone
    PreferredZones <- NoZones
SYMMETRY Symmetry
INVARIANTS
    ReservedAreWanted
    ContainersTracked
    OvercommitBounded
PROPERTIES
    LastOnesKept
    EachScalesAsAllowed
    PassesShrink
