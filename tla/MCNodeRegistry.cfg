SPECIFICATION FairSpec
CONSTANTS
    Nodes = {n1}
    Tasks = {t1, t2}
    None = None
    HeartbeatTimeout = 3
    MaxSilence = 2
    MaxRegistrations = 2
    MaxPauses = 1
INVARIANTS
    CountsAreSafe
    NoWorkerIsForgotten
    OnlyHastyNodesLoseTheirWorker
PROPERTIES
    BeatingNodesStay
    SilentNodesGo
    StopEndsAll
