SPECIFICATION FairSpec
CONSTANTS
    Files <- ManyFiles
    Demands <- TwoLoads
    Room = 3
    MaxSize = 4
    MinHistory = 2
    Recent = 3
INVARIANTS
    ForecastIsLeastSquares
    DesiredIsInPolicy
PROPERTIES
    ScalingApproachesPolicy
    ImplementsReplicaScaling
    ScaleDownLeavesRoom
    OverloadIsAnswered
