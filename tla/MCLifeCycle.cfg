SPECIFICATION FairSpec
CONSTANTS
    Kinds = {"reconcile", "health"}
    Tasks = {t1}
    MaxStarts = 2
    MaxExits = 1
CHECK_DEADLOCK FALSE
INVARIANTS
    LoopsBounded
    ContainersAccounted
PROPERTIES
    OnlyTimeoutsPanic
    StoppedStartsNothing
    StoppedLoopsEnd
    StartingEnds
