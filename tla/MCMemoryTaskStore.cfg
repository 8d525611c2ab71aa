SPECIFICATION Spec
CONSTANTS
    t1 = t1
    t2 = t2
    c1 = c1
    c2 = c2
    TaskIDs = {t1, t2}
    ContainerIDs = {c1, c2}
    NodeIDs = {n1, n2}
    Services = {s1}
    Statuses = {pending, running}
    None = none
    ContainersOf <- MCContainersOf
    MaxRestarts = 1
INVARIANTS
    TypeOK
    IndicesAgree
PROPERTIES
    ReadersDoNotWrite
    ImplementsTaskStore
