CONSTANTS
    c1 = c1
    c2 = c2
    c3 = c3
    Connections = {c1, c2, c3}
SPECIFICATION FairSpec
INVARIANTS
    JobsOutliveTheirUse
    ResourcesOutliveThreads
PROPERTIES
    EveryClientLeaves
    StopEndsTheServer
CHECK_DEADLOCK FALSE
