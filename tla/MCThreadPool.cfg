SPECIFICATION FairSpec
CONSTANTS
    NThreads = 4
    MaxCalls = 2
    MaxRows = 5
    MinRows <- MCMinRows
    Generations = 2
INVARIANTS
    KernelsOutliveNoCall
PROPERTIES
    ImplementsParallelFor
    EveryCallReturns
    ShutdownEnds

