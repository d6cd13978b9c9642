SPECIFICATION FairSpec
CONSTANTS
    None = None
    Cap = 2
    Shapes <- MixedShapes
    Options <- Both
    MaxRequests = 3
    MaxFaults = 1
INVARIANTS
    PendingOutlivesUse
    OnePassSuffices
    AnswersOwnPrompt
    OrderlyExit
PROPERTIES
    ServerEnds
