SPECIFICATION Spec
CONSTANTS
    Vocab = {"a", "b", "eos"}
    Eos = "eos"
    Ctx = 7
    Window = 5
    AcceptedCap = 4
    MaxTokens = 5
    Targets <- SmallTargets
    Ties = {3}
    Options <- SmallOptions
    MaxFaults = 2
INVARIANTS
    SessionAgrees
    TargetDefinesStream
CHECK_DEADLOCK FALSE
