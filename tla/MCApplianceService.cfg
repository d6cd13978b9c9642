CONSTANTS
    c1 = c1
    c2 = c2
    c3 = c3
    c4 = c4
    kA = kA
    kB = kB
    kC = kC
    p = p
    q = q
    NSlots = 2
    BasePos = 0
    Ctx = 4
    Prompts = {p, q}
    NoPrompt = NoPrompt
    PromptLen <- MCPromptLen
    Clients = {c1, c2, c3, c4}
    Sessions = {kA, kB, kC}
    NoSession = NoSession
    Shapes <- ServiceShapes
    BadPrompts = {}
    DecodeSteps = 1
    MaxRequests = 4
    FdLimit = 3
SPECIFICATION FairSpec
INVARIANTS
    ExitLeavesNobodyWaiting
PROPERTIES
    EveryRequestAnswered
CHECK_DEADLOCK FALSE
