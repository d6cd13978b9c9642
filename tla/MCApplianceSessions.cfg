CONSTANTS
    c1 = c1
    c2 = c2
    c3 = c3
    c4 = c4
    kA = kA
    kB = kB
    kC = kC
    p = p
    q = q
    NSlots = 2
    BasePos = 0
    Ctx = 2
    Prompts = {p, q}
    NoPrompt = NoPrompt
    PromptLen <- MCPromptLen
    Clients = {c1, c2, c3, c4}
    Sessions = {kA, kB, kC}
    NoSession = NoSession
    Shapes <- SessionShapes
    BadPrompts = {p}
    DecodeSteps = 1
    MaxRequests = 0
    FdLimit = 10
SYMMETRY MCSymmetry
SPECIFICATION Spec
INVARIANTS
    OneSlotPerSession
    BatchOwnsItsSlots
    NoBatchRefused
    CursorMatchesTimeline
    HeldOnce
    FreshPreviewHolds
CHECK_DEADLOCK FALSE
