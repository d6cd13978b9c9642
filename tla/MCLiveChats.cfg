SPECIFICATION Spec
CONSTANTS
    Clients = {"chat1", "tool1"}
    Profile <- ChatAndTool
    Msgs = {"x", "y"}
    System <- SharedSystem
    Ctx = 10
    MinTokens = 1
    ColdMax = 8
    Trim = 1
    Align = 2
    Interval = 3
    Chunk = 2
    ResumeMin = 2
    DiskSlots = 2
    ExactReplay = FALSE
    Speculative = TRUE
    MaxJobs = 3
    MaxFaults = 1
INVARIANTS
    AnswersOwnHistory
PROPERTIES
    SwitchKeepsWork
CHECK_DEADLOCK FALSE
