SPECIFICATION Spec
CONSTANTS
    Clients = {"agent1", "agent2"}
    Profile <- Agents
    Msgs = {"x", "y"}
    System <- NoSystem
    Ctx = 40
    MinTokens = 2
    ColdMax = 6
    Trim = 1
    Align = 0
    Interval = 0
    Chunk = 20
    ResumeMin = 2
    DiskSlots = 1
    ExactReplay = TRUE
    Speculative = TRUE
    MaxJobs = 3
    MaxFaults = 1
INVARIANTS
    AnswersOwnHistory
    KeysDescribePayloads
    BindingsFollowTheSession
CHECK_DEADLOCK FALSE
