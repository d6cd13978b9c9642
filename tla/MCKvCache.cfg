SPECIFICATION Spec
CONSTANTS
    i1 = i1
    i2 = i2
    i3 = i3
    d1 = d1
    d2 = d2
    Ids = {i1, i2, i3}
    Dsml = {d1, d2}
    MaxEntries = 2
    MaxBytes = 7
    EntryBytes = 1
    BlockBytes <- MCBlockBytes
    Texts <- MCTexts
    Prompts <- MCPrompts
    TokensOf <- MCTokens
    BodyBytes <- MCBody
    MapHeader = 1
    PairBytes = 2
    Budget = 64
    MinTokens = 1
    ColdMax = 3
    Servers <- MCServers
    RejectDifferentQuant = TRUE
    MaxHits = 1
    MaxCrashes = 1
    MaxFaults = 1
SYMMETRY MCSymmetry
INVARIANTS
    MemoryConsistent
    ReplaysWhatWasSampled
    CheckpointsAreComplete
PROPERTIES
    EvictionReachesBudget
    StoreKeepsItsCheckpoint
    UsableCheckpointsStay
CHECK_DEADLOCK FALSE
