SPECIFICATION FairSpec
CONSTANTS
    NStages = 3
    LayersPerStage = 2
    MaxSlots = 3
    MaxFaults = 1
    Modes = {"fixed", "ready", "wavefront"}
    SlotChunk = 2
    ReadyChunk = 3
    Stage0Chunk = 2
    WaveChunk = 2
INVARIANTS
    WavefrontMakesProgress
PROPERTIES
    FeedKeepsPromise
    EveryFeedReturns
