SPECIFICATION MoeFairSpec
CONSTANTS
    Layers <- MCLayers
    Experts <- MCExperts
    Records <- MCSparse
    Offset <- MCSparseOffset
    Routes <- MCRoutes
    BadExpert = bad
    NSlots = 2
    EMPTY = EMPTY
    INFLIGHT = INFLIGHT
    NoRecord = NoRecord
    Torn = Torn
    NoOut = NoOut
    MaxBatch = 3
    MaxClock = 100
    LastLayer = 2
    TopK = 3
    PinCount = 1
    PromptLen = 2
    MaxNew = 2
INVARIANTS GetServed
PROPERTIES GenerationEnds
