SPECIFICATION MoeSpec
CONSTANTS
    Layers <- MCLayers
    Experts <- MCExperts
    Records <- MCRecords
    Offset <- MCOffset
    Routes <- MCRoutes
    BadExpert = bad
    NSlots = 7
    EMPTY = EMPTY
    INFLIGHT = INFLIGHT
    NoRecord = NoRecord
    Torn = Torn
    NoOut = NoOut
    MaxBatch = 3
    MaxClock = 100
    LastLayer = 2
    TopK = 3
    PinCount = 2
    PromptLen = 1
    MaxNew = 3
INVARIANTS MoeInv BatchHits PinsFollowPhase
PROPERTIES PinsReplaced
