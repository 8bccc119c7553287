SPECIFICATION FairSpec
CONSTANTS
    Layers <- MCLayers
    Experts <- MCExperts
    Records <- MCRecords
    Offset <- MCOffset
    BadExpert = bad
    NSlots = 2
    EMPTY = EMPTY
    INFLIGHT = INFLIGHT
    NoRecord = NoRecord
    Torn = Torn
    NoOut = NoOut
    MaxBatch = 2
    MaxClock = 6
INVARIANTS CacheInv
PROPERTIES EvictsOldest ImplementsExact CallsReturn
