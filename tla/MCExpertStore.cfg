SPECIFICATION StoreSpec
CONSTANTS
    N = 3
    Sources <- MCSources
    Maps <- MCMaps
    MaxTools = 3
INVARIANTS ServesWhatWasWritten CompactionsOpen MaskIsAbsentExperts
CHECK_DEADLOCK FALSE
