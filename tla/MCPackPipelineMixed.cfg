SPECIFICATION PackSpec
CONSTANTS
    NShards = 3
    LastLayer = 1
    FirstDense = 1
    NExperts = 1
    Source <- MCSource
    Formats = {"q8"}
    Revisions = {"main"}
    MaxRuns = 3
PROPERTIES PassIsSound
CHECK_DEADLOCK FALSE
