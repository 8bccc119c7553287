SPECIFICATION PackFairSpec
CONSTANTS
    NShards = 3
    LastLayer = 2
    FirstDense = 1
    NExperts = 1
    Source <- MCSource
    Formats = {"q8", "q5", "none"}
    Revisions = {"main"}
    MaxRuns = 2
PROPERTIES TwoShards ReadyIsComplete ResumeKeeps FailsOnlyOnIndex ShardsConsumed ProgramEnds
CHECK_DEADLOCK FALSE
