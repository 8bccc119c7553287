SPECIFICATION Spec
CONSTANTS
    NumCases = 2
    Gates <- MCGates
    Texts <- MCTexts
    Worlds <- MCWorlds
    MaxReruns = 1
INVARIANTS PassKeepsTokens  RegressionNeverPasses
CHECK_DEADLOCK FALSE
