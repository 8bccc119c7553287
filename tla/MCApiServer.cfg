SPECIFICATION MCFairSpec
CONSTANTS
    Requests = {r1, r2}
    Free = Free
    MaxTokens = 2
    PipeCap = 1
    MaxRestarts = 1
INVARIANTS OneGeneratorHeld NormalEndIsComplete IdsRemoved ApiInv
PROPERTIES RequestsEnd
