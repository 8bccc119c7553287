SPECIFICATION Spec
CONSTANTS
    Requests = {r1, r2}
    Free = Free
    MaxTokens = 1
    PipeCap = 1
    MaxRestarts = 0
SYMMETRY MCSymmetry
INVARIANTS OneGenerator
