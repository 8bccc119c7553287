SPECIFICATION EitherSpec
CONSTANTS
    Tokens = {1, 2}
    Stops = {2}
    None = None
    Prompt <- MCPrompt
    K = 3
    NMasks = 2
    Models <- MCModels
    Best <- MCBest
    Layers = 2
    Answer = 1
    TopK = 3
    Weights <- MCWeights
    Unit = 4
    Dialogues <- MCDialogues
    PolicyFiles <- MCPolicyFiles
INVARIANTS FailsOnlyByRead SkipsAsIntended
PROPERTIES ImplementsGreedy
CHECK_DEADLOCK FALSE
