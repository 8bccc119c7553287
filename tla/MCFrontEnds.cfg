SPECIFICATION Spec
CHECK_DEADLOCK FALSE
CONSTANTS
  Fixed = 5
  PerPosition = 1
  PerPrompt = 1
  ChatFixed = 4
  ChatPerPrompt = 2
  Mib = 4
  FullTrunk = 2
  Jobs <- MCJobs
  Settings <- MCSettings
  Dirs <- MCDirs
  MaxRequests = 2
  Patch = 2
  TokenLimit = 8
  PosLimit = 6
INVARIANTS StartsWithinPlan AutoGivesBack PromptsAreDialogues NoRefusalInStream
