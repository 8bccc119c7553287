CONSTANTS
  LastLayer <- MCLastLayer
  Experts <- MCExperts
  TopK <- MCTopK
  Calibration <- MCCalibration
  HeldOut <- MCHeldOut
  Cases <- MCCases
  Scores <- MCScores
  Weight <- MCWeight
  Keeps <- MCKeeps
  Cap <- MCCap
  Lists <- MCLists
  EnvMasks <- MCEnvMasks
  Tools <- MCTools
  MaxRuns <- MCMaxRuns
SPECIFICATION Spec
INVARIANTS MasksFollowCalibration EvidenceOfThisRun StrongestSelected HarmlessPasses
CHECK_DEADLOCK FALSE
