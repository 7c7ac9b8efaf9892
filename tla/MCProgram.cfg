SPECIFICATION Spec
CONSTANTS
  InputSize = 1
  HiddenSize = 2
  OutputSize = 3
  Outputs = {0, 1, 2}
  labels <- MClabels
  InitialFiles <- MCInitialFiles
  MaxRuns = 2
INVARIANTS NetworkIsWired NetworkSurvives CountIsAccuracy
CHECK_DEADLOCK FALSE
