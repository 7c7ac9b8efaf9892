SPECIFICATION SystemSpec
CONSTANTS
  RamWords = 72
  InputSize = 3
  HiddenSize = 4
  OutputSize = 2
  MulLatency = 5
  AddLatency = 7
  SigLatency = 30
  NumTests = 2
  MaxResets = 0
  Zero <- MCZero
  Unwritten <- MCUnwritten
  Weight <- MCWeight
  Bias <- MCBias
  Input <- MCInput
  Mul <- MCMul
  Add <- MCAdd
  Sigmoid <- MCSigmoid
INVARIANT
  WeightsFetched
