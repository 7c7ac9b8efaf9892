SPECIFICATION SystemSpec
CONSTANTS
  RamWords = 640
  InputSize = 6
  HiddenSize = 30
  OutputSize = 10
  MulLatency = 5
  AddLatency = 7
  SigLatency = 30
  NumTests = 2
  MaxResets = 0
  Zero <- MCZero
  Unwritten <- MCUnwritten
  Weight <- MCWeight
  Bias <- MCBias
  Input <- MCInput
  Mul <- MCMul
  Add <- MCAdd
  Sigmoid <- MCSigmoid
INVARIANTS
  OutputCorrect
  SystemInv
