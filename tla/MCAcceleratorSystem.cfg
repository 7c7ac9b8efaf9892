SPECIFICATION SystemSpec
CONSTANTS
  RamWords = 72
  InputSize = 3
  HiddenSize = 5
  OutputSize = 2
  MulLatency = 5
  AddLatency = 7
  SigLatency = 30
  NumTests = 2
  MaxResets = 1
  Zero <- MCZero
  Unwritten <- MCUnwritten
  Weight <- MCWeight
  Bias <- MCBias
  Input <- MCInput
  Mul <- MCMul
  Add <- MCAdd
  Sigmoid <- MCSigmoid
INVARIANTS
  SystemTypeOK
  OutputCorrect
  NetworkStaysProgrammed
  WeightsFetched
  NoOperationLost
  OperandsCurrent
  SlaveIsHeard
PROPERTIES
  ControllerAssumptions
  InputAreaStays
  PollEnds
