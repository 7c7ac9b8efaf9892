SPECIFICATION Spec
CONSTANTS
  P = 5
  squash <- MCsquash
  sizes <- MCsizes
  rate = 2
  samples <- MCsamples
  nets <- MCnets
  epochs = 2
  mini_batch_size = 2
  RAND_MAX = 4
INVARIANTS DeltasAreGradients EachSampleOnce
CHECK_DEADLOCK FALSE
