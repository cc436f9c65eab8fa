\* The liveness walk and the buffers of every program of up to four actions.
SPECIFICATION MCSpec
CONSTANTS
  A = A  T = T
  Global = {A}
  TempTensor = {T}
  TensorCells <- MCTensorCells
  Fusable = {}
  Modulus = 7
  MaxLength = 4
INVARIANTS ATypeOK LiveExact
INVARIANTS DTypeOK BuffersOwnedOnce LiveLocalsApart BufferFits
PROPERTIES BufferStable ImplementsPool
CHECK_DEADLOCK FALSE
