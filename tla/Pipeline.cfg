\* Kernels of one and of two assignments through all passes, as generated code
\* and as reference.
SPECIFICATION PFairSpec
CONSTANTS
  A = A  B = B  C = C  T = T
  Global = {A, B}
  TempTensor = {T}
  TensorCells <- MCTensorCells
  Fusable = {A}
  Modulus = 97
  SimpleMemoryLayouts = {FALSE, TRUE}
  TensorValues <- MCTensorValues
  ScalarValues = {3}
  Arities = {2}
  AddendCounts = {2}
  AddendOrders <- PlainOrder
  TargetOrders <- MatrixOrders
  MaxAssignments = 2
  MaxVisits = 6
INVARIANTS PassesKeepMeaning PassesKeepInterface StatementsSound LiveSetsCurrent CodeComputesKernel
PROPERTY PassesTerminate
CHECK_DEADLOCK FALSE
