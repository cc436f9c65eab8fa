\* A sum of addends in different index orders, one of them an output.
SPECIFICATION LSpec
CONSTANTS
  A = A  B = B  C = C  T = T
  Global = {A, B}
  TempTensor = {}
  TensorCells <- MCTensorCells
  Fusable = {A}
  Modulus = 97
  SimpleMemoryLayouts = {FALSE}
  TensorValues <- MCTensorValues
  ScalarValues = {}
  Arities = {2}
  AddendCounts = {2}
  AddendOrders <- MatrixOrders
  TargetOrders <- PlainOrder
  MaxAssignments = 1
  MaxVisits = 3
INVARIANTS AddendsMayBePermuted
CHECK_DEADLOCK FALSE
