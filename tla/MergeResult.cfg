\* A copy of a tensor that the kernel computed before.
SPECIFICATION TSpec
CONSTANTS
  A = A  B = B  C = C  T = T
  Global = {A, C}
  TempTensor = {}
  TensorCells <- MCTensorCells
  Fusable = {A}
  Modulus = 97
  SimpleMemoryLayouts = {FALSE}
  TensorValues <- MCTensorValues
  ScalarValues = {}
  Arities = {2}
  AddendCounts = {}
  AddendOrders <- PlainOrder
  TargetOrders <- PlainOrder
  MaxAssignments = 2
  MaxVisits = 6
INVARIANTS WritableTensorsCompare
CHECK_DEADLOCK FALSE
