\* One assignment with every form of node; addends in any index order.
SPECIFICATION LSpec
CONSTANTS
  A = A  B = B  C = C  T = T
  Global = {A, B}
  TempTensor = {T}
  TensorCells <- MCTensorCells
  Fusable = {A}
  Modulus = 97
  SimpleMemoryLayouts = {FALSE, TRUE}
  TensorValues <- MCTensorValues
  ScalarValues = {3}
  Arities = {1, 2}
  AddendCounts = {2}
  AddendOrders <- AllOrders
  TargetOrders <- AllOrders
  MaxAssignments = 1
  MaxVisits = 5
INVARIANTS LoweringFaithful SingleDefinition
CHECK_DEADLOCK FALSE
