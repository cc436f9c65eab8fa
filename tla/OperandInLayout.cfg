\* The rows that an aligned GEMM adds are not always stored.
SPECIFICATION TSpec
CONSTANTS
  AlignedReals = 2
  Shapes <- MCShapes
  MaxSlices = 0
INVARIANTS OperandInLayout
CHECK_DEADLOCK FALSE
