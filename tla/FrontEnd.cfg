\* Formulas of up to three operators on matrices and vectors, from the
\* operators to the loops over GEMM.
SPECIFICATION FSpec
CONSTANTS
  AlignedReals = 2
  Modulus = 97
  TensorShape <- MCTensorShape
  TensorSpp <- MCTensorSpp
  TensorLayout <- MCTensorLayout
  TensorValue <- MCTensorValue
  Leaves <- MCLeaves
  Scalars = {3}
  Slices <- MCSlices
  MaxCalls = 3
  Targets <- MCTargets
  Estimators = {"ShapeCost", "BoundingBoxCost", "ExactCost"}
  Prefetch <- MCPrefetch
INVARIANTS OperandsOnce PassesKeepFormula PatternsSuffice
INVARIANTS ReductionIsOptimal GroupsFusable RejectsIllFormed FlopsOfKernel
CHECK_DEADLOCK FALSE
