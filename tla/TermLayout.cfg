\* Every layout of the shapes, and every GEMM on it.
SPECIFICATION GSpec
CONSTANTS
  AlignedReals = 2
  Shapes <- MCShapes
  MaxSlices = 2
  Archs <- MCArchs
  Rights <- MCRights
  Scales = {"1", "2"}
INVARIANTS StoredApart SplitAddress EntriesAddressed AlignedAccess ResultCovered GemmComputes
PROPERTIES PermutedTogether
CHECK_DEADLOCK FALSE
