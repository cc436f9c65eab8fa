\* A family whose members are for different targets.
SPECIFICATION KSpec
CONSTANTS
  KernelNames = {"k"}
  Namespaces = {""}
  Targets = {"cpu", "gpu"}
  Spaces <- MCOneSpace
  Groups = {0, 1}
  Ast <- MCEmptyAst
  Arch <- MCArch
  bytesPerReal = 8
  MaxCalls = 2
INVARIANTS FamilyHasOneTarget
CHECK_DEADLOCK FALSE
