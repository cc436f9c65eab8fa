\* Two calls for up to two families, with a callback that may raise, and the
\* objects of the classes that come of them.
SPECIFICATION OSpec
CONSTANTS
  KernelNames = {"k", "l"}
  Namespaces = {"", "ns"}
  Targets = {"cpu", "gpu"}
  Spaces <- MCSpaces
  Groups = {0, 2}
  Ast <- MCAst
  Arch <- MCArch
  bytesPerReal = 8
  MaxCalls = 2
  Values = {1, 2}
  Batches = {1, 2}
  MaxInt = 255
INVARIANTS FindsOwnKernel TestsNameTheirFamily GenerateSucceeds TmpMemSuffices SeesOwnArguments RoutineOfCall
CHECK_DEADLOCK FALSE
