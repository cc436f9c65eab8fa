\* A contraction with two inner loops that are not fused.
SPECIFICATION GSpec
CONSTANTS
  Outer = {o1}
  Peel = {1, 2}
  Rest = {r1, r2}
  ResultOuter = {o1}
  ResultRows = {m1}
  GEMMRows = {m1}
  Alphas <- MCAlphas
INVARIANTS ResultCompares
CHECK_DEADLOCK FALSE
