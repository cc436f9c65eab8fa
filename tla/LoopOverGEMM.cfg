\* Contractions with one inner loop and two outer points.
SPECIFICATION GSpec
CONSTANTS
  Outer = {o1, o2}
  Peel = {1, 2, 3}
  Rest = {r1}
  ResultOuter = {o1, o2, o3}
  ResultRows = {m1, m2}
  GEMMRows = {m1}
  Alphas <- MCAlphas
INVARIANTS GTypeOK ResultComplete
CHECK_DEADLOCK FALSE
