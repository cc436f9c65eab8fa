----------------------------- MODULE MCFrontEnd -----------------------------
(* Matrices of two by two or three, dense, triangular or of one column, and    *)
(* vectors; the indices are i = 1, j = 2, k = 3, l = 4.                        *)
EXTENDS FrontEnd

MCTensorShape == [A |-> <<2, 2>>, B |-> <<2, 3>>, C |-> <<3, 2>>, D |-> <<2, 2, 3>>, v |-> <<2>>,
                  w |-> <<3>>, X |-> <<3, 2>>, Q |-> <<2, 2>>, q |-> <<2>>, R |-> <<2, 3>>]
Dense(t) == {c \in [DOMAIN MCTensorShape[t] -> 0 .. 2] : \A d \in DOMAIN c : c[d] < MCTensorShape[t][d]}
MCTensorSpp == [t \in DOMAIN MCTensorShape |->
  CASE t = "B" -> {c \in Dense(t) : c[1] <= c[2]}
    [] t = "C" -> {c \in Dense(t) : c[1] # 1}
    [] t = "D" -> {c \in Dense(t) : c[2] = 1}
    [] t = "w" -> {<<1>>}
    [] OTHER   -> Dense(t)]
MCTensorLayout == [t \in DOMAIN MCTensorShape |->
  Layout(DenseLayout(MCTensorShape[t], boundingBox(MCTensorSpp[t]), t \in {"A", "C"}))]
MCTensorValue == [t \in DOMAIN MCTensorShape |-> [c \in Dense(t) |->
  LET id == CHOOSE n \in 1 .. 10 : <<"A", "B", "C", "D", "v", "w", "X", "Q", "q", "R">>[n] = t
  IN  1 + ((13 * id + FoldLeft(LAMBDA s, x : 7 * s + 5 * x * x + x, id * id, c)) % 96)]]

T(t, i) == IndexedTensor(t, i)
MCLeaves == {
  <<T("A", <<1, 2>>), T("B", <<2, 3>>), T("C", <<3, 4>>), T("v", <<4>>)>>,
  <<T("D", <<1, 2, 3>>), T("A", <<4, 2>>), T("w", <<3>>)>>,
  <<T("D", <<1, 2, 3>>), T("B", <<2, 3>>), T("v", <<1>>)>>,
  <<T("v", <<1>>), T("A", <<2, 1>>), T("v", <<2>>)>> }
MCTargets == {T("Q", <<1, 4>>), T("Q", <<2, 1>>), T("Q", <<1, 3>>), T("q", <<1>>),
              T("R", <<1, 3>>)}
MCSlices == {[index |-> 3, start |-> 1, stop |-> 3]}
MCPrefetch == {<<>>, <<"A">>, <<"A", "v">>}
=============================================================================
