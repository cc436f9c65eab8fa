--------------------------- MODULE MCTransformer ---------------------------
(* Constants of the runs of Transformer. *)
EXTENDS Transformer

CONSTANTS A, B, C, T

\* A and C are dense, B stores one cell only; T is a temporary tensor.
MCTensorCells == [n \in Tensor |-> IF n = B THEN {1} ELSE {1, 2}]

MCTensorValues ==
  [n \in Tensor |-> [c \in Cells |->
     IF c \notin MCTensorCells[n] THEN 0
     ELSE CASE n = A -> 3 + 8 * c
            [] n = B -> 5
            [] n = C -> 31 - 4 * c
            [] OTHER -> 43 + 9 * c]]

PlainOrder   == {{}}
MatrixOrders == {{}, {"Permute"}}
AllOrders    == {{}, {"Permute"}, {"Broadcast"}, {"Permute", "Broadcast"}}
=============================================================================
