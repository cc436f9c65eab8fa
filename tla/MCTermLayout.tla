---------------------------- MODULE MCTermLayout ----------------------------
(* Vectors, matrices and one tensor of order three, with every bounding box  *)
(* and every sparsity pattern, on vectors of two reals.                      *)
EXTENDS TermLayout

MCShapes == {<<4>>, <<3, 2>>, <<2, 3>>, <<2, 2, 2>>}
=============================================================================
