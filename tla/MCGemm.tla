------------------------------ MODULE MCGemm ------------------------------
(* Vectors, matrices and one tensor of order three, with every bounding box  *)
(* and every sparsity pattern, on vectors of two reals; matrices are         *)
(* multiplied with a few dense and sparse ones, on three hosts.              *)
EXTENDS Gemm

MCShapes == {<<4>>, <<3, 2>>, <<2, 3>>, <<2, 2, 2>>}

Dense(shape, spp, padded, trans) ==
  [shape |-> shape, spp |-> spp, csc |-> FALSE, aligned |-> padded, trans |-> trans]
Sparse(shape, spp, trans) ==
  [shape |-> shape, spp |-> spp, csc |-> TRUE, aligned |-> FALSE, trans |-> trans]

\* With two and with three rows: a full matrix, one whose first row is empty,
\* sparse ones with an empty column or row, and transposed ones.
MCRights ==
  { Dense(<<2, 2>>, (0 .. 1) \X (0 .. 1), TRUE, FALSE),
    Dense(<<2, 3>>, (0 .. 1) \X (0 .. 2), FALSE, TRUE),
    Dense(<<3, 2>>, {<<1, 0>>, <<2, 0>>, <<2, 1>>}, FALSE, FALSE),
    Sparse(<<2, 3>>, {<<0, 0>>, <<1, 0>>, <<0, 2>>}, FALSE),
    Sparse(<<3, 2>>, {<<1, 0>>, <<2, 0>>, <<0, 1>>}, FALSE),
    Sparse(<<2, 3>>, {<<0, 0>>, <<1, 1>>, <<0, 2>>}, TRUE) }

Host(name) == [host |-> name, backend |-> "cpp", prefetch |-> FALSE]
MCArchs == {Host("noarch"), Host("skx"), Host("sve1024")}
=============================================================================
