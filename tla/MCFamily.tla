------------------------------ MODULE MCFamily ------------------------------
(* Constants of family_targets: one parameter space, and kernels without     *)
(* tensors.                                                                  *)
EXTENDS Generator

MCOneSpace == { << <<0>>, <<2>> >> }

MCEmptyAst(c, param) ==
  [tensors |-> {}, writes |-> {}, prefetch |-> {}, scalars |-> {}, buffers |-> <<>>, gemms |-> {}]

MCArch == [host |-> "noarch", backend |-> "cuda", prefetch |-> FALSE]
=============================================================================
