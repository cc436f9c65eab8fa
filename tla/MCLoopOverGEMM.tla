--------------------------- MODULE MCLoopOverGEMM ---------------------------
(* Constants of the runs of LoopOverGEMM: two outer points that the loops   *)
(* visit and one that only the layout of the result stores, and an inner    *)
(* loop of three iterations.                                                 *)
EXTENDS LoopOverGEMM

MCAlphas == {1, -2}
=============================================================================
