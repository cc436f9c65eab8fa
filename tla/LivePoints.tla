----------------------------- MODULE LivePoints -----------------------------
(* A program whose points carry the live sets of LivenessAnalysis. *)
EXTENDS Program

VARIABLE live  \* ProgramPoint.live; <<>> before the first LivenessAnalysis
=============================================================================
