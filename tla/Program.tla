------------------------------ MODULE Program ------------------------------
(* A program of any origin: the list that Kernel.cfg holds, without the final *)
(* ProgramPoint(None).                                                        *)
EXTENDS ControlFlow

VARIABLE cfg  \* the actions
=============================================================================
