-------------------------- MODULE LivenessAnalysis --------------------------
(***************************************************************************)
(* LivenessAnalysis.visit (controlflow/transformer.py): one backward walk  *)
(* over a program of any origin, an iteration of the loop per step.        *)
(* Nothing is live at the final ProgramPoint(None), not even an output of  *)
(* the kernel.                                                             *)
(***************************************************************************)
EXTENDS Program

VARIABLES
  walked,  \* ProgramPoint.live of the points that have it
  todo     \* the number of points still to visit; the next one

avars == <<cfg, walked, todo>>

AInit ==
  /\ cfg \in Seq(Actions)
  /\ walked = [k \in {Len(cfg) + 1} |-> {}]
  /\ todo = Len(cfg)

\* Mistake: a definition does not end the life of a variable.
VisitPoint_NoKill ==
  /\ todo > 0
  /\ walked' = [k \in todo .. Len(cfg) + 1 |->
                IF k = todo THEN walked[todo + 1] \cup variables(cfg[todo]) ELSE walked[k]]
  /\ todo' = todo - 1
  /\ UNCHANGED cfg

\* Mistake: every other point is skipped.
VisitPoint_Skips ==
  /\ todo > 0
  /\ walked' = [k \in todo .. Len(cfg) + 1 |->
                IF k = todo THEN (walked[todo + 1] \ {Def(cfg[todo])}) \cup variables(cfg[todo])
                         ELSE walked[k]]
  /\ todo' = todo - 2
  /\ UNCHANGED cfg

VisitPoint ==
  /\ todo > 0
  /\ walked' = [k \in todo .. Len(cfg) + 1 |->
                IF k = todo THEN (walked[todo + 1] \ {Def(cfg[todo])}) \cup variables(cfg[todo])
                         ELSE walked[k]]
  /\ todo' = todo - 1
  /\ UNCHANGED cfg

ANext == VisitPoint
ASpec == AInit /\ [][ANext]_avars

-----------------------------------------------------------------------------
(* Properties *)

ATypeOK ==
  /\ cfg \in Seq(Actions)
  /\ todo \in 0 .. Len(cfg)
  /\ walked \in [todo + 1 .. Len(cfg) + 1 -> SUBSET Name]

\* What the walk has computed is exact: a variable is in the live set of a
\* visited point if and only if the rest of the program reads it before it
\* writes it, a compound action counting as a read of its result.
LiveExact ==
  \A k \in todo + 1 .. Len(cfg) + 1 : walked[k] = UpwardExposed(cfg, k)
=============================================================================
