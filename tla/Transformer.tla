---------------------------- MODULE Transformer ----------------------------
(***************************************************************************)
(* The passes over a lowered kernel (controlflow/transformer.py), in the   *)
(* order of Kernel.prepareUntilCodeGen (generator.py).  A pass is a phase, *)
(* one iteration of its loop a step.  The final ProgramPoint(None) is not  *)
(* stored: live has one more entry than cfg.  The loops of the code count  *)
(* from 0, i counts from 1.                                                *)
(***************************************************************************)
EXTENDS AST2ControlFlow, LivePoints

VARIABLES
  phase,    \* the pass that runs
  i,        \* the point its loop is at
  lowered   \* history: the program the first pass was given

tvars == <<phase, i, live, lowered>>
vars  == <<lvars, tvars>>

\* cfg[k].action = a
Replace(prog, k, a) == [prog EXCEPT ![k] = a]

\* cfg[j].action.substituted(when, by) for every j in points
SubstitutedAt(prog, points, when, by) ==
  [j \in DOMAIN prog |-> IF j \in points
                         THEN ActionSubstituted(prog[j], when, by, TRUE, TRUE)
                         ELSE prog[j]]

Unfinished(pass) == phase = pass /\ i \in DOMAIN cfg
Advance(k)       == i' = k /\ UNCHANGED phase
UnchangedLowering ==
  UNCHANGED <<simpleMemoryLayout, tmp, writable, stack, target, meaning, visits,
              misplaced, lowered>>

-----------------------------------------------------------------------------
(* The kernel is complete: cfg() is handed to the first pass. *)

Lower == phase = "Lowering" /\ LNext /\ UNCHANGED tvars

StartPasses ==
  /\ phase = "Lowering"
  /\ Lowered
  /\ ~ simpleMemoryLayout
  /\ phase' = "MergeScalarMultiplications"
  /\ i' = 2
  /\ lowered' = cfg
  /\ UNCHANGED <<lvars, live>>

-----------------------------------------------------------------------------
(* MergeScalarMultiplications: t = f(...); x = s * t  ~>  x = s * f(...) *)

MergesScalar(ua, va) ==
  /\ isRHSVariable(ua) /\ ~ isCompound(ua) /\ ua.scalar # NoScalar
  /\ isRHSExpression(va) /\ ~ isCompound(va)
  /\ rhs(ua).name = Def(va)

MergeScalarStep ==
  /\ Unfinished("MergeScalarMultiplications")
  /\ LET ua == cfg[i]
         va == cfg[i - 1]
     IN  IF MergesScalar(ua, va)
         THEN /\ cfg' = RemoveAt(Replace(cfg, i - 1,
                          [va EXCEPT !.scalar = ua.scalar, !.result = ua.result]), i)
              /\ Advance(i)
         ELSE cfg' = cfg /\ Advance(i + 1)
  /\ UNCHANGED live
  /\ UnchangedLowering

\* The loop ends; LivenessAnalysis().visit(cfg) runs to its end.
AnalyseLiveness ==
  /\ phase = "MergeScalarMultiplications"
  /\ i > Len(cfg)
  /\ live' = Liveness(cfg)
  /\ phase' = "SubstituteForward"
  /\ i' = 1
  /\ UNCHANGED cfg
  /\ UnchangedLowering

-----------------------------------------------------------------------------
(* SubstituteForward: after t = x, use x in the place of t if x is dead. *)

IsWritten(n) == n \in writable \/ n \notin Tensor

\* Mistake: x is used in the place of t although x is read later.
SubstitutesForward_IgnoresLive(k) ==
  LET ua == cfg[k]
  IN  /\ ~ isCompound(ua) /\ isRHSVariable(ua)
      /\ IsWritten(rhs(ua).name) /\ isLocal(Def(ua))
      /\ hasTrivialScalar(ua) \/ isLocal(rhs(ua).name)
      /\ \A j \in k .. Len(cfg) : MaySubstitute(cfg[j], ua.result, rhs(ua), TRUE, TRUE)

\* Mistake: x may be an argument that the kernel must not write.
SubstitutesForward_IgnoresWritable(k) ==
  LET ua == cfg[k]
  IN  /\ ~ isCompound(ua) /\ isRHSVariable(ua)
      /\ isLocal(Def(ua)) /\ rhs(ua).name \notin live[k + 1]
      /\ hasTrivialScalar(ua) \/ isLocal(rhs(ua).name)
      /\ \A j \in k .. Len(cfg) : MaySubstitute(cfg[j], ua.result, rhs(ua), TRUE, TRUE)

SubstitutesForward(k) ==
  LET ua   == cfg[k]
      when == ua.result
      by   == rhs(ua)
  IN  /\ ~ isCompound(ua)
      /\ isRHSVariable(ua)
      /\ IsWritten(by.name)
      /\ isLocal(when.name)
      /\ by.name \notin live[k + 1]
      /\ hasTrivialScalar(ua) \/ isLocal(by.name)
      /\ \A j \in k .. Len(cfg) : MaySubstitute(cfg[j], when, by, TRUE, TRUE)

\* Mistake: the live sets are not computed again after a substitution.
SubstituteForwardStep_StaleLive ==
  /\ Unfinished("SubstituteForward")
  /\ IF SubstitutesForward(i)
     THEN cfg' = SubstitutedAt(cfg, i .. Len(cfg), cfg[i].result, rhs(cfg[i]))
     ELSE UNCHANGED cfg
  /\ Advance(i + 1)
  /\ UNCHANGED live
  /\ UnchangedLowering

SubstituteForwardStep ==
  /\ Unfinished("SubstituteForward")
  /\ IF SubstitutesForward(i)
     THEN /\ cfg' = SubstitutedAt(cfg, i .. Len(cfg), cfg[i].result, rhs(cfg[i]))
          /\ live' = Liveness(cfg')
     ELSE UNCHANGED <<cfg, live>>
  /\ Advance(i + 1)
  /\ UnchangedLowering

EndSubstituteForward ==
  /\ phase = "SubstituteForward"
  /\ i > Len(cfg)
  /\ phase' = "SubstituteBackward"
  /\ i' = Len(cfg)
  /\ UNCHANGED <<cfg, live>>
  /\ UnchangedLowering

-----------------------------------------------------------------------------
(* SubstituteBackward: before x = t, compute t in x.  The first definition   *)
(* of t at which x is dead is found, scanning from the start.                *)

\* Mistake: x may still be needed where t is computed.
Definitions_IgnoresLive(k) ==
  {j \in 1 .. k - 1 : ~ isCompound(cfg[j]) /\ Def(cfg[j]) = rhs(cfg[k]).name}

Definitions(k) ==
  {j \in 1 .. k - 1 : /\ Def(cfg[k]) \notin live[j]
                      /\ ~ isCompound(cfg[j])
                      /\ Def(cfg[j]) = rhs(cfg[k]).name}

SubstitutesBackward(k, found) ==
  LET when == cfg[found].result
      by   == cfg[k].result
  IN  /\ MaySubstitute(cfg[found], when, by, TRUE, FALSE)
      /\ \A j \in found + 1 .. k : MaySubstitute(cfg[j], when, by, TRUE, TRUE)

SubstituteBackwardStep ==
  /\ Unfinished("SubstituteBackward")
  /\ LET candidate == /\ ~ isCompound(cfg[i])
                      /\ isRHSVariable(cfg[i])
                      /\ isLocal(rhs(cfg[i]).name)
                      /\ Definitions(i) # {}
         found == Min(Definitions(i))
         when  == cfg[found].result
         by    == cfg[i].result
     IN  IF candidate /\ SubstitutesBackward(i, found)
         THEN /\ cfg' = Replace(SubstitutedAt(cfg, found + 1 .. i, when, by), found,
                          ActionSubstituted(cfg[found], when, by, TRUE, FALSE))
              /\ live' = Liveness(cfg')
         ELSE UNCHANGED <<cfg, live>>
  /\ Advance(i - 1)
  /\ UnchangedLowering

EndSubstituteBackward ==
  /\ phase = "SubstituteBackward"
  /\ i = 0
  /\ phase' = "RemoveEmptyStatements"
  /\ i' = 1
  /\ UNCHANGED <<cfg, live>>
  /\ UnchangedLowering

-----------------------------------------------------------------------------
(* RemoveEmptyStatements: del cfg[i] deletes the point with its live set. *)

IsEmptyStatement(a) ==
  /\ ~ isCompound(a)
  /\ isRHSVariable(a)
  /\ Def(a) = rhs(a).name
  /\ hasTrivialScalar(a)

\* Mistake: the loop does not go on after a statement that it keeps.
RemoveEmptyStatementsStep_NoIncrement ==
  /\ Unfinished("RemoveEmptyStatements")
  /\ IF IsEmptyStatement(cfg[i])
     THEN cfg' = RemoveAt(cfg, i) /\ live' = RemoveAt(live, i)
     ELSE UNCHANGED <<cfg, live>>
  /\ Advance(i)
  /\ UnchangedLowering

RemoveEmptyStatementsStep ==
  /\ Unfinished("RemoveEmptyStatements")
  /\ IF IsEmptyStatement(cfg[i])
     THEN cfg' = RemoveAt(cfg, i) /\ live' = RemoveAt(live, i) /\ Advance(i)
     ELSE UNCHANGED <<cfg, live>> /\ Advance(i + 1)
  /\ UnchangedLowering

EndRemoveEmptyStatements ==
  /\ phase = "RemoveEmptyStatements"
  /\ i > Len(cfg)
  /\ phase' = "MergeActions"
  /\ i' = 1
  /\ UNCHANGED <<cfg, live>>
  /\ UnchangedLowering

-----------------------------------------------------------------------------
(* MergeActions: t = s * term; ...; x [+]= t  ~>  x [+]= s * term; ...  The   *)
(* scan of the later points stops at the first that merges or that touches t. *)

TouchedBetween_OwnOnly(k, j) == variables(cfg[k])  \* mistake

TouchedBetween(k, j) ==  \* V when the scan reaches j
  variables(cfg[k]) \cup
  UNION {variables(cfg[m]) \cup {Def(cfg[m])} : m \in k + 1 .. j - 1}

Merges(k, j) ==
  LET ua == cfg[k]
      va == cfg[j]
  IN  /\ isRHSVariable(va)
      /\ rhs(va).name = Def(ua)
      /\ Def(va) \notin TouchedBetween(k, j)
      /\ hasTrivialScalar(ua) \/ hasTrivialScalar(va)

StopsScan(k, j) ==
  Merges(k, j) \/ Def(cfg[k]) \in variables(cfg[j]) \/ Def(cfg[k]) = Def(cfg[j])

Merged(ua, va) ==
  [ActionSubstituted(ua, ua.result, va.result, TRUE, FALSE) EXCEPT
     !.add    = va.add,
     !.scalar = IF hasTrivialScalar(va) THEN @ ELSE va.scalar]

MergeActionsStep ==
  /\ Unfinished("MergeActions")
  /\ LET stops == {j \in i + 1 .. Len(cfg) : StopsScan(i, j)}
         found == Min(stops)
         merge == /\ ~ isCompound(cfg[i])
                  /\ stops # {}
                  /\ Merges(i, found)
                  /\ MaySubstitute(cfg[i], cfg[i].result, cfg[found].result,
                                   TRUE, FALSE)
     IN  IF merge
         THEN /\ cfg' = RemoveAt(Replace(cfg, i, Merged(cfg[i], cfg[found])), found)
              /\ live' = RemoveAt(live, found)
         ELSE UNCHANGED <<cfg, live>>
  /\ Advance(i + 1)
  /\ UnchangedLowering

EndMergeActions ==
  /\ phase = "MergeActions"
  /\ i > Len(cfg)
  /\ live' = Liveness(cfg)
  /\ phase' = "Optimised"
  /\ i' = 0
  /\ UNCHANGED cfg
  /\ UnchangedLowering

-----------------------------------------------------------------------------
TInit ==
  /\ LInit
  /\ phase = "Lowering"
  /\ i = 0
  /\ live = <<>>
  /\ lowered = <<>>

Passes ==
  \/ MergeScalarStep \/ AnalyseLiveness
  \/ SubstituteForwardStep \/ EndSubstituteForward
  \/ SubstituteBackwardStep \/ EndSubstituteBackward
  \/ RemoveEmptyStatementsStep \/ EndRemoveEmptyStatements
  \/ MergeActionsStep \/ EndMergeActions

TNext == Lower \/ StartPasses \/ Passes

TSpec == TInit /\ [][TNext]_vars

\* The passes are plain sequential calls: once started they run.
TFairSpec == TSpec /\ WF_vars(Passes)

-----------------------------------------------------------------------------
(* Properties *)

Optimising == phase # "Lowering"

\* The tensors that a copy, a sum or a scaling reads after the kernel has
\* assigned them.  A contraction that reads them is no hazard, nor is a
\* temporary tensor that nothing else reads.
ForwardedResults(prog) ==
  LET Reads(n) == {k \in DOMAIN prog : n \in variables(prog[k])}
  IN  {n \in Tensor :
         /\ \E k \in Reads(n) : /\ isRHSVariable(prog[k])
                               /\ \E j \in 1 .. k - 1 : Def(prog[j]) = n
         /\ n \in TempTensor => Cardinality(Reads(n)) > 1}

\* A pass keeps what the kernel leaves in every tensor that is not
\* temporary, at every point where it may stop between two iterations, for
\* a kernel that forwards none of its results to a later assignment.  The
\* variable of a temporary that is made for another addend than it is
\* computed from holds less than was computed, which a pass that removes the
\* variable need not respect.
PassesKeepMeaning ==
  Optimising /\ ~ misplaced /\ ForwardedResults(lowered) = {} =>
    LET mem == Run(cfg, TensorValues)
        ref == Run(lowered, TensorValues)
    IN  \A n \in Global : mem[n] = ref[n]

\* The unit test that the generator writes for a kernel runs the generated
\* code and compares every writable tensor with a reference:
\*   for var in variables:
\*     if var.writable:
\*       factory.compare(var, ...)
\* (codegen/visitor.py, UnitTestGenerator.generate).
WritableTensorsCompare ==
  phase = "Optimised" =>
    \A n \in Global \cap writable :
      Run(cfg, TensorValues)[n] = Run(lowered, TensorValues)[n]

\* The passes keep to what the lowering laid down at the border of the kernel,
\* whatever they substitute for the temporaries: no argument is written that
\* no assignment writes, and no temporary is read or accumulated into before it
\* is written.
PassesKeepInterface ==
  Optimising =>
    /\ \A k \in DOMAIN cfg : Def(cfg[k]) \in Tensor => Def(cfg[k]) \in writable
    /\ UpwardExposed(cfg, 1) \subseteq Tensor

\* Neither the lowering nor a pass makes a statement read the variable that it
\* writes in another order, or, unless an addend was converted in the place of
\* another, gives a node an operand or a result whose layout it cannot work on.
StatementsSound ==
  \A k \in DOMAIN cfg : NoAliasing(cfg[k]) /\ (~ misplaced => WellPlaced(cfg[k]))

\* The live sets a pass decides by are those of the program it has at hand;
\* a set that is out of date while one pass deletes points is not used
\* before it is computed again.
LiveSetsCurrent ==
  phase \in {"SubstituteForward", "SubstituteBackward", "Optimised"} =>
    /\ Len(live) = Len(cfg) + 1
    /\ \A k \in 1 .. Len(cfg) + 1 : live[k] = UpwardExposed(cfg, k)

\* Every pass comes to its end although it deletes from the list it walks:
\* the loop variable and the bound follow each deletion.
PassesTerminate ==
  (phase = "MergeScalarMultiplications") ~> (phase = "Optimised")
=============================================================================
