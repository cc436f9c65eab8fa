--------------------------- MODULE KernelPipeline ---------------------------
(***************************************************************************)
(* From the kernel to the emitted code: lowering, the passes, and then     *)
(* KernelGenerator.generate (codegen/visitor.py), which assigns buffers    *)
(* and emits one statement per point.                                      *)
(***************************************************************************)
EXTENDS Transformer, DetermineLocalInitialization

bvars == <<point, pending, used, free, numBuffers, bufferSize, bufferMap>>
pvars == <<vars, bvars>>

\* Kernel.prepareUntilUnitTest: the reference code is not optimised.
PrepareUnitTest ==
  /\ phase = "Lowering"
  /\ Lowered
  /\ simpleMemoryLayout
  /\ live' = Liveness(cfg)
  /\ phase' = "Reference"
  /\ lowered' = cfg
  /\ UNCHANGED <<lvars, i, bvars>>

\* Both the generated code and its reference are emitted by generate.
Prepared == phase \in {"Optimised", "Reference"}

AssignBuffers ==
  /\ Prepared
  /\ DNext
  /\ UnchangedLowering
  /\ UNCHANGED <<phase, i>>

PInit == TInit /\ DStart
PNext == (TNext /\ UNCHANGED bvars) \/ PrepareUnitTest \/ AssignBuffers
PSpec == PInit /\ [][PNext]_pvars

\* The passes are plain sequential calls: once started they run.
PFairSpec == PSpec /\ WF_pvars(Passes /\ UNCHANGED bvars)

-----------------------------------------------------------------------------
(* The emitted code.  A pointer is set where the point has a bufferMap       *)
(* entry; arguments are accessed in place.  Buffers are not initialised.     *)

Generated == Prepared /\ Assigned

EmittedState == [arg |-> [n \in Global |-> TensorValues[n]],
                 buf |-> [b \in 0 .. numBuffers - 1 |-> Uninitialised],
                 ptr |-> [n \in {} |-> 0]]

\* A statement over a result that shares its memory with an operand: the
\* loops of a node write the result before they have read the operand.
Overlaps(a, ptr) ==
  /\ isRHSExpression(a)
  /\ \E n \in TermNames(a.term) :
       /\ isGlobal(n) = isGlobal(Def(a))
       /\ IF isGlobal(n) THEN n = Def(a) ELSE ptr[n] = ptr[Def(a)]

Point(k, st) ==
  LET ptr    == [n \in DOMAIN st.ptr \cup DOMAIN bufferMap[k] |->
                   IF n \in DOMAIN bufferMap[k] THEN bufferMap[k][n] ELSE st.ptr[n]]
      a      == cfg[k]
      names  == variables(a) \cup {Def(a)}
      mem    == [n \in names |-> IF isGlobal(n) THEN st.arg[n] ELSE st.buf[ptr[n]]]
      after  == IF Overlaps(a, ptr) THEN Uninitialised ELSE Emitted(a, mem)[Def(a)]
  IN  IF isGlobal(Def(a))
      THEN [st EXCEPT !.arg[Def(a)] = after, !.ptr = ptr]
      ELSE [st EXCEPT !.buf[ptr[Def(a)]] = after, !.ptr = ptr]

Execute ==
  LET run[k \in 0 .. Len(cfg)] ==
        IF k = 0 THEN EmittedState ELSE Point(k, run[k - 1])
  IN  run[Len(cfg)].arg

-----------------------------------------------------------------------------
(* Properties *)

\* Executing the generated code over its buffers leaves every argument with
\* the value that the assignments of the kernel give it, if no addend was
\* converted in the place of another and no result is forwarded.  The
\* reference code of the unit test needs the first condition only.
CodeComputesKernel ==
  /\ Generated
  /\ ~ misplaced
  /\ phase = "Optimised" => ForwardedResults(lowered) = {}
  => \A n \in Global : Execute[n] = meaning[n]
=============================================================================
