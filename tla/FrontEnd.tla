------------------------------ MODULE FrontEnd ------------------------------
(***************************************************************************)
(* From the formula of a kernel to loops over GEMM: a program builds an    *)
(* expression and assigns it, and Kernel.prepareUntilCodeGen (generator.py)*)
(* runs the passes over it, one per step.                                  *)
(***************************************************************************)
EXTENDS ExpressionBuilder, AstTransformer

CONSTANTS
  Targets,    \* for the sequence of leaves, the tensors it may be assigned to
  Estimators, \* "ShapeCost", "BoundingBoxCost", "ExactCost"
  Prefetch    \* sequences of the tensors to prefetch

VARIABLES
  phase,      \* the pass that comes next, "Build" at first; "Raised" after an error
  kernel,     \* the expression
  written,    \* the expression as the program wrote it, with the same target
  prefetch,   \* the operation that prefetches each tensor, once it is chosen
  estimator,  \* the estimator that the generator was given
  flops       \* the floating point operations that are reported for the kernel

vars == <<heap, names, leaves, builder, phase, kernel, written, prefetch, estimator, flops>>

Phases == <<"Deduce", "Count", "Pattern", "Reduce", "Contract", "Layout", "Permute", "Implement",
            "Prefetch", "Done">>
NoPrefetch == [raises |-> FALSE, prefetch |-> <<>>, caps |-> <<>>]

FInit ==
  /\ BInit
  /\ phase = "Build"
  /\ kernel = Node("None", <<>>)
  /\ written = kernel
  /\ prefetch = NoPrefetch
  /\ estimator = "None"
  /\ flops = 0

Build ==
  phase = "Build" /\ BNext /\ UNCHANGED <<phase, kernel, written, prefetch, estimator, flops>>

\* target <= x; what follows is about expressions whose parts were used once.
Assign ==
  /\ phase = "Build" /\ builder = "Open"
  /\ \E n \in DOMAIN names, t \in Targets :
       /\ UsedOnce(n)
       /\ kernel'  = Node("Assign", <<t, Tree(heap, names[n].ref)>>)
       /\ written' = Node("Assign", <<t, names[n].written>>)
  /\ phase' = "Deduce"
  /\ UNCHANGED <<bvars, prefetch, estimator, flops>>

Pass(now, new) ==
  /\ phase = now
  /\ kernel' = new
  /\ phase' = IF AllOk(new) THEN Phases[1 + CHOOSE p \in DOMAIN Phases : Phases[p] = now]
              ELSE "Raised"
  /\ UNCHANGED <<bvars, written, prefetch, estimator, flops>>

Deduce ==
  /\ phase = "Deduce"
  /\ kernel' = DeduceAssign(kernel)
  /\ phase' = IF AllOk(kernel') THEN "Count" ELSE "Raised"
  /\ UNCHANGED <<bvars, written, prefetch, estimator, flops>>

\* On a copy of the expression.
CountFlops ==
  /\ phase = "Count"
  /\ \E e \in Estimators :
       LET reduced == StrengthReduction(e, EquivalentSparsityPattern(kernel))
       IN  /\ estimator' = e
           /\ flops' = IF AllOk(reduced) THEN FlopCount(SetSparsityPattern(reduced)) ELSE 0
           /\ phase' = IF AllOk(reduced) THEN "Pattern" ELSE "Raised"
  /\ UNCHANGED <<bvars, kernel, written, prefetch>>

Pattern   == Pass("Pattern", EquivalentSparsityPattern(kernel))
Reduce    == Pass("Reduce", StrengthReduction(estimator, kernel))
Contract  == Pass("Contract", FindContractions(kernel))
LayOut    == Pass("Layout", ComputeMemoryLayout(kernel))
Permute   == Pass("Permute", SelectIndexPermutations(FindIndexPermutations(kernel)))
Implement == Pass("Implement", ImplementContractions(kernel))

AssignPf ==
  /\ phase = "Prefetch"
  /\ \E t \in Prefetch : prefetch' = AssignPrefetch(kernel, t)
  /\ phase' = IF prefetch'.raises THEN "Raised" ELSE "Done"
  /\ UNCHANGED <<bvars, kernel, written, estimator, flops>>

FNext == Build \/ Assign \/ Deduce \/ CountFlops \/ Pattern \/ Reduce \/ Contract \/ LayOut
           \/ Permute \/ Implement \/ AssignPf

FSpec == FInit /\ [][FNext]_vars
-----------------------------------------------------------------------------
(* What the formula of the program means *)

\* Einstein's convention, applied to the operators as they were written: a
\* product sums over the indices that both operands mention, unless the target
\* or an outer product has given them a value.
Shared(node, bound) ==
  IF node.op = "Einsum"
  THEN (ComputeIndexSet(node.children[1]) \cap ComputeIndexSet(node.children[2])) \ bound
  ELSE {}

RECURSIVE Meaning(_, _)
Meaning(node, env) ==
  LET over == [n \in Shared(node, DOMAIN env) |-> Min(SizesOf(node, n))]
  IN  CASE node.op = "IndexedTensor" ->
             LET c == CellOf(node.indices, env)
             IN  IF c \in TensorSpp[node.tensor] THEN TensorValue[node.tensor][c] ELSE 0
        [] node.op = "SliceView" -> Meaning(term(node), Moved(env, node.index, node.start))
        [] node.op = "ScalarMultiplication" -> (node.scalar * Meaning(term(node), env)) % Modulus
        [] node.op = "Add" -> (Meaning(leftTerm(node), env) + Meaning(rightTerm(node), env)) % Modulus
        [] node.op = "Einsum" ->
             SumOf(Extended(env, over),
                   LAMBDA e : (Meaning(leftTerm(node), e) * Meaning(rightTerm(node), e)) % Modulus)

\* Every index has a value and one size wherever it is in force.
RECURSIVE WellFormed(_, _)
WellFormed(node, bound) ==
  IF node.op = "IndexedTensor" THEN IndexSet(node.indices) \subseteq bound
  ELSE LET new == Shared(node, bound)
       IN  /\ \A n \in new : Cardinality(SizesOf(node, n)) = 1
           /\ \A c \in children(node) : WellFormed(c, bound \cup new)

FormulaOk ==
  LET target == leftTerm(written).indices
  IN  /\ WellFormed(rightTerm(written), IndexSet(target))
      /\ \A n \in IndexSet(target) : SizesOf(rightTerm(written), n) \subseteq {target.size[n]}

\* A slice can only be taken along an index that is not summed below it.
RECURSIVE SlicesOk(_, _)
SlicesOk(node, bound) ==
  /\ node.op = "SliceView" => node.index \in bound
  /\ \A c \in children(node) : SlicesOk(c, bound \cup Shared(node, bound))

-----------------------------------------------------------------------------
(* Properties *)

AfterDeduce == phase \notin {"Build", "Deduce", "Raised"}
HasPatterns == phase \in {"Reduce", "Permute", "Implement", "Prefetch", "Done"}
Computes(masked) ==
  \A e \in Envs(kernel.indices.size) :
    Compute(kernel, e, masked) = Meaning(rightTerm(written), e)

\* After every pass the expression computes what the program wrote.
PassesKeepFormula == AfterDeduce => Computes(FALSE)

\* It still does when nothing outside of the patterns is computed or read: the
\* patterns of the factors, restricted to what meets the other factors, suffice
\* (EquivalentSparsityPattern, ComputeMemoryLayout).
PatternsSuffice == HasPatterns => Computes(TRUE)

RECURSIVE LeastEverywhere(_, _)
LeastEverywhere(e, node) ==
  /\ \A c \in DOMAIN node.children : LeastEverywhere(e, node.children[c])
  /\ node.op = "Einsum" /\ ~EmptyFactor(e, node) =>
       LET target == IndexSet(node.indices)
       IN  estimate(e, strengthReduction(e, node.children, target, 0)).cost
             = LeastCost(e, node.children, target)

\* The search leaves out products it has seen in another order, and those that
\* begin too dear, and still finds an order of the least cost.
ReductionIsOptimal ==
  phase = "Reduce" => LeastEverywhere(estimator, kernel)

\* The operations that are reported are those of the loops over GEMM that the
\* kernel ends with: a product and the sums over it, counted one by one, are
\* as many as the loop counts for both (nonZeroFlops in ast/node.py).
FlopsOfKernel == phase \in {"Prefetch", "Done"} => flops = FlopCount(kernel)

RECURSIVE Implemented(_)
Implemented(node) ==
  /\ node.op # "Contraction"
  /\ node.op = "LoopOverGEMM" =>
       /\ argumentsCompatible(node) /\ resultCompatible(node)
       /\ IndexSet(loopIndices(node)) \cap (ToSet(node.m) \cup ToSet(node.n) \cup ToSet(node.k)) = {}
  /\ \A c \in children(node) : Implemented(c)

\* The groups of a GEMM are chosen for one layout of its result and operands,
\* and the layouts are computed again afterwards: they can still be fused.
GroupsFusable == phase \in {"Prefetch", "Done"} => Implemented(kernel)

RECURSIVE SomeEmpty(_)
SomeEmpty(node) == node.eqspp = {} \/ \E c \in children(node) : SomeEmpty(c)

\* DeduceIndices raises exactly for formulas with an index that nothing binds or
\* that has two sizes, though its test of a single tensor lets indices pass that
\* the target lacks: the checks around it find them.  A formula that it accepts
\* gets to its loops over GEMM, unless a part of it is zero throughout, it slices
\* an index that is summed already, or there are more tensors to prefetch than
\* loops.
RejectsIllFormed ==
  /\ phase = "Deduce" => (AllOk(DeduceAssign(kernel)) <=> FormulaOk)
  /\ phase = "Raised" /\ FormulaOk /\ SlicesOk(rightTerm(written), IndexSet(leftTerm(written).indices)) =>
       prefetch.raises \/ SomeEmpty(EquivalentSparsityPattern(DeduceAssign(written)))
=============================================================================
