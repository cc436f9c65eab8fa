-------------------------- MODULE AstTransformer --------------------------
(***************************************************************************)
(* The passes over the expression of a kernel (ast/transformer.py), from   *)
(* the indices of every node to loops over GEMM.  A pass that raises an    *)
(* exception leaves a node whose field ok is FALSE.                        *)
(***************************************************************************)
EXTENDS IndexPermutations, StrengthReduction

RECURSIVE AllOk(_)
AllOk(node) == node.ok /\ \A c \in DOMAIN node.children : AllOk(node.children[c])

-----------------------------------------------------------------------------
(* DeduceIndices *)

RECURSIVE ComputeIndexSet(_)
ComputeIndexSet(node) ==
  IF node.op = "IndexedTensor" THEN IndexSet(node.indices)
  ELSE UNION {ComputeIndexSet(node.children[c]) : c \in DOMAIN node.children}

\* The indices that two factors share and that are not bound from outside.
Contracted(node, bound) ==
  {n \in ComputeIndexSet(node) \ bound :
     \E c, d \in DOMAIN node.children :
       c # d /\ n \in ComputeIndexSet(node.children[c]) \cap ComputeIndexSet(node.children[d])}

MergedChildren(node) == FoldLeft(LAMBDA I, c : merged(I, c.indices), NoIndices, node.children)
ChildrenAgree(node)  == \A c, d \in DOMAIN node.children :
                           SizesAgree(node.children[c].indices, node.children[d].indices)

\* Mistake: what is bound outside is contracted, too.
RECURSIVE DeduceIndices_Unbound(_, _)
DeduceIndices_Unbound(node, bound) ==
  CASE node.op = "IndexedTensor" ->
         [node EXCEPT !.ok = ~(bound \subseteq IndexSet(node.indices) /\ bound # IndexSet(node.indices))]
    [] node.op = "Einsum" ->
         LET sum == Contracted(node, {})
             new == Each(LAMBDA c : DeduceIndices_Unbound(c, bound \cup sum), node)
         IN  [new EXCEPT !.ok = ChildrenAgree(new),
                         !.indices = sortedIndices(Without(MergedChildren(new), sum))]
    [] OTHER -> LET new == Each(LAMBDA c : DeduceIndices_Unbound(c, bound), node)
                IN  [new EXCEPT !.ok = ChildrenAgree(new), !.indices = MergedChildren(new)]

RECURSIVE DeduceIndices(_, _)
DeduceIndices(node, bound) ==
  LET new == Each(LAMBDA c : DeduceIndices(c, bound), node)
      own == term(new).indices
  IN  CASE node.op = "IndexedTensor" ->
             [node EXCEPT !.ok = ~(bound \subseteq IndexSet(node.indices) /\ bound # IndexSet(node.indices))]
        [] node.op = "Einsum" ->
             LET sum    == Contracted(node, bound)
                 within == Each(LAMBDA c : DeduceIndices(c, bound \cup sum), node)
             IN  [within EXCEPT !.ok = ChildrenAgree(within),
                                !.indices = sortedIndices(Without(MergedChildren(within), sum))]
        [] node.op = "Add" ->
             [new EXCEPT !.ok = ChildrenAgree(new), !.indices = MergedChildren(new)]
        [] node.op = "ScalarMultiplication" -> [new EXCEPT !.indices = own]
        [] node.op = "SliceView" ->
             [new EXCEPT !.indices.names = own.names,
                         !.indices.size = [n \in DOMAIN own.size |->
                            IF n = node.index THEN node.end - node.start ELSE own.size[n]]]

\* visit_Assign: the target binds its indices.
RECURSIVE viewed(_)
viewed(node) == IF node.op = "SliceView" THEN viewed(term(node)) ELSE node

DeduceAssign(node) ==
  LET lhs == DeduceIndices(node.children[1], IndexSet(viewed(node.children[1]).indices))
      rhs == DeduceIndices(node.children[2], IndexSet(lhs.indices))
  IN  [node EXCEPT !.children = <<lhs, rhs>>, !.indices = lhs.indices,
                   !.ok = Contained(rhs.indices, lhs.indices)]

-----------------------------------------------------------------------------
(* EquivalentSparsityPattern *)

\* What a factor contributes is what meets the other factors.
Restricted(node) ==
  LET kept(new, c) == [new EXCEPT !.children[c].eqspp = Joined(new.children[c].indices, new.children)]
  IN  FoldLeft(kept, [node EXCEPT !.eqspp = Joined(node.indices, node.children)],
               [c \in DOMAIN node.children |-> c])

RECURSIVE EquivalentSparsityPattern(_)
EquivalentSparsityPattern(node) ==
  LET new == Each(EquivalentSparsityPattern, node)
  IN  CASE node.op = "IndexedTensor" -> [node EXCEPT !.eqspp = TensorSpp[node.tensor]]
        [] node.op = "Einsum" -> Restricted(new)
        [] OTHER -> [new EXCEPT !.eqspp = computeSparsityPattern(new)]

-----------------------------------------------------------------------------
(* StrengthReduction and FindContractions *)

\* A bounding box asks for the first and the last entry of a pattern.
EmptyFactor(kind, node) == kind = "BoundingBoxCost" /\ \E c \in children(node) : c.eqspp = {}

RECURSIVE StrengthReduction(_, _)
StrengthReduction(kind, node) ==
  LET new == Each(LAMBDA c : StrengthReduction(kind, c), node)
  IN  IF node.op # "Einsum" THEN new
      ELSE IF EmptyFactor(kind, new) THEN [new EXCEPT !.ok = FALSE]
      ELSE setIndexPermutation(strengthReduction(kind, new.children, IndexSet(node.indices), 0),
                               node.indices.names)

\* The indices of a chain of sums, and the node below it.
RECURSIVE SumIndices(_), BelowSums(_)
SumIndices(node) == IF node.op = "IndexSum" THEN {node.sumIndex} \cup SumIndices(term(node)) ELSE {}
BelowSums(node)  == IF node.op = "IndexSum" THEN BelowSums(term(node)) ELSE node

RECURSIVE FindContractions(_)
FindContractions(node) ==
  LET below == BelowSums(node)
  IN  IF node.op # "IndexSum" THEN Each(FindContractions, node)
      ELSE IF below.op # "Product" THEN node
      ELSE Contraction(node.indices, FindContractions(leftTerm(below)),
                       FindContractions(rightTerm(below)), SumIndices(node))

-----------------------------------------------------------------------------
(* ComputeOptimalFlopCount over the patterns that SetSparsityPattern sets *)

RECURSIVE SetSparsityPattern(_)
SetSparsityPattern(node) ==
  LET new == Each(SetSparsityPattern, node)
  IN  IF node.op = "IndexedTensor" THEN node
      ELSE [new EXCEPT !.eqspp = computeSparsityPattern(new)]

\* Mistake: a loop over GEMM is counted as its products alone.
nonZeroFlops_Products(node) ==
  LET n(x) == Cardinality(x.eqspp)
  IN  CASE node.op = "Add" -> FoldLeft(LAMBDA s, c : s + n(c), 0, node.children) - n(node)
        [] node.op = "ScalarMultiplication" -> IF node.scalar \in {1, Modulus - 1} THEN 0 ELSE n(node)
        [] node.op = "Product"  -> n(node)
        [] node.op = "IndexSum" -> n(term(node)) - n(node)
        [] node.op = "LoopOverGEMM" ->
             LET p == Product(leftTerm(node), rightTerm(node)) IN Cardinality(computeSparsityPattern(p))
        [] OTHER -> 0

nonZeroFlops(node) ==
  LET n(x) == Cardinality(x.eqspp)
  IN  CASE node.op = "Add" -> FoldLeft(LAMBDA s, c : s + n(c), 0, node.children) - n(node)
        [] node.op = "ScalarMultiplication" -> IF node.scalar \in {1, Modulus - 1} THEN 0 ELSE n(node)
        [] node.op = "Product"  -> n(node)
        [] node.op = "IndexSum" -> n(term(node)) - n(node)
        [] node.op = "LoopOverGEMM" ->
             LET p == Product(leftTerm(node), rightTerm(node))
             IN  2 * Cardinality(computeSparsityPattern(p)) - n(node)
        [] OTHER -> 0

RECURSIVE FlopCount(_)
FlopCount(node) == FoldLeft(LAMBDA s, c : s + FlopCount(c), nonZeroFlops(node), node.children)

-----------------------------------------------------------------------------
(* ComputeMemoryLayout *)

\* mayVectorizeDim and alignmentOffset of a layout
mayVectorizeDim(lay, d) == checkAlignment(size(lay.base.bbox[d]))
alignmentOffset(lay, d) ==
  FoldLeft(LAMBDA o, v : IF v.index = d THEN (o + v.start) % AlignedReals ELSE o, 0, lay.views)

\* A result is aligned along its first index when an operand is along it.
computeMemoryLayout(node) ==
  LET first   == node.indices.names[1]
      at(c)   == find(c.indices, first)
      vector  == IF node.indices = NoIndices THEN {}
                 ELSE {c \in DOMAIN node.children :
                         LET x == node.children[c]
                         IN  first \in IndexSet(x.indices) /\ mayVectorizeDim(x.layout, at(x))}
      offsets == {alignmentOffset(node.children[c].layout, at(node.children[c])) : c \in vector}
  IN  IF node.op = "SliceView" /\ node.index \notin IndexSet(node.indices)
      THEN [node EXCEPT !.ok = FALSE]
      ELSE IF node.op = "SliceView"
      THEN [node EXCEPT !.layout = subslice(term(node).layout, find(node.indices, node.index),
                                            node.start, node.end)]
      ELSE IF node.eqspp = {} THEN [node EXCEPT !.ok = FALSE]
      ELSE [node EXCEPT !.layout =
              fromSpp(shapeOfIndices(node.indices), boundingBox(node.eqspp), vector # {},
                      IF vector = {} THEN 0 ELSE Min(offsets))]

RECURSIVE ComputeMemoryLayout(_)
ComputeMemoryLayout(node) ==
  LET new == Each(ComputeMemoryLayout, node)
  IN  IF node.op = "IndexedTensor" \/ ~AllOk(new) THEN new
      ELSE computeMemoryLayout([new EXCEPT !.eqspp = computeSparsityPattern(new)])

-----------------------------------------------------------------------------
(* SelectIndexPermutations and ImplementContractions *)

RECURSIVE SelectIndexPermutations(_)
SelectIndexPermutations(node) ==
  LET choices == node.variants[node.indices.names].choices
      given   == [c \in DOMAIN choices |-> setIndexPermutation(node.children[c], choices[c])]
  IN  IF node.indices.names \notin DOMAIN node.variants THEN [node EXCEPT !.ok = FALSE]
      ELSE [node EXCEPT !.children = [c \in DOMAIN given |-> SelectIndexPermutations(given[c])]]

RECURSIVE ImplementContractions(_)
ImplementContractions(node) ==
  LET new == Each(ImplementContractions, node)
      log == LoG(new, leftTerm(new), rightTerm(new))
  IN  IF node.op # "Contraction" THEN new
      ELSE IF ~log.found THEN [new EXCEPT !.ok = FALSE]
      ELSE computeMemoryLayout(log.log)

-----------------------------------------------------------------------------
(* AssignPrefetch *)

\* The loops over GEMM of an expression, innermost first, as paths to them.
RECURSIVE FindPrefetchCapabilities(_, _)
FindPrefetchCapabilities(node, path) ==
  FlattenSeq([c \in DOMAIN node.children |-> FindPrefetchCapabilities(node.children[c], Append(path, c))])
    \o (IF node.op = "LoopOverGEMM" THEN <<path>> ELSE <<>>)

\* The closest size is sought, but the tensor goes to the last operation of
\* the loop, whichever was the closest; without an operation that is an error.
AssignPrefetch(node, tensors) ==
  LET caps == FindPrefetchCapabilities(node, <<>>)
      n    == Len(caps)
  IN  [raises |-> Len(tensors) > n,
       prefetch |-> [k \in {n + 1 - t : t \in DOMAIN tensors} |-> tensors[n + 1 - k]],
       caps |-> caps]
=============================================================================
