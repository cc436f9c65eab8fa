------------------------- MODULE IndexPermutations -------------------------
(***************************************************************************)
(* The order of the indices of every operation, chosen for what its        *)
(* contractions cost as loops over GEMM (FindIndexPermutations of          *)
(* ast/visitor.py, LoG of ast/log.py, LoGCost of ast/indices.py).          *)
(*                                                                         *)
(* Among variants of the same cost the code takes the first in the order   *)
(* of the letters; CHOOSE fixes one of them, which need not be the same.   *)
(***************************************************************************)
EXTENDS Expressions

LoGCost(stride, left, right, fused) ==
  [stride |-> stride, left |-> left, right |-> right, fused |-> fused]
addIdentity == LoGCost(0, 0, 0, 0)
CostSum(a, b) == LoGCost(a.stride + b.stride, a.left + b.left, a.right + b.right, a.fused + b.fused)

\* __lt__
Cheaper(a, b) ==
  LET ta == a.left + a.right
      tb == b.left + b.right
  IN  \/ a.stride < b.stride
      \/ a.stride = b.stride /\ ta < tb
      \/ a.stride = b.stride /\ ta = tb /\ a.fused > b.fused
      \/ a.stride = b.stride /\ ta = tb /\ a.fused = b.fused /\ a.left < b.left

Cheapest(S, cost(_)) == CHOOSE x \in S : \A y \in S : ~Cheaper(cost(y), cost(x))

-----------------------------------------------------------------------------
(* A contraction as loops over GEMM *)

\* Groups of neighbouring indices that the layout can treat as one; those of
\* the rows of the result begin with its first index.
\* Mistake: the layout is not asked.
fusedVariants_AnyLayout(node, S, prune) ==
  LET X == node.indices.names
  IN  {SubSeq(X, a, b) : <<a, b>> \in
         {<<a, b>> \in (DOMAIN X) \X (DOMAIN X) :
            /\ a <= b
            /\ \A d \in a .. b : X[d] \in S
            /\ prune => a = 1}}

fusedVariants(node, S, prune) ==
  LET X == node.indices.names
  IN  {SubSeq(X, a, b) : <<a, b>> \in
         {<<a, b>> \in (DOMAIN X) \X (DOMAIN X) :
            /\ a <= b
            /\ \A d \in a .. b : X[d] \in S
            /\ prune => a = 1
            /\ mayFuse(node.layout, a .. b)}}

LoopOverGEMM(node, l, r, g) ==
  [Node("LoopOverGEMM", <<l, r>>) EXCEPT !.indices = node.indices, !.layout = node.layout,
                                         !.eqspp = node.eqspp]
    @@ [m |-> g[1], n |-> g[2], k |-> g[3]]

First(node, n) == find(node.indices, n)
transA(l, m, k) == m = <<>> \/ First(l, m[1]) > First(l, k[1])
transB(r, n, k) == n # <<>> /\ First(r, k[1]) > First(r, n[1])

cost(l, r, m, n, k) ==
  LET one(b) == IF b THEN 0 ELSE 1
      a1 == First(l, IF transA(l, m, k) THEN k[1] ELSE m[1]) = 1
      b1 == First(r, IF transB(r, n, k) THEN n[1] ELSE k[1]) = 1
  IN  LoGCost(one(a1) + one(b1), 1 - one(transA(l, m, k)), 1 - one(transB(r, n, k)),
              Len(m) + Len(n) + Len(k))

\* The factor with the first index of the result is the left one.  Indices of
\* all three are looped over.
LoG(node, a, b) ==
  LET common == IndexSet(a.indices) \cap IndexSet(b.indices) \cap IndexSet(node.indices)
      gemm   == Without(node.indices, common).names
      swap   == gemm # <<>> /\ gemm[1] \in IndexSet(b.indices)
      l      == IF swap THEN b ELSE a
      r      == IF swap THEN a ELSE b
      both(x, y) == (IndexSet(x.indices) \cap IndexSet(y.indices)) \ common
      M == fusedVariants(node, both(l, node), TRUE) \cap fusedVariants(l, both(l, node), FALSE)
      N == fusedVariants(node, both(r, node), FALSE) \cap fusedVariants(r, both(r, node), FALSE)
      K == fusedVariants(l, both(l, r), FALSE) \cap fusedVariants(r, both(l, r), FALSE)
      orNone(G) == IF G = {} THEN {<<>>} ELSE G
      costOf(g) == cost(l, r, g[1], g[2], g[3])
  IN  IF K = {} THEN [found |-> FALSE]
      ELSE LET g == Cheapest(orNone(M) \X orNone(N) \X K, costOf)
           IN  [found |-> TRUE, log |-> LoopOverGEMM(node, l, r, g), cost |-> costOf(g)]

argumentsCompatible(log) ==
  LET l == leftTerm(log)
      r == rightTerm(log)
  IN  /\ mayFuse(l.layout, positions(l.indices, ToSet(log.m)))
      /\ mayFuse(l.layout, positions(l.indices, ToSet(log.k)))
      /\ mayFuse(r.layout, positions(r.indices, ToSet(log.k)))
      /\ mayFuse(r.layout, positions(r.indices, ToSet(log.n)))

resultCompatible(log) ==
  /\ mayFuse(log.layout, positions(log.indices, ToSet(log.m)))
  /\ mayFuse(log.layout, positions(log.indices, ToSet(log.n)))

loopIndices(log) ==
  LET inner == ToSet(log.m) \cup ToSet(log.n) \cup ToSet(log.k)
  IN  Without(merged(merged(log.indices, leftTerm(log).indices), rightTerm(log).indices), inner)

-----------------------------------------------------------------------------
(* Variants: for every order of the indices of a node the least cost, and the *)
(* orders of its children for it                                              *)

Orders(I) == {p \in [DOMAIN I.names -> IndexSet(I)] : IsInjective(p)}
Variant(c, choices) == [cost |-> c, choices |-> choices]
InOrder(node, p) == setIndexPermutation([node EXCEPT !.eqspp = {}], p)

\* variantsFixedRootPermutation
FixedRoot(kids, p) ==
  LET costOf(v, i) == CostSum(v[i].cost, LoGCost(0, IF i = p THEN 0 ELSE 1, 0, 0))
      choice(c)    == LET v == c.variants IN Cheapest(DOMAIN v, LAMBDA i : costOf(v, i))
  IN  Variant(FoldLeft(LAMBDA s, c : CostSum(s, costOf(c.variants, choice(c))), addIdentity, kids),
              [c \in DOMAIN kids |-> choice(kids[c])])

\* allPermutationsNoCostBinaryOp and visit_IndexSum
AnyRoot(kids) ==
  LET choice(c) == LET v == c.variants IN Cheapest(DOMAIN v, LAMBDA i : v[i].cost)
  IN  Variant(FoldLeft(LAMBDA s, c : CostSum(s, c.variants[choice(c)].cost), addIdentity, kids),
              [c \in DOMAIN kids |-> choice(kids[c])])

ContractionVariants(node) ==
  LET l == leftTerm(node)
      r == rightTerm(node)
      left  == [p \in DOMAIN l.variants |-> InOrder(l, p)]
      right == [p \in DOMAIN r.variants |-> InOrder(r, p)]
      costOf(v) == CostSum(v.log.cost, CostSum(l.variants[v.choices[1]].cost, r.variants[v.choices[2]].cost))
      found == [c \in Orders(node.indices) |->
                  LET new == InOrder(node, c)
                  IN  {v \in {[choices |-> x, log |-> LoG(new, left[x[1]], right[x[2]])] :
                                x \in (DOMAIN left) \X (DOMAIN right)} : v.log.found}]
      best(c) == LET v == Cheapest(found[c], costOf) IN Variant(costOf(v), v.choices)
  IN  [c \in {p \in DOMAIN found : found[p] # {}} |-> best(c)]

possibleOrders(node) ==
  IF node.op \in {"Add", "Product", "IndexSum"} THEN Orders(node.indices) ELSE {node.indices.names}

RECURSIVE FindIndexPermutations(_)
FindIndexPermutations(node) ==
  LET new  == Each(FindIndexPermutations, node)
      kids == new.children
  IN  new @@ [variants |->
        CASE node.op = "Contraction" -> ContractionVariants(new)
          [] node.op = "ScalarMultiplication" ->
               LET v == kids[1].variants IN [p \in DOMAIN v |-> Variant(v[p].cost, <<p>>)]
          [] OTHER -> [p \in possibleOrders(node) |->
                         IF node.op \in {"Product", "IndexSum"} THEN AnyRoot(kids)
                         ELSE FixedRoot(kids, p)]]
=============================================================================
