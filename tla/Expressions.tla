---------------------------- MODULE Expressions ----------------------------
(***************************************************************************)
(* The nodes of a tensor expression (ast/node.py), their indices           *)
(* (ast/indices.py), their sparsity patterns (aspp.py) and what they       *)
(* compute.  A node is a record with its children, so that a definition    *)
(* over an expression descends through the children.                       *)
(*                                                                         *)
(* The names of indices are numbers, whose order is that of the letters.   *)
(* A sparsity pattern is the set of the cells, tuples of positions from 0  *)
(* in the order of the indices of the node.                                *)
(***************************************************************************)
EXTENDS MemoryLayout

CONSTANTS
  TensorShape,   \* the shape of every tensor
  TensorSpp,     \* its pattern, as a set of cells
  TensorLayout,  \* its memory layout
  TensorValue,   \* a number for every cell
  Modulus        \* a prime: sums and products are taken modulo it

ASSUME ModulusAssumption == Modulus \in Nat \ {0, 1}

-----------------------------------------------------------------------------
(* Indices: names in order, and the size of each *)

Indices(names, shape) ==
  [names |-> names,
   size  |-> [n \in ToSet(names) |-> shape[CHOOSE d \in DOMAIN names : names[d] = n]]]

NoIndices == Indices(<<>>, <<>>)
IndexSet(I) == ToSet(I.names)
shapeOfIndices(I) == [d \in DOMAIN I.names |-> I.size[I.names[d]]]

Ordered(I, names) == [names |-> names, size |-> [n \in ToSet(names) |-> I.size[n]]]
find(I, n)        == CHOOSE d \in DOMAIN I.names : I.names[d] = n
positions(I, S)   == {find(I, n) : n \in S}

Contained(I, J) ==
  IndexSet(I) \subseteq IndexSet(J) /\ \A n \in IndexSet(I) : I.size[n] = J.size[n]

Without(I, S) == Ordered(I, SelectSeq(I.names, LAMBDA n : n \notin S))
Only(I, S)    == Ordered(I, SelectSeq(I.names, LAMBDA n : n \in S))

\* merged, and mergeStrict for overlapping indices
merged(I, J) ==
  LET new == SelectSeq(J.names, LAMBDA n : n \notin IndexSet(I))
  IN  [names |-> I.names \o new,
       size  |-> I.size @@ J.size]

SizesAgree(I, J) == \A n \in IndexSet(I) \cap IndexSet(J) : I.size[n] = J.size[n]
sortedIndices(I) == Ordered(I, SelectSeq([n \in 1 .. Max(IndexSet(I) \cup {0}) |-> n], LAMBDA n : n \in IndexSet(I)))

\* The index values a set of indices runs over, and those that extend env.
Envs(sizes)       == {e \in [DOMAIN sizes -> UNION {0 .. sizes[n] - 1 : n \in DOMAIN sizes}] :
                        \A n \in DOMAIN sizes : e[n] < sizes[n]}
Extended(env, sizes) == {[n \in DOMAIN env \cup DOMAIN sizes |->
                            IF n \in DOMAIN sizes THEN e[n] ELSE env[n]] : e \in Envs(sizes)}
CellOf(I, env)    == [d \in DOMAIN I.names |-> env[I.names[d]]]
Moved(env, n, by) == [x \in DOMAIN env |-> env[x] + (IF x = n THEN by ELSE 0)]
AllCells(I)       == {CellOf(I, e) : e \in Envs(I.size)}

-----------------------------------------------------------------------------
(* Nodes *)

NoLayout == Layout(DenseLayout(<<>>, <<>>, FALSE))

Node(op, children) ==
  [op |-> op, children |-> children, indices |-> NoIndices, eqspp |-> {}, layout |-> NoLayout,
   ok |-> TRUE]

IndexedTensor(t, names) ==
  [Node("IndexedTensor", <<>>) EXCEPT !.indices = Indices(names, TensorShape[t]),
     !.layout = TensorLayout[t]] @@ [tensor |-> t]

ScalarMultiplication(scalar, term) ==
  Node("ScalarMultiplication", <<term>>) @@ [scalar |-> scalar]
SliceView(term, index, start, end) ==
  Node("SliceView", <<term>>) @@ [index |-> index, start |-> start, end |-> end]

children(node)    == {node.children[c] : c \in DOMAIN node.children}
leftTerm(node)    == node.children[1]
rightTerm(node)   == Last(node.children)
term(node)        == node.children[1]
Mapped(f(_), seq) == [x \in DOMAIN seq |-> f(seq[x])] \o <<>>
Each(f(_), node)  == [node EXCEPT !.children = Mapped(f, @)]

\* The sizes that an index has in an expression, before indices are deduced.
RECURSIVE SizesOf(_, _)
SizesOf(node, n) ==
  CASE node.op = "IndexedTensor" -> IF n \in IndexSet(node.indices) THEN {node.indices.size[n]} ELSE {}
    [] node.op = "SliceView" /\ node.index = n -> {node.end - node.start}
    [] OTHER -> UNION {SizesOf(node.children[c], n) : c \in DOMAIN node.children}

\* Tensors and slices of them keep their order of indices.
RECURSIVE fixedIndexPermutation(_)
fixedIndexPermutation(node) ==
  CASE node.op \in {"IndexedTensor", "SliceView"} -> TRUE
    [] node.op = "ScalarMultiplication" -> fixedIndexPermutation(term(node))
    [] OTHER -> FALSE

Product(l, r) ==
  [Node("Product", <<l, r>>) EXCEPT !.indices = merged(l.indices, Without(r.indices, IndexSet(l.indices)))]

IndexSum(t, n) ==
  [Node("IndexSum", <<t>>) EXCEPT !.indices = Without(t.indices, {n})] @@ [sumIndex |-> n]

Contraction(indices, l, r, sumIndices) ==
  [Node("Contraction", <<l, r>>) EXCEPT !.indices = indices] @@ [sumIndices |-> sumIndices]

setIndexPermutation(node, names) ==
  LET p == [d \in DOMAIN names |-> find(node.indices, names[d])]
  IN  IF names = node.indices.names THEN node
      ELSE [node EXCEPT !.indices = Ordered(@, names),
                        !.eqspp = {[d \in DOMAIN p |-> c[p[d]]] : c \in @},
                        !.layout = IF @ = NoLayout THEN @ ELSE permuted(@, p),
                        !.ok = @ /\ ~fixedIndexPermutation(node)]

-----------------------------------------------------------------------------
(* Patterns *)

boundingBox(spp) == [d \in DOMAIN (CHOOSE c \in spp : TRUE) |->
                       Interval(Min({c[d] : c \in spp}), Max({c[d] : c \in spp}) + 1)]

\* Node.permute and Node.broadcast: the cells whose share of the indices is
\* in the pattern.
Spread(I, J, spp) == {CellOf(I, e) : e \in {x \in Envs(I.size) : CellOf(J, x) \in spp}}

\* The cells of a pattern as index values, and where two patterns meet.
Points(node) == {[n \in IndexSet(node.indices) |-> c[find(node.indices, n)]] : c \in node.eqspp}
Meet(P, Q)   == {x[1] @@ x[2] : x \in {x \in P \X Q : \A n \in DOMAIN x[1] \cap DOMAIN x[2] :
                                                          x[1][n] = x[2][n]}}

\* What is left of the product of terms when all but the indices I are summed.
Joined(I, terms) ==
  {CellOf(I, e) : e \in FoldLeft(LAMBDA P, t : Meet(P, Points(t)), {<<>>}, terms)}

Sliced(node) ==
  {CellOf(node.indices, Moved(e, node.index, 0 - node.start)) :
     e \in {x \in Points(term(node)) : node.index \in DOMAIN x =>
                                         x[node.index] \in node.start .. node.end - 1}}

\* Mistake: only the first addend has a pattern.
computeSparsityPattern_FirstAddend(node) ==
  CASE node.op \in {"Add", "Assign", "Permute", "Broadcast"} ->
         Spread(node.indices, Last(node.children).indices, Last(node.children).eqspp)
    [] node.op = "ScalarMultiplication" -> term(node).eqspp
    [] node.op = "SliceView" -> Sliced(node)
    [] OTHER -> Joined(node.indices, node.children)

computeSparsityPattern(node) ==
  CASE node.op = "Add" ->
         UNION {Spread(node.indices, c.indices, c.eqspp) : c \in children(node)}
    [] node.op \in {"Assign", "Permute", "Broadcast"} ->
         Spread(node.indices, rightTerm(node).indices, rightTerm(node).eqspp)
    [] node.op = "ScalarMultiplication" -> term(node).eqspp
    [] node.op = "SliceView" -> Sliced(node)
    [] OTHER -> Joined(node.indices, node.children)  \* products, sums, contractions

-----------------------------------------------------------------------------
(* What a node computes for the index values env: the einsum of its terms,  *)
(* their sum, or a multiple.  Only the cells of its pattern are computed if *)
(* masked is TRUE.                                                          *)

SumOf(S, f(_))     == FoldSet(LAMBDA e, s : (s + f(e)) % Modulus, 0, S)
ProductOf(seq)     == FoldLeft(LAMBDA x, y : (x * y) % Modulus, 1, seq)

RECURSIVE Compute(_, _, _)
Compute(node, env, masked) ==
  LET value(c, e) == Compute(c, [n \in IndexSet(c.indices) |-> e[n]], masked)
      summed      == FoldLeft(LAMBDA J, c : merged(J, c.indices), NoIndices, node.children).size
  IN  IF masked /\ CellOf(node.indices, env) \notin node.eqspp THEN 0
      ELSE CASE node.op = "IndexedTensor" ->
                  LET c == CellOf(node.indices, env)
                  IN  IF c \in TensorSpp[node.tensor] THEN TensorValue[node.tensor][c] ELSE 0
             [] node.op = "SliceView" ->
                  value(term(node), Moved(env, node.index, node.start))
             [] node.op = "ScalarMultiplication" ->
                  (node.scalar * value(term(node), env)) % Modulus
             [] node.op = "Add" ->
                  FoldLeft(LAMBDA s, c : (s + value(c, env)) % Modulus, 0, node.children)
             [] node.op \in {"Assign", "Permute", "Broadcast"} -> value(rightTerm(node), env)
             [] OTHER ->
                  SumOf(Extended(env, [n \in DOMAIN summed \ DOMAIN env |-> summed[n]]),
                        LAMBDA e : ProductOf([c \in DOMAIN node.children |->
                                                value(node.children[c], e)]))
=============================================================================
