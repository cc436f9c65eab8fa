------------------------- MODULE StrengthReduction -------------------------
(***************************************************************************)
(* The order in which the factors of an einsum are multiplied              *)
(* (ast/opt.py) under the estimates of its cost (ast/cost.py).             *)
(*                                                                         *)
(* Factors are numbered from 1: the argument split counts the factors      *)
(* that are not taken as the second of a product any more.                 *)
(***************************************************************************)
EXTENDS Expressions

Volume(ranges) == FoldFunction(LAMBDA r, v : size(r) * v, 1, ranges)
Intersection(r, s) == Interval(Max({r.start, s.start}), Min({r.stop, s.stop}))

NamedBox(node) ==
  [n \in IndexSet(node.indices) |-> boundingBox(node.eqspp)[find(node.indices, n)]]
FullBox(I) == [n \in IndexSet(I) |-> Interval(0, I.size[n])]

\* What an estimator keeps of a node: its cost with all that is below, and the
\* ranges or the pattern it goes on with.  Everything but products and sums
\* costs nothing itself.
RECURSIVE estimate(_, _)
estimate(kind, node) ==
  LET below == Mapped(LAMBDA c : estimate(kind, c), node.children)
      costs == FoldLeft(LAMBDA s, b : s + b.cost, 0, below)
      l == below[1]
      r == Last(below)
      box ==
        CASE node.op = "Product" ->
               [n \in IndexSet(node.indices) |->
                  CASE n \in DOMAIN l.box /\ n \in DOMAIN r.box -> Intersection(l.box[n], r.box[n])
                    [] n \in DOMAIN l.box -> l.box[n]
                    [] OTHER -> r.box[n]]
          [] node.op = "IndexSum" -> [n \in IndexSet(node.indices) |-> l.box[n]]
          [] kind = "ShapeCost" -> FullBox(node.indices)
          [] OTHER -> NamedBox(node)
      spp ==
        IF kind # "ExactCost" THEN {}
        ELSE IF node.op \in {"Product", "IndexSum"}
        THEN Joined(node.indices, [c \in DOMAIN below |-> [node.children[c] EXCEPT !.eqspp = below[c].spp]])
        ELSE node.eqspp
      points(b, s) == IF kind = "ExactCost" THEN Cardinality(s) ELSE Volume(b)
  IN  [cost |-> costs + (CASE node.op = "Product" -> points(box, spp)
                           [] node.op = "IndexSum" -> points(l.box, l.spp) - points(box, spp)
                           [] OTHER -> 0),
       box  |-> IF kind = "ExactCost" THEN FullBox(node.indices) ELSE box,
       spp  |-> spp]

\* Mistake: the factors after this one are not looked at.
Alone_Before(terms, target, i) ==
  {n \in IndexSet(terms[i].indices) \ target :
     \A j \in 1 .. i : n \in IndexSet(terms[j].indices) => j = i}

\* Indices of one factor alone that the target does not have.
Alone(terms, target, i) ==
  {n \in IndexSet(terms[i].indices) \ target :
     \A j \in DOMAIN terms : n \in IndexSet(terms[j].indices) => j = i}

Without2(terms, p) == RemoveAt(RemoveAt(terms, p[2]), p[1])

\* A factor is summed over such an index at once, and moves to the end.
RECURSIVE Summed(_, _, _)
Summed(terms, target, split) ==
  LET ready == {i \in split + 1 .. Len(terms) : Alone(terms, target, i) # {}}
      i     == Min(ready)
  IN  IF ready = {} THEN terms
      ELSE Summed(Append(RemoveAt(terms, i), IndexSum(terms[i], Min(Alone(terms, target, i)))),
                  target, split)

\* The loop of sums does not end when one of the first factors has such an index.
Endless(terms, target, split) == \E i \in 1 .. split : Alone(terms, target, i) # {}

Pairs(n, split) ==
  LET from(i) == Max({i, split})
  IN  FlattenSeq([i \in 1 .. n - 1 |-> [d \in 1 .. n - from(i) |-> <<i, from(i) + d>>]])

\* Mistake: minCost is the cost of the product and not of the tree it leads to.
RECURSIVE strengthReduction_Greedy(_, _, _, _)
strengthReduction_Greedy(kind, terms, target, split) ==
  LET s == Summed(terms, target, split)
      try(best, p) ==
        LET product == Product(s[p[1]], s[p[2]])
            tree    == strengthReduction_Greedy(kind, Append(Without2(s, p), product), target,
                                                p[2] - 2)
            cost    == estimate(kind, product).cost
        IN  IF best.found /\ cost >= best.cost THEN best
            ELSE [found |-> TRUE, tree |-> tree, cost |-> cost]
  IN  IF Endless(terms, target, split) THEN [terms[1] EXCEPT !.ok = FALSE]
      ELSE IF Len(s) = 1 THEN s[1]
      ELSE FoldLeft(try, [found |-> FALSE, tree |-> s[1], cost |-> 0], Pairs(Len(s), split)).tree

\* Products that begin dearer than the best tree so far are not followed.
RECURSIVE strengthReduction(_, _, _, _)
strengthReduction(kind, terms, target, split) ==
  LET s == Summed(terms, target, split)
      try(best, p) ==
        LET product == Product(s[p[1]], s[p[2]])
            tree    == strengthReduction(kind, Append(Without2(s, p), product), target,
                                         p[2] - 2)
            cost    == estimate(kind, tree).cost
        IN  IF \/ best.found /\ estimate(kind, product).cost >= best.cost
               \/ best.found /\ cost >= best.cost
            THEN best ELSE [found |-> TRUE, tree |-> tree, cost |-> cost]
  IN  IF Endless(terms, target, split) THEN [terms[1] EXCEPT !.ok = FALSE]
      ELSE IF Len(s) = 1 THEN s[1]
      ELSE FoldLeft(try, [found |-> FALSE, tree |-> s[1], cost |-> 0], Pairs(Len(s), split)).tree

\* The least cost over all orders of the products, for comparison.
RECURSIVE LeastCost(_, _, _)
LeastCost(kind, terms, target) ==
  LET s == Summed(terms, target, 0)
  IN  IF Len(s) = 1 THEN estimate(kind, s[1]).cost
      ELSE Min({LeastCost(kind, Append(Without2(s, p), Product(s[p[1]], s[p[2]])), target) :
                  p \in ToSet(Pairs(Len(s), 0))})
=============================================================================
