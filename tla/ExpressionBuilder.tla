------------------------- MODULE ExpressionBuilder -------------------------
(***************************************************************************)
(* The overloaded operators of Node (ast/node.py), called by a program     *)
(* that gives names to what they return.  An operator may extend one of    *)
(* its operands and return that instead of a new node, so the nodes live   *)
(* on a heap and a name holds a reference.                                 *)
(*                                                                         *)
(* Next to the reference, every name keeps what the program wrote: the     *)
(* operator and its operands as nodes that nobody changes.                 *)
(***************************************************************************)
EXTENDS Expressions

CONSTANTS
  Leaves,     \* sequences of the indexed tensors a program mentions, in order
  Scalars,    \* constants of a program
  Slices,     \* [index, start, stop] of the slices of a program
  MaxCalls    \* bound on the operators of a program

VARIABLES
  heap,       \* the nodes; their children are places of the heap
  names,      \* [ref, written, from] of what every operator returned
  leaves,     \* the tensors that are still to be mentioned
  builder     \* "Open", or "Raised" when an operator raised an exception

bvars == <<heap, names, leaves, builder>>

-----------------------------------------------------------------------------
(* The operators: what they return and the heap they leave *)

Result(h, ref)  == [heap |-> h, ref |-> ref, raises |-> FALSE]
Raise(h)        == [heap |-> h, ref |-> 1, raises |-> TRUE]
New(h, node)    == Result(Append(h, node), Len(h) + 1)
IsScalarMult(h, x) == h[x].op = "ScalarMultiplication"

binOp(h, x, y, op) ==
  IF h[x].op = op
  THEN Result([h EXCEPT ![x].children = IF h[y].op = op THEN @ \o h[y].children
                                        ELSE Append(@, y)], x)
  ELSE IF h[y].op = op THEN Result([h EXCEPT ![y].children = <<x>> \o @], y)
  ELSE New(h, Node(op, <<x, y>>))

times(h, x, y) ==
  LET setTerm(s, r) == Result([r.heap EXCEPT ![s].children = <<r.ref>>], s)
  IN  IF IsScalarMult(h, x) /\ IsScalarMult(h, y) THEN Raise(h)
      ELSE IF IsScalarMult(h, x) THEN setTerm(x, binOp(h, h[x].children[1], y, "Einsum"))
      ELSE IF IsScalarMult(h, y) THEN setTerm(y, binOp(h, x, h[y].children[1], "Einsum"))
      ELSE binOp(h, x, y, "Einsum")

scaled(h, s, x) == IF IsScalarMult(h, x) THEN Raise(h) ELSE New(h, ScalarMultiplication(s, x))

Negative == Modulus - 1  \* -1.0

\* Mistake: the negated operand is the first addend.
minus_NegatedFirst(h, x, y) ==
  LET negated == scaled(h, Negative, y)
  IN  IF negated.raises THEN negated ELSE binOp(negated.heap, negated.ref, x, "Add")

\* self._binOp(-other, Add)
minus(h, x, y) ==
  LET negated == scaled(h, Negative, y)
  IN  IF negated.raises THEN negated ELSE binOp(negated.heap, x, negated.ref, "Add")

Operator(h, op, x, y) ==
  CASE op = "*" -> times(h, x, y)
    [] op = "+" -> binOp(h, x, y, "Add")
    [] op = "-" -> minus(h, x, y)

\* What the program wrote.
Written(op, x, y) ==
  CASE op = "*" -> Node("Einsum", <<x, y>>)
    [] op = "+" -> Node("Add", <<x, y>>)
    [] op = "-" -> Node("Add", <<x, ScalarMultiplication(Negative, y)>>)

-----------------------------------------------------------------------------
(* The program *)

\* An operand is a name, or the next tensors that are mentioned.
Mention(k)     == heap \o SubSeq(leaves, 1, k)
Fresh(k, new)  == [ref |-> Len(heap) + k, written |-> new[Len(heap) + k], from |-> 0]
Operands(k)    == [n \in 1 .. Len(names) + k |->
                     IF n <= Len(names) THEN [names[n] EXCEPT !.from = n]
                     ELSE Fresh(n - Len(names), Mention(k))]

Bind(r, written, from) ==
  /\ builder' = IF r.raises THEN "Raised" ELSE "Open"
  /\ heap' = r.heap
  /\ names' = IF r.raises THEN names
              ELSE Append(names, [ref |-> r.ref, written |-> written, from |-> from])

BInit ==
  /\ leaves \in Leaves
  /\ heap = <<>>
  /\ names = <<>>
  /\ builder = "Open"

CanCall == builder = "Open" /\ Len(names) < MaxCalls

\* x op y; every one of the k new tensors is an operand.
Call(op, k) ==
  /\ CanCall
  /\ \E x \in DOMAIN Operands(k), y \in DOMAIN Operands(k) :
       LET l == Operands(k)[x]
           r == Operands(k)[y]
       IN  /\ Len(names) + 1 .. Len(names) + k \subseteq {x, y}
           /\ x > Len(names) /\ y > Len(names) => x < y
           /\ Bind(Operator(Mention(k), op, l.ref, r.ref),
                   Written(op, l.written, r.written), <<l.from, r.from>>)
  /\ leaves' = SubSeq(leaves, k + 1, Len(leaves))

Multiply(k) == Call("*", k)
Plus(k)     == Call("+", k)
Subtract(k) == Call("-", k)

\* s * x and -x
Scaled(s, k) ==
  /\ CanCall
  /\ \E x \in DOMAIN Operands(k) :
       LET l == Operands(k)[x]
       IN  /\ k = 1 => x > Len(names)
           /\ Bind(scaled(Mention(k), s, l.ref), ScalarMultiplication(s, l.written), <<l.from>>)
  /\ leaves' = SubSeq(leaves, k + 1, Len(leaves))

\* x.subslice(index, start, end) and x.subselect(index, start)
Subslice(s, k) ==
  /\ CanCall
  /\ \E x \in DOMAIN Operands(k) :
       LET l == Operands(k)[x]
       IN  /\ k = 1 => x > Len(names)
           /\ SizesOf(l.written, s.index) # {}
           /\ \A z \in SizesOf(l.written, s.index) : s.stop <= z
           /\ Bind(New(Mention(k), SliceView(l.ref, s.index, s.start, s.stop)),
                   SliceView(l.written, s.index, s.start, s.stop), <<l.from>>)
  /\ leaves' = SubSeq(leaves, k + 1, Len(leaves))

BNext ==
  \/ \E k \in 0 .. Min({2, Len(leaves)}) : Multiply(k) \/ Plus(k) \/ Subtract(k)
  \/ \E s \in Scalars \cup {Negative}, k \in 0 .. Min({1, Len(leaves)}) : Scaled(s, k)
  \/ \E s \in Slices, k \in 0 .. Min({1, Len(leaves)}) : Subslice(s, k)

BSpec == BInit /\ [][BNext]_bvars

-----------------------------------------------------------------------------
(* Nodes of the heap as expressions *)

RECURSIVE Below(_, _, _)
Below(h, S, seen) ==
  IF S \subseteq seen THEN seen
  ELSE Below(h, UNION {ToSet(h[x].children) : x \in S \ seen}, seen \cup S)

\* A node that is among its own descendants has no end.
Cyclic(h, ref) == \E x \in Below(h, {ref}, {}) :
                     x \in Below(h, ToSet(h[x].children), {})

RECURSIVE Tree(_, _)
Tree(h, ref) == Each(LAMBDA c : Tree(h, c), h[ref])

\* The names an expression was made from, and whether each was an operand once.
RECURSIVE History(_)
History(n) == {n} \cup UNION {History(m) : m \in ToSet(names[n].from) \ {0}}

Uses(n) == Cardinality({<<m, a>> \in (DOMAIN names) \X (1 .. 2) :
                          a \in DOMAIN names[m].from /\ names[m].from[a] = n})
UsedOnce(n) == Uses(n) = 0 /\ \A m \in History(n) \ {n} : Uses(m) = 1

\* A number for what an expression does to its tensors, whatever the indices.
RECURSIVE Shape(_)
Shape(node) ==
  CASE node.op = "Add"    -> FoldLeft(LAMBDA s, c : (s + Shape(c)) % Modulus, 0, node.children)
    [] node.op = "Einsum" -> FoldLeft(LAMBDA s, c : (s * Shape(c)) % Modulus, 1, node.children)
    [] node.op = "ScalarMultiplication" -> (node.scalar * Shape(term(node))) % Modulus
    [] node.op = "SliceView" -> (Shape(term(node)) + node.start + 1) % Modulus
    [] OTHER -> TensorValue[node.tensor][[d \in DOMAIN node.indices.names |-> 0]]

\* The tensors of an expression in the order of its operands, which decides the
\* order of the indices of a sum and the left factor of a product.
RECURSIVE Mentions(_)
Mentions(node) ==
  IF node.op = "IndexedTensor" THEN <<node>>
  ELSE FlattenSeq([c \in DOMAIN node.children |-> Mentions(node.children[c])])

-----------------------------------------------------------------------------
(* Properties *)

\* The operators change their operands in place, yet an expression whose parts
\* are operands once, as in one written formula, is what the program wrote: it
\* does the same to its tensors, in the order in which they were written
\* (Node._binOp, Node.__sub__, ScalarMultiplication.setTerm).
OperandsOnce ==
  \A n \in DOMAIN names :
    LET built == Tree(heap, names[n].ref)
    IN  UsedOnce(n) => /\ ~Cyclic(heap, names[n].ref)
                       /\ Shape(built) = Shape(names[n].written)
                       /\ Mentions(built) = Mentions(names[n].written)
=============================================================================
