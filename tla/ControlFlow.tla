---------------------------- MODULE ControlFlow ----------------------------
(***************************************************************************)
(* The intermediate representation of a kernel (controlflow/graph.py) and  *)
(* what the emitted statements do.                                         *)
(*                                                                         *)
(* A kernel is lowered to a straight-line program, a sequence of           *)
(* ProgramActions                                                          *)
(*     result  [+]=  scalar * term                                         *)
(* over variables.  Variables are compared by name only; the name of a     *)
(* tensor is a model value, the name of the temporary _tmp<k> is the       *)
(* number k.  An occurrence of a variable carries its memory layout (a     *)
(* function of the name) and the equivalent sparsity pattern of the node   *)
(* it was made for.                                                        *)
(*                                                                         *)
(* A tensor value is abstracted to two cells.  That is enough to tell a    *)
(* transposed operand, a cell a layout does not store and a lost update    *)
(* from the right result: cells hold numbers modulo Modulus, and the       *)
(* operations of the expression nodes are arbitrary functions that map     *)
(* zero cells to zero cells.                                               *)
(***************************************************************************)
EXTENDS Integers, Sequences

CONSTANTS
  Global,      \* names of the tensors of the kernel that are not temporary
  TempTensor,  \* names of the tensors declared temporary (Tensor.temporary)
  TensorCells, \* the cells a tensor's memory layout stores
  Fusable,     \* the tensors whose layout may fuse the indices of a GEMM
  Modulus      \* cells are numbers modulo Modulus

Tensor == Global \cup TempTensor
Cells  == {1, 2}

ASSUME NamesAssumption ==
  /\ Global \cap TempTensor = {}
  /\ Tensor \cap Nat = {}

ASSUME ValuesAssumption ==
  /\ TensorCells \in [Tensor -> (SUBSET Cells) \ {{}}]
  /\ Fusable \subseteq Tensor
  /\ Modulus \in Nat \ {0, 1}

-----------------------------------------------------------------------------
(* Variables and their memory layouts *)

Name    == Tensor \cup Nat
Layouts == [cells: SUBSET Cells, fuse: BOOLEAN]

\* Variable: an occurrence of a variable in an action.
Variables == [name: Name, lay: Layouts, spp: SUBSET Cells]

isGlobal(n) == n \in Global

\* A tensor that was declared temporary is neither global nor local.
isLocal(n)  == n \notin Tensor

\* MemoryLayout.isCompatible: the layout stores every cell of the pattern.
isCompatible(lay, spp) == spp \subseteq lay.cells

-----------------------------------------------------------------------------
(* Terms: a variable, or an Expression of a node over variables.  fuse says  *)
(* that the node is a GEMM over fused indices.                               *)

NodeOps  == {"Op", "Permute", "Broadcast"}
Terms    == [op: NodeOps \cup {"Variable"}, args: Seq(Variables),
             spp: SUBSET Cells, fuse: BOOLEAN]
NoScalar == 0

VariableTerm(v) ==
  [op |-> "Variable", args |-> <<v>>, spp |-> v.spp, fuse |-> FALSE]

isRHSVariable(a)   == a.term.op = "Variable"
isRHSExpression(a) == ~ isRHSVariable(a)
rhs(a)             == a.term.args[1]  \* of an action with isRHSVariable

Substituted(v, when, by) == IF v.name = when.name THEN by ELSE v

TermSubstituted(t, when, by) ==
  LET args == [k \in DOMAIN t.args |-> Substituted(t.args[k], when, by)]
  IN  [t EXCEPT !.args = args,
                !.spp  = IF t.op = "Variable" THEN args[1].spp ELSE @]

\* The layouts of the replaced arguments still hold what the node reads, and
\* the node's GEMM may still fuse its indices.
TermMaySubstitute(t, when, by) ==
  LET args == TermSubstituted(t, when, by).args
  IN  /\ \A k \in DOMAIN args : isCompatible(args[k].lay, t.args[k].spp)
      /\ t.fuse => \A k \in DOMAIN args : args[k].lay.fuse

resultCompatible(t, result) ==
  /\ isCompatible(result.lay, t.spp)
  /\ t.fuse => result.lay.fuse

-----------------------------------------------------------------------------
(* ProgramAction *)

Scalars == Nat
Actions == [result: Variables, term: Terms, add: BOOLEAN, scalar: Scalars]

ProgramAction(result, term, add, scalar) ==
  [result |-> result, term |-> term, add |-> add, scalar |-> scalar]

isCompound(a)       == a.add
hasTrivialScalar(a) == a.scalar \in {NoScalar, 1}

Def(a)       == a.result.name
TermNames(t) == {t.args[k].name : k \in DOMAIN t.args}

\* Mistake: the operands only; a compound action reads its result too.
variables_TermOnly(a) == TermNames(a.term)

\* ProgramAction.variables(): what the statement reads.
variables(a) == TermNames(a.term) \cup (IF a.add THEN {a.result.name} ELSE {})

MaySubstitute(a, when, by, inResult, inTerm) ==
  LET r == IF inResult THEN Substituted(a.result, when, by) ELSE a.result
      t == IF inTerm THEN TermSubstituted(a.term, when, by) ELSE a.term
  IN  /\ inTerm => TermMaySubstitute(a.term, when, by)
      /\ inResult => isCompatible(Substituted(a.result, when, by).lay, a.result.spp)
      /\ resultCompatible(t, r)

ActionSubstituted(a, when, by, inResult, inTerm) ==
  [a EXCEPT
     !.result = IF inResult THEN Substituted(@, when, by) ELSE @,
     !.term   = IF inTerm THEN TermSubstituted(@, when, by) ELSE @]

-----------------------------------------------------------------------------
(* Values and the effect of the emitted statements *)

Values == [Cells -> 0 .. Modulus - 1]
Zero   == [c \in Cells |-> 0]

\* A node that is lowered by generic_visit: a contraction, a product, a sum
\* over an index.  An arbitrary function that is not symmetric in its
\* arguments and is zero where one of them is.
OpValue(vals) ==
  LET prod[k \in 0 .. Len(vals)] ==
        IF k = 0 THEN [c \in Cells |-> 1]
        ELSE [c \in Cells |->
                (prod[k - 1][c] * vals[k][c] * (vals[k][c] + k)) % Modulus]
  IN  prod[Len(vals)]
OpSpp(spps) == {c \in Cells : \A k \in DOMAIN spps : c \in spps[k]}

\* Permute reorders the indices of its operand, Broadcast copies it along
\* the indices it lacks.
PermuteValue(v)   == [c \in Cells |-> v[3 - c]]
PermuteSpp(spp)   == {3 - c : c \in spp}
BroadcastValue(v) == [c \in Cells |-> (v[1] + 2 * v[2]) % Modulus]
BroadcastSpp(spp) == IF spp = {} THEN {} ELSE Cells

AddValue(v, w)   == [c \in Cells |-> (v[c] + w[c]) % Modulus]
ScaleValue(s, v) == [c \in Cells |-> (s * v[c]) % Modulus]

\* What a layout keeps of a value that is written to it.
Stored(lay, v) == [c \in Cells |-> IF c \in lay.cells THEN v[c] ELSE 0]

TermValue(t, mem) ==
  LET vals == [k \in DOMAIN t.args |-> mem[t.args[k].name]]
  IN  CASE t.op = "Variable"  -> vals[1]
        [] t.op = "Op"        -> OpValue(vals)
        [] t.op = "Permute"   -> PermuteValue(vals[1])
        [] t.op = "Broadcast" -> BroadcastValue(vals[1])

\* One emitted statement: beta = 1 for a compound action and 0 otherwise,
\* alpha the scalar of the action.
Emitted(a, mem) ==
  LET alpha == IF a.scalar = NoScalar THEN 1 ELSE a.scalar
      value == ScaleValue(alpha, TermValue(a.term, mem))
      sum   == IF a.add THEN AddValue(mem[a.result.name], value) ELSE value
  IN  [mem EXCEPT ![a.result.name] = Stored(a.result.lay, sum)]

Temporaries(prog) ==
  (UNION {variables(prog[k]) \cup {Def(prog[k])} : k \in DOMAIN prog}) \ Tensor

\* The memory in which a kernel starts: temporaries are not initialised.
Uninitialised == [c \in Cells |-> Modulus - c]
Loaded(prog, tensors) ==
  [n \in Tensor \cup Temporaries(prog) |->
     IF n \in Tensor THEN tensors[n] ELSE Uninitialised]

\* The memory after the first k statements of the program.
Run(prog, tensors) ==
  LET run[k \in 0 .. Len(prog)] ==
        IF k = 0 THEN Loaded(prog, tensors) ELSE Emitted(prog[k], run[k - 1])
  IN  run[Len(prog)]

-----------------------------------------------------------------------------
(* LivenessAnalysis as a function of the program.  live[k] is the set of     *)
(* names live before action k; nothing is live at the final ProgramPoint.   *)

Liveness(prog) ==
  LET n == Len(prog)
      back[k \in 0 .. n] ==  \* k points from the end
        IF k = 0 THEN {}
        ELSE LET a == prog[n + 1 - k]
             IN  (back[k - 1] \ {Def(a)}) \cup variables(a)
  IN  [j \in 1 .. n + 1 |-> back[n + 1 - j]]

\* The equations that LivenessAnalysis solves.
LivenessOf(prog, live) ==
  /\ live \in [1 .. Len(prog) + 1 -> SUBSET Name]
  /\ live[Len(prog) + 1] = {}
  /\ \A k \in 1 .. Len(prog) :
       live[k] = (live[k + 1] \ {Def(prog[k])}) \cup variables(prog[k])

\* The reference definition: n is read at or after k before it is overwritten.
UpwardExposed(prog, k) ==
  {n \in UNION {variables(prog[j]) : j \in DOMAIN prog} :
     \E j \in k .. Len(prog) :
        /\ n \in variables(prog[j])
        /\ \A m \in k .. j - 1 : Def(prog[m]) # n}

\* An Expression writes its result while it reads its arguments, and what it
\* accesses has the layout its node was made for.
NoAliasing(a) == isRHSExpression(a) => Def(a) \notin TermNames(a.term)
WellPlaced(a) ==
  /\ resultCompatible(a.term, a.result)
  /\ \A k \in DOMAIN a.term.args :
       isCompatible(a.term.args[k].lay, a.term.args[k].spp)
  /\ a.term.fuse => \A k \in DOMAIN a.term.args : a.term.args[k].lay.fuse
=============================================================================
