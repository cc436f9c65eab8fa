-------------------------- MODULE AST2ControlFlow --------------------------
(***************************************************************************)
(* Lowering of a kernel to its program (controlflow/visitor.py).           *)
(*                                                                         *)
(* A kernel is a list of assignments "tensor <= expression".  The visitor  *)
(* walks every expression in postorder, so the expression need not be      *)
(* stored: the kernel is chosen while it is lowered, one node per step.    *)
(* stack holds what the visit_ methods of the finished sub-expressions     *)
(* returned, together with what the sub-expression denotes; meaning holds  *)
(* the tensors as the assignments read as mathematics leave them.          *)
(***************************************************************************)
EXTENDS Program, SequencesExt

CONSTANTS
  SimpleMemoryLayouts, \* what the visitor may be created with
  TensorValues,    \* the tensors when the kernel starts
  ScalarValues,    \* scalars a kernel multiplies with
  Arities,         \* numbers of operands of the generic nodes
  AddendCounts,    \* numbers of operands of a sum
  AddendOrders,    \* what an addend may need to match the indices of the sum
  TargetOrders,    \* what a right term may need to match those of its target
  MaxAssignments,  \* bound: assignments per kernel
  MaxVisits        \* bound: nodes per kernel, the Assign nodes excluded

Conversions == SUBSET {"Permute", "Broadcast"}

ASSUME KernelAssumption ==
  /\ SimpleMemoryLayouts \subseteq BOOLEAN
  /\ TensorValues \in [Tensor -> Values]
  /\ \A n \in Tensor : Stored([cells |-> TensorCells[n]], TensorValues[n]) = TensorValues[n]
  /\ ScalarValues \subseteq Nat \ {NoScalar}
  /\ Arities \subseteq Nat \ {0}
  /\ AddendCounts \subseteq Nat \ {0, 1}
  /\ AddendOrders \subseteq Conversions
  /\ TargetOrders \subseteq Conversions
  /\ MaxAssignments \in Nat
  /\ MaxVisits \in Nat

VARIABLES  \* cfg is AST2ControlFlow._cfg: the actions emitted so far
  simpleMemoryLayout,  \* TRUE for the reference code of the unit tests
  tmp,        \* AST2ControlFlow._tmp: number of the next temporary
  writable,   \* AST2ControlFlow._writable
  stack,      \* the values of the pending visits
  target,     \* the tensor assigned by the AST being visited, or NoTarget
  meaning,    \* the tensors after the assignments visited so far
  visits,     \* nodes visited
  misplaced   \* history: an addend was converted in the place of another

lvars == <<simpleMemoryLayout, cfg, tmp, writable, stack, target, meaning, visits,
           misplaced>>

NoTarget == "none"

ASSUME TargetAssumption == NoTarget \notin Tensor

-----------------------------------------------------------------------------
(* Helpers *)

\* _ml: a dense layout of the shape for the reference code.
Layout(cells, fuse) ==
  IF simpleMemoryLayout THEN [cells |-> Cells, fuse |-> TRUE]
                        ELSE [cells |-> cells, fuse |-> fuse]

TensorVariable(n) ==
  [name |-> n, lay |-> Layout(TensorCells[n], n \in Fusable), spp |-> TensorCells[n]]

\* Mistake: _nextTemporary does not advance its counter.
Temporary_SameName(k, spp) ==
  [name |-> 0, lay |-> Layout(spp, spp = Cells), spp |-> spp]

\* The layout of a temporary is the bounding box of the pattern of its node.
Temporary(k, spp) ==
  [name |-> k, lay |-> Layout(spp, spp = Cells), spp |-> spp]

ConvertedSpp(conv, spp) ==
  LET permuted == IF "Permute" \in conv THEN PermuteSpp(spp) ELSE spp
  IN  IF "Broadcast" \in conv THEN BroadcastSpp(permuted) ELSE permuted

ConvertedValue(conv, val) ==
  LET permuted == IF "Permute" \in conv THEN PermuteValue(val) ELSE val
  IN  IF "Broadcast" \in conv THEN BroadcastValue(permuted) ELSE permuted

TransformOp(op, spp, k, var) ==
  ProgramAction(Temporary(k, spp),
                [op |-> op, args |-> <<var>>, spp |-> spp, fuse |-> FALSE],
                FALSE, NoScalar)

\* Mistake: the broadcast reads the variable and not what Permute returned.
AddPermuteIfRequired_LosesPermute(conv, spp, var, k) ==
  LET pspp   == ConvertedSpp(conv \cap {"Permute"}, spp)
      perm   == IF "Permute" \in conv
                THEN <<TransformOp("Permute", pspp, k, var)>> ELSE <<>>
      kb     == k + Len(perm)
      bcast  == IF "Broadcast" \in conv
                THEN <<TransformOp("Broadcast", BroadcastSpp(pspp), kb, var)>>
                ELSE <<>>
      all    == perm \o bcast
  IN  [code |-> all,
       var  |-> IF all = <<>> THEN var ELSE Last(all).result,
       next |-> k + Len(all)]

\* _addPermuteIfRequired(indices, term, variable): conv is what term needs to
\* match indices and spp the pattern of term; k is the next temporary.
AddPermuteIfRequired(conv, spp, var, k) ==
  LET pspp   == ConvertedSpp(conv \cap {"Permute"}, spp)
      perm   == IF "Permute" \in conv
                THEN <<TransformOp("Permute", pspp, k, var)>> ELSE <<>>
      inode  == IF perm = <<>> THEN var ELSE perm[1].result
      kb     == k + Len(perm)
      bcast  == IF "Broadcast" \in conv
                THEN <<TransformOp("Broadcast", BroadcastSpp(pspp), kb, inode)>>
                ELSE <<>>
  IN  [code |-> perm \o bcast,
       var  |-> IF bcast = <<>> THEN inode ELSE bcast[1].result,
       next |-> kb + Len(bcast)]

\* The key of variables.sort in visit_Add; the sort is stable.
IsWritable(n) == n \in writable \/ isLocal(n)
SortKey(v) ==
  (IF IsWritable(v.name) THEN 0 ELSE 1) + (IF isGlobal(v.name) THEN 0 ELSE 1)
SortedVariables(vars) ==
  LET NotAfter(l, k) == \/ SortKey(vars[l]) < SortKey(vars[k])
                        \/ SortKey(vars[l]) = SortKey(vars[k]) /\ l <= k
      place(k)       == Cardinality({l \in DOMAIN vars : NotAfter(l, k)})
  IN  [p \in DOMAIN vars |-> vars[CHOOSE k \in DOMAIN vars : place(k) = p]]

Top(n)      == SubSeq(stack, Len(stack) - n + 1, Len(stack))
Replaced(n, entry) == Append(SubSeq(stack, 1, Len(stack) - n), entry)
Field(s, f) == [k \in DOMAIN s |-> s[k][f]]

Visiting == target # NoTarget /\ visits < MaxVisits
\* A second pending operand needs a visit that consumes it.
RoomForOperand == stack # <<>> => visits + 1 < MaxVisits
AssignmentsOf(prog) == Cardinality({k \in DOMAIN prog : Def(prog[k]) \in Tensor})

-----------------------------------------------------------------------------
(* visit_Assign, up to the visit of its children *)

EnterAssign(n) ==
  /\ target = NoTarget
  /\ AssignmentsOf(cfg) < MaxAssignments
  /\ visits < MaxVisits
  /\ target' = n
  /\ writable' = writable \cup {n}
  /\ UNCHANGED <<cfg, tmp, stack, meaning, visits, misplaced, simpleMemoryLayout>>

visit_IndexedTensor(n) ==
  /\ Visiting
  /\ RoomForOperand
  /\ n \in TempTensor => \E k \in DOMAIN cfg : Def(cfg[k]) = n
  /\ stack' = Append(stack, [var  |-> TensorVariable(n),
                             node |-> "IndexedTensor",
                             val  |-> meaning[n],
                             spp  |-> TensorCells[n]])
  /\ visits' = visits + 1
  /\ UNCHANGED <<cfg, tmp, writable, target, meaning, misplaced, simpleMemoryLayout>>

\* generic_visit: an Op node over n operands into a new temporary.
generic_visit(n, fuse) ==
  /\ Visiting
  /\ Len(stack) >= n
  /\ LET args == Field(Top(n), "var")
         spp  == OpSpp(Field(Top(n), "spp"))
         res  == Temporary(tmp, spp)
     IN  /\ spp # {}
         /\ \A k \in 1 .. n : Top(n)[k].node # "ScalarMultiplication"
         /\ fuse => res.lay.fuse /\ \A k \in 1 .. n : args[k].lay.fuse
         /\ cfg' = Append(cfg, ProgramAction(res,
                       [op |-> "Op", args |-> args, spp |-> spp, fuse |-> fuse],
                       FALSE, NoScalar))
         /\ stack' = Replaced(n, [var |-> res, node |-> "Op",
                                  val |-> OpValue(Field(Top(n), "val")),
                                  spp |-> spp])
  /\ tmp' = tmp + 1
  /\ visits' = visits + 1
  /\ UNCHANGED <<writable, target, meaning, misplaced, simpleMemoryLayout>>

\* visit_Add: the indices of the sum are those of its first child, convs[k]
\* is what child k needs to match them.  The visited variables are sorted,
\* the children are not.
visit_Add(convs) ==
  LET n        == Len(convs)
      children == Top(n)
      vars     == SortedVariables(Field(children, "var"))
      spps     == [k \in 1 .. n |-> ConvertedSpp(convs[k], children[k].spp)]
      spp      == UNION {spps[k] : k \in 1 .. n}
      res      == Temporary(tmp, spp)
      emitted[k \in 0 .. n] ==
        IF k = 0 THEN [code |-> <<>>, next |-> tmp + 1]
        ELSE LET r == AddPermuteIfRequired(convs[k], children[k].spp, vars[k],
                                           emitted[k - 1].next)
             IN  [code |-> emitted[k - 1].code \o r.code
                             \o <<ProgramAction(res, VariableTerm(r.var),
                                                k > 1, NoScalar)>>,
                  next |-> r.next]
      sum[k \in 0 .. n] ==
        IF k = 0 THEN Zero
        ELSE AddValue(sum[k - 1], ConvertedValue(convs[k], children[k].val))
  IN  /\ Visiting
      /\ Len(stack) >= n
      /\ convs[1] = {}
      /\ \A k \in 1 .. n : children[k].node # "Add"
      /\ cfg' = cfg \o emitted[n].code
      /\ tmp' = emitted[n].next
      /\ stack' = Replaced(n, [var |-> res, node |-> "Add",
                               val |-> sum[n], spp |-> spp])
      /\ misplaced' = \/ misplaced
                      \/ /\ vars # Field(children, "var")
                         /\ \E k \in 1 .. n : convs[k] # {}
      /\ visits' = visits + 1
      /\ UNCHANGED <<writable, target, meaning, simpleMemoryLayout>>

visit_ScalarMultiplication(s) ==
  /\ Visiting
  /\ Len(stack) >= 1
  /\ LET child == Last(stack)
         res   == Temporary(tmp, child.spp)
     IN  /\ child.node # "ScalarMultiplication"
         /\ cfg' = Append(cfg, ProgramAction(res, VariableTerm(child.var),
                                             FALSE, s))
         /\ stack' = Replaced(1, [var |-> res, node |-> "ScalarMultiplication",
                                  val |-> ScaleValue(s, child.val),
                                  spp |-> child.spp])
  /\ tmp' = tmp + 1
  /\ visits' = visits + 1
  /\ UNCHANGED <<writable, target, meaning, misplaced, simpleMemoryLayout>>

\* visit_Assign, after its children: conv is what the right term needs to
\* match the indices of the left one.  The target stores the pattern.
LeaveAssign(conv) ==
  /\ target # NoTarget
  /\ Len(stack) = 1
  /\ LET child == stack[1]
         spp   == ConvertedSpp(conv, child.spp)
         left  == TensorVariable(target)
         r     == AddPermuteIfRequired(conv, child.spp, child.var, tmp)
     IN  /\ isCompatible(left.lay, spp)
         /\ cfg' = cfg \o r.code \o
                     <<ProgramAction(left, VariableTerm(r.var), FALSE, NoScalar)>>
         /\ tmp' = r.next
         /\ meaning' = [meaning EXCEPT ![target] = ConvertedValue(conv, child.val)]
  /\ stack' = <<>>
  /\ target' = NoTarget
  /\ UNCHANGED <<writable, visits, misplaced, simpleMemoryLayout>>

-----------------------------------------------------------------------------
LInit ==
  /\ simpleMemoryLayout \in SimpleMemoryLayouts
  /\ cfg = <<>>
  /\ tmp = 0
  /\ writable = {}
  /\ stack = <<>>
  /\ target = NoTarget
  /\ meaning = TensorValues
  /\ visits = 0
  /\ misplaced = FALSE

LNext ==
  \/ \E n \in Tensor : EnterAssign(n)
  \/ \E n \in Tensor : visit_IndexedTensor(n)
  \/ \E n \in Arities, fuse \in BOOLEAN : generic_visit(n, fuse)
  \/ \E n \in AddendCounts : \E convs \in [1 .. n -> AddendOrders] : visit_Add(convs)
  \/ \E s \in ScalarValues : visit_ScalarMultiplication(s)
  \/ \E conv \in TargetOrders : LeaveAssign(conv)

Lowered == target = NoTarget /\ cfg # <<>>

LSpec == LInit /\ [][LNext]_lvars
-----------------------------------------------------------------------------
(* Properties *)

\* Executing the actions emitted so far leaves every tensor with the value
\* the finished assignments give it, and every variable that a pending
\* expression returned with the value of that expression, unless an addend
\* was converted in the place of another (visit_Add sorts the variables and
\* indexes the children).
LoweringFaithful ==
  ~ misplaced =>
    LET mem == Run(cfg, TensorValues)
    IN  /\ \A n \in Tensor : mem[n] = meaning[n]
        /\ \A k \in DOMAIN stack : stack[k].var.name \in DOMAIN mem
                                   /\ mem[stack[k].var.name] = stack[k].val

\* The comment in DeduceIndices.visit_Add: "different addends may have
\* different permutations of said indices" -- the program of any kernel then
\* computes its assignments.
AddendsMayBePermuted ==
  Lowered => \A n \in Tensor : Run(cfg, TensorValues)[n] = meaning[n]

\* Every temporary is written by a plain action before it is read or
\* accumulated into, and plainly written only once: the passes rely on a
\* temporary having a single definition.
SingleDefinition ==
  \A k \in DOMAIN cfg :
    /\ \A n \in variables(cfg[k]) \ Tensor :
         \E j \in 1 .. k - 1 : Def(cfg[j]) = n /\ ~ isCompound(cfg[j])
    /\ Def(cfg[k]) \notin Tensor /\ ~ isCompound(cfg[k]) =>
         /\ Def(cfg[k]) < tmp
         /\ \A j \in 1 .. k - 1 : Def(cfg[j]) # Def(cfg[k])
=============================================================================
