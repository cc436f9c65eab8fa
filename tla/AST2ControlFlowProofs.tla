------------------------ MODULE AST2ControlFlowProofs ------------------------
(***************************************************************************)
(* The lowering of kernels of any size: what the visitor emits is a        *)
(* program that the passes may be given, and it computes what the kernel   *)
(* says.                                                                   *)
(***************************************************************************)
EXTENDS AST2ControlFlow, ControlFlowProofs, FiniteSetTheorems, SequenceTheorems

-----------------------------------------------------------------------------
(* What the lowering makes of a kernel, and what the passes need of it *)

occurrences(a) == {a.term.args[l] : l \in DOMAIN a.term.args} \cup {a.result}

OneOperand(prog) ==
  \A k \in 1 .. Len(prog) : isRHSVariable(prog[k]) => Len(prog[k].term.args) = 1

\* The layout of an occurrence of a variable stores its pattern.
Fit(prog) ==
  \A k \in 1 .. Len(prog) : \A v \in occurrences(prog[k]) : isCompatible(v.lay, v.spp)

NoSelf(prog) ==
  \A k \in 1 .. Len(prog) :
    isLocal(Def(prog[k])) => Def(prog[k]) \notin TermNames(prog[k].term)

\* A temporary has the same layout and pattern wherever it occurs.
OneShape(prog) ==
  \A k, l \in 1 .. Len(prog) : \A v \in occurrences(prog[k]), w \in occurrences(prog[l]) :
    v.name = w.name /\ isLocal(v.name) => v = w

PlainExpressions(prog) ==
  \A k \in 1 .. Len(prog) : isRHSExpression(prog[k]) => ~ isCompound(prog[k])

TemporaryExpressions(prog) ==
  \A k \in 1 .. Len(prog) : isRHSExpression(prog[k]) => isLocal(Def(prog[k]))

\* t = s * x in another form than the one of visit_ScalarMultiplication is
\* no such statement.
ScalarStatement(a) ==
  isRHSVariable(a) /\ a.scalar # NoScalar =>
    /\ isLocal(Def(a)) /\ ~ isCompound(a)
    /\ isLocal(rhs(a).name) => a.result.lay = rhs(a).lay
ScalarStatements(prog) == \A k \in 1 .. Len(prog) : ScalarStatement(prog[k])

\* A program that the passes may be given.
Base(prog) ==
  /\ prog \in Seq(Actions)
  /\ OneOperand(prog)
  /\ Fit(prog)
  /\ Flow(prog)

Plain(prog) ==
  /\ Base(prog)
  /\ NoSelf(prog)
  /\ OneShape(prog)
  /\ PlainExpressions(prog)
  /\ TemporaryExpressions(prog)
  /\ ScalarStatements(prog)

\* The visitor holds v: it was computed, and nothing has been computed from it.
Held(prog, v) ==
  isLocal(v.name) =>
    /\ \E k \in 1 .. Len(prog) : v \in occurrences(prog[k])
    /\ \A k \in 1 .. Len(prog) : v.name \notin TermNames(prog[k].term)

Lowerable(prog, H) ==
  /\ Plain(prog)
  /\ \A v \in H : v \in Variables /\ isCompatible(v.lay, v.spp) /\ Held(prog, v)

\* The forms of action that the visitor emits.
NewTemporary(prog, a) ==
  /\ isLocal(Def(a)) /\ ~ isCompound(a) /\ ScalarStatement(a)
  /\ \A k \in 1 .. Len(prog) : Def(a) \notin occurring(prog[k])
Accumulates(H, a) ==
  /\ isLocal(Def(a)) /\ isCompound(a) /\ a.result \in H
  /\ isRHSVariable(a) /\ a.scalar = NoScalar /\ Def(a) \notin TermNames(a.term)
Assigns(a) ==
  Def(a) \in Tensor /\ ~ isCompound(a) /\ isRHSVariable(a) /\ a.scalar = NoScalar

LEMMA OccurringNames ==
  ASSUME NEW a \in Actions
  PROVE  /\ TermNames(a.term) = {a.term.args[l].name : l \in DOMAIN a.term.args}
         /\ occurring(a) = {v.name : v \in occurrences(a)}
         /\ occurring(a) = TermNames(a.term) \cup {Def(a)}
         /\ \A n : n \in variables(a) <=> n \in TermNames(a.term) \/ (isCompound(a) /\ n = Def(a))
         /\ occurrences(a) \subseteq Variables
         /\ Def(a) \in Name /\ a.result \in Variables
<1>1. TermNames(a.term) = {a.term.args[l].name : l \in DOMAIN a.term.args}
  BY DEF TermNames
<1>2. occurring(a) = TermNames(a.term) \cup {Def(a)}
  BY DEF occurring, variables, Def
<1>3. occurring(a) = {v.name : v \in occurrences(a)}
  BY <1>1, <1>2 DEF occurrences, Def
<1>4. \A n : n \in variables(a) <=> n \in TermNames(a.term) \/ (isCompound(a) /\ n = Def(a))
  <2> TAKE n
  <2>1. CASE a.add
    BY <2>1 DEF variables, Def, isCompound
  <2>2. CASE ~ a.add
    BY <2>2 DEF variables, Def, isCompound
  <2> QED BY <2>1, <2>2
<1>5. a.result \in Variables /\ a.term \in Terms
  BY DEF Actions
<1>6. occurrences(a) \subseteq Variables /\ Def(a) \in Name
  <2>1. a.term.args \in Seq(Variables)
    BY <1>5 DEF Terms
  <2>2. \A l \in DOMAIN a.term.args : a.term.args[l] \in Variables
    BY <2>1
  <2>3. Def(a) \in Name
    BY <1>5 DEF Variables, Def
  <2> QED BY <1>5, <2>2, <2>3 DEF occurrences
<1> QED BY <1>1, <1>2, <1>3, <1>4, <1>5, <1>6

\* The visitor emits an action: the variables that it does not read stay held,
\* and its result is.
LEMMA LowerableAppend ==
  ASSUME NEW prog, NEW H, Lowerable(prog, H), NEW a \in Actions,
         {a.term.args[l] : l \in DOMAIN a.term.args} \subseteq H,
         isRHSVariable(a) => Len(a.term.args) = 1,
         isCompatible(a.result.lay, a.result.spp),
         NewTemporary(prog, a) \/ Accumulates(H, a) \/ Assigns(a),
         NEW G, \A v \in G : \/ v = a.result
                             \/ v \in H /\ (isLocal(v.name) => v.name \notin TermNames(a.term))
  PROVE  Lowerable(Append(prog, a), G)
<1> DEFINE n == Len(prog)
           new == Append(prog, a)
<1>1. /\ prog \in Seq(Actions) /\ n \in Nat /\ new \in Seq(Actions)
      /\ Len(new) = n + 1 /\ new[n + 1] = a /\ \A j \in 1 .. n : new[j] = prog[j]
      /\ \A j \in 1 .. n + 1 : j \in 1 .. n \/ j = n + 1
  BY DEF Lowerable, Plain, Base
<1> HIDE DEF new
<1>2. \A j \in 1 .. n : j \in 1 .. n + 1 /\ prog[j] \in Actions
  BY <1>1
<1>3. \A m \in TermNames(a.term) : \E v \in H : v.name = m /\ v \in occurrences(a)
  <2> TAKE m \in TermNames(a.term)
  <2>1. PICK l \in DOMAIN a.term.args : m = a.term.args[l].name
    BY DEF TermNames
  <2> QED BY <2>1 DEF occurrences
<1>4. \A m \in TermNames(a.term) : isLocal(m) =>
        /\ \E j \in 1 .. n : m \in occurring(prog[j])
        /\ \A j \in 1 .. n : m \notin TermNames(prog[j].term)
  BY <1>2, <1>3, OccurringNames DEF Lowerable, Held
<1>5. isLocal(Def(a)) =>
        /\ Def(a) \notin TermNames(a.term)
        /\ isCompound(a) <=> \E j \in 1 .. n : Def(a) \in occurring(prog[j])
        /\ \A j \in 1 .. n : Def(a) \notin TermNames(prog[j].term)
  <2>1. CASE NewTemporary(prog, a)
    <3>1. \A j \in 1 .. n : Def(a) \notin occurring(prog[j]) /\ Def(a) \notin TermNames(prog[j].term)
      BY <1>2, <2>1, OccurringNames DEF NewTemporary
    <3> QED BY <1>4, <2>1, <3>1 DEF NewTemporary
  <2>2. CASE Accumulates(H, a)
    <3>1. Held(prog, a.result) /\ isCompound(a) /\ Def(a) \notin TermNames(a.term)
      BY <2>2 DEF Accumulates, Lowerable
    <3> QED BY <1>2, <3>1, OccurringNames DEF Held, Def
  <2>3. CASE Assigns(a)
    BY <2>3 DEF Assigns, isLocal
  <2> QED BY <2>1, <2>2, <2>3
<1>6. LocalsFlow(new)
  <2> SUFFICES ASSUME NEW j \in 1 .. n + 1, NEW m \in occurring(new[j]), isLocal(m)
               PROVE  m \in variables(new[j]) <=> \E l \in 1 .. j - 1 : m \in occurring(new[l])
    BY <1>1 DEF LocalsFlow
  <2>1. \A l \in 1 .. j - 1 : new[l] = prog[l]
    BY <1>1
  <2>2. CASE j \in 1 .. n
    BY <1>1, <2>1, <2>2 DEF Lowerable, Plain, Base, Flow, LocalsFlow
  <2>3. CASE j = n + 1
    <3>1. new[j] = a /\ j - 1 = n
      BY <1>1, <2>3
    <3> QED BY <1>4, <1>5, <2>1, <3>1, OccurringNames
  <2> QED BY <1>1, <2>2, <2>3
<1>7. ConsumedLast(new)
  <2> SUFFICES ASSUME NEW j \in 1 .. n + 1, NEW m \in TermNames(new[j].term), isLocal(m),
                      m # Def(new[j]), NEW l \in j + 1 .. n + 1
               PROVE  m \notin occurring(new[l])
    BY <1>1 DEF ConsumedLast
  <2>1. j \in 1 .. n /\ new[j] = prog[j] /\ l \in 1 .. n + 1
    BY <1>1
  <2>2. CASE l \in 1 .. n
    BY <1>1, <2>1, <2>2 DEF Lowerable, Plain, Base, Flow, ConsumedLast
  <2>3. CASE l = n + 1
    BY <1>1, <1>4, <1>5, <2>1, <2>3, OccurringNames
  <2> QED BY <1>1, <2>1, <2>2, <2>3
<1>8. NoSelf(new) /\ NoSelfSum(new)
  <2>1. NoSelf(new)
    BY <1>1, <1>5 DEF NoSelf, Lowerable, Plain
  <2> QED BY <2>1 DEF NoSelf, NoSelfSum
<1>9. OneOperand(new) /\ Fit(new)
  <2>1. OneOperand(new)
    BY <1>1 DEF OneOperand, Lowerable, Plain, Base
  <2>2. \A v \in occurrences(a) : isCompatible(v.lay, v.spp)
    BY DEF occurrences, Lowerable
  <2> QED BY <1>1, <2>1, <2>2 DEF Fit, Lowerable, Plain, Base
<1>10. OneShape(new)
  <2> DEFINE Same(v, w) == v.name = w.name /\ isLocal(v.name) => v = w
  <2>1. \A j, l \in 1 .. n : \A v \in occurrences(prog[j]), w \in occurrences(prog[l]) : Same(v, w)
    BY DEF Lowerable, Plain, OneShape
  <2>2. \A v \in H : isLocal(v.name) => \E j \in 1 .. n : v \in occurrences(prog[j])
    BY DEF Lowerable, Held
  <2>3. \A v \in occurrences(a) : v \in H \/ v = a.result
    BY DEF occurrences
  <2>4. \A l \in 1 .. n : \A v \in H, w \in occurrences(prog[l]) : Same(v, w)
    BY <2>1, <2>2
  <2>5. \A v, w \in H : Same(v, w)
    BY <2>1, <2>2
  <2>6. a.result \notin H => \A l \in 1 .. n : \A w \in occurrences(prog[l]) :
          w.name = Def(a) => ~ isLocal(w.name)
    <3>1. a.result \notin H => NewTemporary(prog, a) \/ Assigns(a)
      BY DEF Accumulates
    <3> QED BY <1>2, <3>1, OccurringNames DEF NewTemporary, Assigns, isLocal
  <2>7. a.result \notin H => \A w \in H : w.name = Def(a) => ~ isLocal(w.name)
    BY <2>2, <2>6
  <2>8. \A l \in 1 .. n : \A v \in occurrences(a), w \in occurrences(prog[l]) :
          Same(v, w) /\ Same(w, v)
    BY <2>3, <2>4, <2>6 DEF Def
  <2>9. \A v, w \in occurrences(a) : Same(v, w)
    BY <2>3, <2>5, <2>7 DEF Def
  <2> HIDE DEF Same
  <2>10. \A j, l \in 1 .. n + 1 : \A v \in occurrences(new[j]), w \in occurrences(new[l]) : Same(v, w)
    BY <1>1, <2>1, <2>8, <2>9
  <2> QED BY <1>1, <2>10 DEF OneShape, Same
<1>11. /\ PlainExpressions(new) /\ TemporaryExpressions(new) /\ ScalarStatements(new)
  <2>1. /\ isRHSExpression(a) => ~ isCompound(a) /\ isLocal(Def(a))
        /\ ScalarStatement(a)
    BY DEF NewTemporary, Accumulates, Assigns, isRHSExpression, ScalarStatement
  <2> QED BY <1>1, <2>1 DEF PlainExpressions, TemporaryExpressions, ScalarStatements, Lowerable, Plain
<1>12. ASSUME NEW v \in G
       PROVE  v \in Variables /\ isCompatible(v.lay, v.spp) /\ Held(new, v)
  <2>1. CASE v = a.result
    <3>1. Held(new, v)
      BY <1>1, <1>5, <2>1 DEF Held, occurrences, Def
    <3> QED BY <2>1, <3>1, OccurringNames
  <2>2. CASE v \in H /\ (isLocal(v.name) => v.name \notin TermNames(a.term))
    BY <1>1, <2>2 DEF Lowerable, Held
  <2> QED BY <2>1, <2>2
<1> QED BY <1>1, <1>6, <1>7, <1>8, <1>9, <1>10, <1>11, <1>12 DEF Lowerable, Plain, Base, Flow, new

-----------------------------------------------------------------------------
(* The helpers of the visitor *)

Names(prog)   == UNION {occurring(prog[k]) : k \in 1 .. Len(prog)}
Written(prog) == {Def(prog[k]) : k \in 1 .. Len(prog)} \cap Tensor
Placed(prog)  == \A k \in 1 .. Len(prog) : WellPlaced(prog[k])

\* The temporaries of the program are numbered below next.
Below(prog, next) == next \in Nat /\ \A n \in Names(prog) : isLocal(n) => n < next

LEMMA AppendNames ==
  ASSUME NEW prog \in Seq(Actions), NEW a \in Actions
  PROVE  /\ Names(Append(prog, a)) = Names(prog) \cup occurring(a)
         /\ Written(Append(prog, a)) = Written(prog) \cup ({Def(a)} \cap Tensor)
         /\ Placed(Append(prog, a)) <=> Placed(prog) /\ WellPlaced(a)
<1> DEFINE n == Len(prog)
           new == Append(prog, a)
<1>1. /\ n \in Nat /\ Len(new) = n + 1 /\ new[n + 1] = a
      /\ \A j \in 1 .. n : new[j] = prog[j] /\ j \in 1 .. n + 1
      /\ \A j \in 1 .. n + 1 : j \in 1 .. n \/ j = n + 1
      /\ n + 1 \in 1 .. n + 1
  OBVIOUS
<1> HIDE DEF new
<1>2. Names(new) = Names(prog) \cup occurring(a)
  BY <1>1 DEF Names
<1>3. Written(new) = Written(prog) \cup ({Def(a)} \cap Tensor)
  BY <1>1 DEF Written
<1>4. Placed(new) <=> Placed(prog) /\ WellPlaced(a)
  BY <1>1 DEF Placed
<1> QED BY <1>2, <1>3, <1>4 DEF new

LEMMA LocalNames == \A n \in Name : isLocal(n) <=> n \in Nat
BY NamesAssumption DEF Name, isLocal

LEMMA NamesInName ==
  ASSUME NEW prog \in Seq(Actions)
  PROVE  Names(prog) \subseteq Name
<1>1. ASSUME NEW k \in 1 .. Len(prog) PROVE occurring(prog[k]) \subseteq Name
  <2>1. prog[k] \in Actions
    OBVIOUS
  <2>2. \A v \in occurrences(prog[k]) : v.name \in Name
    BY <2>1, OccurringNames DEF Variables
  <2> QED BY <2>1, <2>2, OccurringNames
<1> QED BY <1>1 DEF Names

LEMMA TemporaryOk ==
  ASSUME NEW k \in Nat, NEW spp \in SUBSET Cells
  PROVE  LET v == Temporary(k, spp)
         IN  /\ v \in Variables /\ v.name = k /\ v.spp = spp
             /\ isCompatible(v.lay, v.spp) /\ isLocal(v.name)
<1>1. Layout(spp, spp = Cells) \in Layouts /\ spp \subseteq Layout(spp, spp = Cells).cells
  BY DEF Layout, Layouts
<1>2. k \in Name /\ isLocal(k)
  BY LocalNames DEF Name
<1> QED BY <1>1, <1>2 DEF Temporary, Variables, isCompatible

LEMMA TensorVariableOk ==
  ASSUME NEW n \in Tensor
  PROVE  LET v == TensorVariable(n)
         IN  /\ v \in Variables /\ v.name = n /\ v.spp = TensorCells[n]
             /\ isCompatible(v.lay, v.spp) /\ ~ isLocal(v.name)
<1>1. TensorCells[n] \in SUBSET Cells
  BY ValuesAssumption
<1>2. /\ Layout(TensorCells[n], n \in Fusable) \in Layouts
      /\ TensorCells[n] \subseteq Layout(TensorCells[n], n \in Fusable).cells
  BY <1>1 DEF Layout, Layouts
<1> QED BY <1>1, <1>2 DEF TensorVariable, Variables, isCompatible, isLocal, Name

LEMMA SppType ==
  ASSUME NEW spp \in SUBSET Cells, NEW conv
  PROVE  /\ PermuteSpp(spp) \in SUBSET Cells
         /\ BroadcastSpp(spp) \in SUBSET Cells
         /\ ConvertedSpp(conv, spp) \in SUBSET Cells
<1>1. \A s \in SUBSET Cells : PermuteSpp(s) \in SUBSET Cells
  BY DEF PermuteSpp, Cells
<1>2. \A s \in SUBSET Cells : BroadcastSpp(s) \in SUBSET Cells
  BY DEF BroadcastSpp
<1> QED BY <1>1, <1>2 DEF ConvertedSpp

\* What the visitor still holds after an action that reads v.
Rest(H, v) == {w \in H : isLocal(w.name) => w.name # v.name}

\* A Permute or Broadcast node of a held variable into a new temporary.
LEMMA EmitTransform ==
  ASSUME NEW prog, NEW H, NEW k, Lowerable(prog, H), Below(prog, k),
         NEW op \in NodeOps, NEW spp \in SUBSET Cells, NEW v \in H
  PROVE  LET a   == TransformOp(op, spp, k, v)
             new == Append(prog, a)
         IN  /\ a \in Actions
             /\ Lowerable(new, Rest(H, v) \cup {a.result})
             /\ Below(new, k + 1)
             /\ \A n : n \in Names(new) <=> n \in Names(prog) \/ n = v.name \/ n = k
             /\ Written(new) \subseteq Written(prog)
             /\ Placed(prog) => Placed(new)
<1> DEFINE a   == TransformOp(op, spp, k, v)
           G   == Rest(H, v) \cup {a.result}
           new == Append(prog, a)
<1>1. /\ prog \in Seq(Actions) /\ k \in Nat /\ v \in Variables
      /\ isCompatible(v.lay, v.spp) /\ Held(prog, v)
  BY DEF Lowerable, Plain, Base, Below
<1>2. Temporary(k, spp) \in Variables /\ Temporary(k, spp).name = k /\ Temporary(k, spp).spp = spp
      /\ isCompatible(Temporary(k, spp).lay, spp) /\ isLocal(k)
  BY <1>1, TemporaryOk
<1>3. /\ a.result = Temporary(k, spp) /\ a.term.args = <<v>> /\ a.term.op = op
      /\ a.term.spp = spp /\ a.term.fuse = FALSE /\ a.add = FALSE /\ a.scalar = NoScalar
      /\ Def(a) = k
  BY <1>2 DEF TransformOp, ProgramAction, Def
<1>4. a \in Actions
  BY <1>1, <1>2 DEF TransformOp, ProgramAction, Actions, Terms, Scalars, NoScalar
<1> HIDE DEF a
<1>5. /\ {a.term.args[l] : l \in DOMAIN a.term.args} = {v}
      /\ TermNames(a.term) = {v.name}
      /\ occurring(a) = {v.name, k}
  <2>1. DOMAIN <<v>> = {1} /\ <<v>>[1] = v
    OBVIOUS
  <2> QED BY <1>3, <1>4, <2>1, OccurringNames DEF TermNames
<1>6. isRHSExpression(a) /\ ~ isRHSVariable(a)
  BY <1>3 DEF isRHSExpression, isRHSVariable, NodeOps
<1>7. k \notin Names(prog)
  BY <1>1, <1>2 DEF Below
<1>8. NewTemporary(prog, a)
  BY <1>2, <1>3, <1>6, <1>7 DEF NewTemporary, isCompound, ScalarStatement, Names
<1>9. Lowerable(new, G)
  BY <1>2, <1>3, <1>4, <1>5, <1>6, <1>8, LowerableAppend DEF Rest
<1>10. WellPlaced(a)
  <2>1. DOMAIN a.term.args = {1} /\ a.term.args[1] = v
    BY <1>3
  <2> QED BY <1>1, <1>2, <1>3, <2>1 DEF WellPlaced, resultCompatible
<1>11. /\ Names(new) = Names(prog) \cup {v.name, k}
       /\ Written(new) = Written(prog)
       /\ Placed(prog) => Placed(new)
  <2>1. {Def(a)} \cap Tensor = {}
    BY <1>2, <1>3 DEF isLocal
  <2>2. /\ Names(new) = Names(prog) \cup occurring(a)
        /\ Written(new) = Written(prog) \cup ({Def(a)} \cap Tensor)
        /\ Placed(new) <=> Placed(prog) /\ WellPlaced(a)
    BY <1>1, <1>4, AppendNames
  <2> QED BY <1>5, <1>10, <2>1, <2>2
<1>12. Below(new, k + 1)
  <2>1. isLocal(v.name) => v.name \in Names(prog)
    <3> SUFFICES ASSUME isLocal(v.name) PROVE v.name \in Names(prog)
      OBVIOUS
    <3>1. PICK j \in 1 .. Len(prog) : v \in occurrences(prog[j])
      BY <1>1 DEF Held
    <3>2. prog[j] \in Actions
      BY <1>1
    <3> QED BY <3>1, <3>2, OccurringNames DEF Names
  <2>2. \A n \in Names(prog) : n \in Name
    BY <1>1, NamesInName
  <2>3. \A n \in Names(prog) : isLocal(n) => n < k /\ n \in Nat
    BY <2>2, LocalNames DEF Below
  <2> QED BY <1>1, <1>11, <2>1, <2>3 DEF Below
<1>13. \A n : n \in Names(new) <=> n \in Names(prog) \/ n = v.name \/ n = k
  BY <1>11
<1>14. Written(new) \subseteq Written(prog)
  BY <1>11
<1> HIDE DEF new, G
<1> QED BY <1>3, <1>4, <1>9, <1>11, <1>12, <1>13, <1>14 DEF a, new, G

\* What _addPermuteIfRequired emits: it consumes the variable, returns one that
\* has the pattern of the converted term, and keeps everything else.
LEMMA AddPermuteOk ==
  ASSUME NEW prog, NEW H, NEW k, Lowerable(prog, H), Below(prog, k),
         NEW conv \in Conversions, NEW spp \in SUBSET Cells, NEW v \in H
  PROVE  LET r   == AddPermuteIfRequired(conv, spp, v, k)
             new == prog \o r.code
         IN  /\ r.code \in Seq(Actions) /\ r.next \in Nat /\ r.next >= k
             /\ r.var \in Variables
             /\ r.var.spp = IF conv = {} THEN v.spp ELSE ConvertedSpp(conv, spp)
             /\ r.var.name = v.name \/ (r.var.name \in Nat /\ r.var.name >= k)
             /\ Lowerable(new, Rest(H, v) \cup {r.var})
             /\ Below(new, r.next)
             /\ \A n \in Names(new) : n \in Names(prog) \/ n = v.name \/ n >= k
             /\ Written(new) \subseteq Written(prog)
             /\ Placed(prog) => Placed(new)
<1> DEFINE Ok(code, var, next, all) ==
             /\ code \in Seq(Actions) /\ next \in Nat /\ next >= k
             /\ var \in Variables
             /\ var.spp = IF conv = {} THEN v.spp ELSE ConvertedSpp(conv, spp)
             /\ var.name = v.name \/ (var.name \in Nat /\ var.name >= k)
             /\ Lowerable(all, Rest(H, v) \cup {var})
             /\ Below(all, next)
             /\ \A n \in Names(all) : n \in Names(prog) \/ n = v.name \/ n >= k
             /\ Written(all) \subseteq Written(prog)
             /\ Placed(prog) => Placed(all)
           r   == AddPermuteIfRequired(conv, spp, v, k)
           G   == Rest(H, v)
           pspp == PermuteSpp(spp)
           a   == TransformOp("Permute", pspp, k, v)
           bspp == BroadcastSpp(spp)
           b   == TransformOp("Broadcast", bspp, k, v)
           cspp == BroadcastSpp(pspp)
           c   == TransformOp("Broadcast", cspp, k + 1, a.result)
<1>1. /\ prog \in Seq(Actions) /\ k \in Nat /\ v \in Variables /\ Names(prog) \subseteq Name
      /\ v.name \in Name
  BY NamesInName DEF Lowerable, Plain, Base, Below, Variables
<1>2. pspp \in SUBSET Cells /\ bspp \in SUBSET Cells /\ cspp \in SUBSET Cells
  BY SppType
<1>3. "Permute" \in NodeOps /\ "Broadcast" \in NodeOps
  BY DEF NodeOps
<1> HIDE DEF pspp, bspp, cspp
<1>4. /\ a \in Actions
      /\ Lowerable(Append(prog, a), G \cup {a.result})
      /\ Below(Append(prog, a), k + 1)
      /\ \A n : n \in Names(Append(prog, a)) <=> n \in Names(prog) \/ n = v.name \/ n = k
      /\ Written(Append(prog, a)) \subseteq Written(prog)
      /\ Placed(prog) => Placed(Append(prog, a))
  BY <1>2, <1>3, EmitTransform
<1>5. /\ b \in Actions
      /\ Lowerable(Append(prog, b), G \cup {b.result})
      /\ Below(Append(prog, b), k + 1)
      /\ \A n : n \in Names(Append(prog, b)) <=> n \in Names(prog) \/ n = v.name \/ n = k
      /\ Written(Append(prog, b)) \subseteq Written(prog)
      /\ Placed(prog) => Placed(Append(prog, b))
  BY <1>2, <1>3, EmitTransform
<1>6. a.result \in Variables /\ a.result.name = k /\ a.result.spp = pspp
      /\ isLocal(a.result.name) /\ b.result \in Variables /\ b.result.name = k /\ b.result.spp = bspp
  <2>1. a.result = Temporary(k, pspp) /\ b.result = Temporary(k, bspp)
    BY DEF TransformOp, ProgramAction
  <2> QED BY <1>1, <1>2, <2>1, TemporaryOk
<1> HIDE DEF a, b
<1>7. /\ c \in Actions
      /\ Lowerable(Append(Append(prog, a), c),
                   Rest(G \cup {a.result}, a.result) \cup {c.result})
      /\ Below(Append(Append(prog, a), c), k + 2)
      /\ \A n : n \in Names(Append(Append(prog, a), c)) <=>
                 n \in Names(prog) \/ n = v.name \/ n = k \/ n = k + 1
      /\ Written(Append(Append(prog, a), c)) \subseteq Written(prog)
      /\ Placed(prog) => Placed(Append(Append(prog, a), c))
  <2> DEFINE p == Append(prog, a)
             K == G \cup {a.result}
             m == k + 1
             v2 == a.result
             d == TransformOp("Broadcast", cspp, m, v2)
  <2>1. Lowerable(p, K) /\ Below(p, m) /\ v2 \in K
    BY <1>4
  <2> HIDE DEF p, K, m, v2
  <2>2. /\ d \in Actions
        /\ Lowerable(Append(p, d), Rest(K, v2) \cup {d.result})
        /\ Below(Append(p, d), m + 1)
        /\ \A n : n \in Names(Append(p, d)) <=> n \in Names(p) \/ n = v2.name \/ n = m
        /\ Written(Append(p, d)) \subseteq Written(p)
        /\ Placed(p) => Placed(Append(p, d))
    BY <1>2, <1>3, <2>1, EmitTransform
  <2>3. m + 1 = k + 2
    BY <1>1 DEF m
  <2>4. d = c
    BY DEF m, v2
  <2> HIDE DEF a, d, c, G
  <2> QED BY <1>4, <1>6, <2>2, <2>3, <2>4 DEF p, K, m, v2
<1>8. c.result \in Variables /\ c.result.name = k + 1 /\ c.result.spp = cspp
  <2>1. k + 1 \in Nat
    BY <1>1
  <2>2. c.result = Temporary(k + 1, cspp)
    BY DEF TransformOp, ProgramAction
  <2> QED BY <1>2, <2>1, <2>2, TemporaryOk
<1> HIDE DEF c
<1>9. G \subseteq Rest(G \cup {a.result}, a.result)
  <2>1. ASSUME NEW w \in G, isLocal(w.name), w.name = k PROVE FALSE
    <3>1. PICK j \in 1 .. Len(prog) : w \in occurrences(prog[j])
      BY <2>1 DEF Lowerable, Held, Rest
    <3>2. w.name \in Names(prog)
      BY <1>1, <3>1, OccurringNames DEF Names
    <3> QED BY <1>1, <2>1, <3>2 DEF Below
  <2> QED BY <1>6, <2>1 DEF Rest
<1>10. Lowerable(Append(Append(prog, a), c), G \cup {c.result})
  <2> HIDE DEF G
  <2> QED BY <1>7, <1>9 DEF Lowerable
<1> HIDE DEF G
<1>11. CASE conv = {}
  <2>1. r = [code |-> <<>> \o <<>>, var |-> v, next |-> k + Len(<<>>) + Len(<<>>)]
    BY <1>11 DEF AddPermuteIfRequired
  <2>2. <<>> \o <<>> = <<>> /\ k + Len(<<>>) + Len(<<>>) = k /\ <<>> \in Seq(Actions)
    BY <1>1
  <2>3. prog \o <<>> = prog
    BY <1>1
  <2>4. \A w \in G \cup {v} : w \in H
    BY DEF G, Rest
  <2>5. Lowerable(prog, G \cup {v})
    BY <2>4 DEF Lowerable
  <2>6. Ok(<<>>, v, k, prog)
    BY <1>1, <1>11, <2>2, <2>3, <2>5 DEF G
  <2>7. r.code = <<>> /\ r.var = v /\ r.next = k
    BY <2>1, <2>2
  <2> HIDE DEF Ok
  <2>8. prog \o r.code = prog
    BY <2>3, <2>7
  <2> HIDE DEF r
  <2> QED BY <2>6, <2>7, <2>8 DEF Ok, r
<1>12. CASE conv = {"Permute"}
  <2>1. ConvertedSpp(conv \cap {"Permute"}, spp) = pspp /\ ConvertedSpp(conv, spp) = pspp
    BY <1>12 DEF ConvertedSpp, pspp
  <2>2. r = [code |-> <<a>> \o <<>>, var |-> <<a>>[1].result, next |-> k + Len(<<a>>) + Len(<<>>)]
    BY <1>12, <2>1 DEF AddPermuteIfRequired, a
  <2>3. <<a>> \o <<>> = <<a>> /\ k + Len(<<a>>) + Len(<<>>) = k + 1 /\ <<a>> \in Seq(Actions)
    BY <1>1, <1>4
  <2>4. prog \o <<a>> = Append(prog, a)
    BY <1>1, <1>4
  <2>5. \A n \in Names(Append(prog, a)) : n \in Names(prog) \/ n = v.name \/ n >= k
    BY <1>1, <1>4
  <2>6. Ok(<<a>>, a.result, k + 1, Append(prog, a))
    BY <1>1, <1>4, <1>6, <1>12, <2>1, <2>3, <2>4, <2>5 DEF G
  <2>7. r.code = <<a>> /\ r.var = a.result /\ r.next = k + 1
    BY <2>2, <2>3
  <2> HIDE DEF Ok
  <2>8. prog \o r.code = Append(prog, a)
    BY <2>4, <2>7
  <2> HIDE DEF r
  <2> QED BY <2>6, <2>7, <2>8 DEF Ok, r
<1>13. CASE conv = {"Broadcast"}
  <2>1. ConvertedSpp(conv \cap {"Permute"}, spp) = spp /\ ConvertedSpp(conv, spp) = bspp
    BY <1>13 DEF ConvertedSpp, bspp
  <2>2. r = [code |-> <<>> \o <<b>>, var |-> <<b>>[1].result, next |-> k + Len(<<>>) + Len(<<b>>)]
    BY <1>1, <1>13, <2>1 DEF AddPermuteIfRequired, b, bspp
  <2>3. <<>> \o <<b>> = <<b>> /\ k + Len(<<>>) + Len(<<b>>) = k + 1 /\ <<b>> \in Seq(Actions)
    BY <1>1, <1>5
  <2>4. prog \o <<b>> = Append(prog, b)
    BY <1>1, <1>5
  <2>5. \A n \in Names(Append(prog, b)) : n \in Names(prog) \/ n = v.name \/ n >= k
    BY <1>1, <1>5
  <2>6. Ok(<<b>>, b.result, k + 1, Append(prog, b))
    BY <1>1, <1>5, <1>6, <1>13, <2>1, <2>3, <2>4, <2>5 DEF G
  <2>7. r.code = <<b>> /\ r.var = b.result /\ r.next = k + 1
    BY <2>2, <2>3
  <2> HIDE DEF Ok
  <2>8. prog \o r.code = Append(prog, b)
    BY <2>4, <2>7
  <2> HIDE DEF r
  <2> QED BY <2>6, <2>7, <2>8 DEF Ok, r
<1>14. CASE conv = {"Permute", "Broadcast"}
  <2>1. ConvertedSpp(conv \cap {"Permute"}, spp) = pspp /\ ConvertedSpp(conv, spp) = cspp
    BY <1>14 DEF ConvertedSpp, pspp, cspp
  <2>2. r = [code |-> <<a>> \o <<c>>, var |-> <<c>>[1].result, next |-> k + Len(<<a>>) + Len(<<c>>)]
    BY <1>1, <1>14, <2>1 DEF AddPermuteIfRequired, a, c, cspp
  <2>3. /\ <<a>> \o <<c>> = <<a, c>>
        /\ Len(<<a>>) = 1 /\ Len(<<c>>) = 1
        /\ <<a, c>> \in Seq(Actions)
    <3>1. <<a>> \in Seq(Actions) /\ <<c>> \in Seq(Actions) /\ <<a, c>> \in Seq(Actions)
      BY <1>4, <1>7
    <3>2. /\ <<a>> \o <<c>> \in Seq(Actions) /\ Len(<<a>> \o <<c>>) = 2
          /\ (<<a>> \o <<c>>)[1] = a /\ (<<a>> \o <<c>>)[2] = c
      BY <3>1
    <3>3. \A l \in 1 .. Len(<<a>> \o <<c>>) : (<<a>> \o <<c>>)[l] = <<a, c>>[l]
      BY <3>2
    <3>4. Len(<<a, c>>) = 2
      OBVIOUS
    <3>5. <<a>> \o <<c>> = <<a, c>>
      BY <3>1, <3>2, <3>3, <3>4, SeqEqual
    <3> QED BY <3>1, <3>5
  <2>4. prog \o <<a, c>> = Append(Append(prog, a), c)
    BY <1>1, <1>4, <1>7
  <2>5. \A n \in Names(Append(Append(prog, a), c)) : n \in Names(prog) \/ n = v.name \/ n >= k
    BY <1>1, <1>7
  <2>6. Ok(<<a, c>>, c.result, k + 2, Append(Append(prog, a), c))
    BY <1>1, <1>4, <1>7, <1>8, <1>10, <1>14, <2>1, <2>3, <2>4, <2>5 DEF G
  <2>7. r.code = <<a, c>> /\ r.var = c.result /\ r.next = k + 2
    BY <1>1, <2>2, <2>3
  <2> HIDE DEF Ok
  <2>8. prog \o r.code = Append(Append(prog, a), c)
    BY <2>4, <2>7
  <2> HIDE DEF r
  <2> QED BY <2>6, <2>7, <2>8 DEF Ok, r
<1>15. conv = {} \/ conv = {"Permute"} \/ conv = {"Broadcast"} \/ conv = {"Permute", "Broadcast"}
  BY DEF Conversions
<1> QED BY <1>11, <1>12, <1>13, <1>14, <1>15

\* Sorting is a permutation.
LEMMA SortedVariablesOk ==
  ASSUME NEW S, NEW vs \in Seq(S)
  PROVE  /\ SortedVariables(vs) \in Seq(S)
         /\ Len(SortedVariables(vs)) = Len(vs)
         /\ \E from \in [1 .. Len(vs) -> 1 .. Len(vs)] :
              /\ \A p, q \in 1 .. Len(vs) : from[p] = from[q] => p = q
              /\ \A p \in 1 .. Len(vs) : SortedVariables(vs)[p] = vs[from[p]]
<1> DEFINE D == DOMAIN vs
           NotAfter(l, k) == \/ SortKey(vs[l]) < SortKey(vs[k])
                             \/ SortKey(vs[l]) = SortKey(vs[k]) /\ l <= k
           Before(k) == {l \in D : NotAfter(l, k)}
           place == [k \in D |-> Cardinality(Before(k))]
           from  == [p \in D |-> CHOOSE k \in D : Cardinality(Before(k)) = p]
<1>1. D \subseteq Int /\ D = 1 .. Len(vs) /\ IsFiniteSet(D) /\ Len(vs) \in Nat
      /\ Cardinality(D) = Len(vs)
  <2>1. Len(vs) \in Nat /\ D = 1 .. Len(vs) /\ D \subseteq Int
    OBVIOUS
  <2>2. IsFiniteSet(D) /\ Cardinality(D) = Len(vs)
    BY <2>1, FS_Interval
  <2> QED BY <2>1, <2>2
<1>sorted. SortedVariables(vs) = [p \in D |-> vs[from[p]]]
  BY DEF SortedVariables
<1> HIDE DEF D
<1>2. \A k \in D : SortKey(vs[k]) \in Int
  BY DEF SortKey
<1>3. \A k, l \in D : NotAfter(k, l) \/ NotAfter(l, k)
  BY <1>1, <1>2
<1>4. \A k, l \in D : NotAfter(k, l) /\ NotAfter(l, k) => k = l
  BY <1>1, <1>2
<1>5. \A j, k, l \in D : NotAfter(j, k) /\ NotAfter(k, l) => NotAfter(j, l)
  BY <1>1, <1>2
<1> HIDE DEF NotAfter
<1>6. \A k \in D : IsFiniteSet(Before(k)) /\ Cardinality(Before(k)) \in 1 .. Len(vs)
  <2> TAKE k \in D
  <2>1. Before(k) \in SUBSET D /\ k \in Before(k)
    BY <1>3
  <2>2. IsFiniteSet(Before(k)) /\ Cardinality(Before(k)) <= Len(vs)
    BY <1>1, <2>1, FS_Subset
  <2>3. Cardinality(Before(k)) \in Nat /\ Cardinality(Before(k)) # 0
    BY <2>1, <2>2, FS_EmptySet, FS_CardinalityType
  <2> QED BY <1>1, <2>2, <2>3
<1>7. ASSUME NEW k \in D, NEW l \in D, k # l, NotAfter(k, l)
      PROVE  Cardinality(Before(k)) # Cardinality(Before(l))
  <2>1. Before(k) \in SUBSET Before(l)
    BY <1>5, <1>7
  <2>2. l \in Before(l) /\ l \notin Before(k)
    BY <1>3, <1>4, <1>7
  <2> HIDE DEF Before
  <2> QED BY <1>6, <2>1, <2>2, FS_Subset
<1>8. place \in Injection(D, D)
  <2>1. place \in [D -> D]
    BY <1>1, <1>6
  <2>2. \A k, l \in D : place[k] = place[l] => k = l
    BY <1>3, <1>7
  <2> QED BY <2>1, <2>2 DEF Injection, IsInjective
<1>9. place \in Surjection(D, D)
  BY <1>1, <1>8, FS_Injection
<1>10. \A p \in D : from[p] \in D /\ place[from[p]] = p
  <2> TAKE p \in D
  <2>1. \E k \in D : place[k] = p
    BY <1>9 DEF Surjection
  <2>2. \E k \in D : Cardinality(Before(k)) = p
    BY <2>1
  <2> HIDE DEF Before
  <2> QED BY <2>2
<1>11. from \in [D -> D] /\ \A p, q \in D : from[p] = from[q] => p = q
  <2>1. from \in [D -> D]
    <3> QED BY <1>10
  <2> HIDE DEF from, place
  <2> QED BY <1>10, <2>1
<1> HIDE DEF from
<1>12. SortedVariables(vs) \in Seq(S) /\ Len(SortedVariables(vs)) = Len(vs)
  <2>1. \A p \in D : vs[from[p]] \in S
    BY <1>1, <1>11
  <2>2. [p \in 1 .. Len(vs) |-> vs[from[p]]] \in Seq(S)
    BY <1>1, <2>1, IsASeq
  <2> QED BY <1>1, <1>sorted, <2>2
<1> QED BY <1>1, <1>sorted, <1>11, <1>12

LEMMA HeldBelow ==
  ASSUME NEW prog, NEW H, NEW k, Lowerable(prog, H), Below(prog, k), NEW v \in H
  PROVE  /\ v \in Variables
         /\ isLocal(v.name) => v.name \in Names(prog) /\ v.name \in Nat /\ v.name < k
<1>1. prog \in Seq(Actions) /\ v \in Variables /\ v.name \in Name
  BY DEF Lowerable, Plain, Base, Variables
<1> SUFFICES ASSUME isLocal(v.name) PROVE v.name \in Names(prog)
  BY <1>1, LocalNames DEF Below
<1>2. PICK j \in 1 .. Len(prog) : v \in occurrences(prog[j])
  BY DEF Lowerable, Held
<1>3. prog[j] \in Actions
  BY <1>1
<1> QED BY <1>2, <1>3, OccurringNames DEF Names

LEMMA VariableTermOk ==
  ASSUME NEW v \in Variables, NEW res \in Variables, NEW add \in BOOLEAN, NEW s \in Nat
  PROVE  LET a == ProgramAction(res, VariableTerm(v), add, s)
         IN  /\ a \in Actions /\ isRHSVariable(a) /\ ~ isRHSExpression(a) /\ rhs(a) = v
             /\ Len(a.term.args) = 1
             /\ \A l \in DOMAIN a.term.args : a.term.args[l] = v
             /\ \A n : n \in TermNames(a.term) <=> n = v.name
             /\ \A n : n \in occurring(a) <=> n = v.name \/ n = res.name
             /\ a.result = res /\ Def(a) = res.name /\ a.scalar = s
             /\ isCompound(a) <=> add
             /\ isCompatible(v.lay, v.spp) /\ v.spp \subseteq res.lay.cells => WellPlaced(a)
<1> DEFINE a == ProgramAction(res, VariableTerm(v), add, s)
<1>1. /\ a.result = res /\ a.term = VariableTerm(v) /\ a.add = add /\ a.scalar = s
      /\ a.term.args = <<v>> /\ a.term.op = "Variable" /\ a.term.spp = v.spp
      /\ a.term.fuse = FALSE /\ Def(a) = res.name
  BY DEF ProgramAction, VariableTerm, Def
<1>2. a \in Actions
  <2>1. VariableTerm(v) \in Terms
    BY DEF VariableTerm, Terms, Variables
  <2> QED BY <2>1 DEF ProgramAction, Actions, Scalars
<1> HIDE DEF a
<1>3. /\ DOMAIN a.term.args = {1} /\ a.term.args[1] = v /\ Len(a.term.args) = 1
      /\ \A l \in DOMAIN a.term.args : a.term.args[l] = v
  <2>1. DOMAIN <<v>> = {1} /\ <<v>>[1] = v /\ Len(<<v>>) = 1
    OBVIOUS
  <2> QED BY <1>1, <2>1
<1>4. \A n : n \in TermNames(a.term) <=> n = v.name
  BY <1>3 DEF TermNames
<1>5. \A n : n \in occurring(a) <=> n = v.name \/ n = res.name
  BY <1>1, <1>2, <1>4, OccurringNames
<1>6. isCompatible(v.lay, v.spp) /\ v.spp \subseteq res.lay.cells => WellPlaced(a)
  BY <1>1, <1>3 DEF WellPlaced, resultCompatible, isCompatible
<1>7. isRHSVariable(a) /\ ~ isRHSExpression(a) /\ rhs(a) = v /\ (isCompound(a) <=> add)
  BY <1>1, <1>3 DEF isRHSVariable, isRHSExpression, rhs, isCompound
<1> QED BY <1>1, <1>2, <1>3, <1>4, <1>5, <1>6, <1>7 DEF a

\* The conversion and the addition of one addend.
EmitAddend(res, conv, spp, v, add, e) ==
  LET r == AddPermuteIfRequired(conv, spp, v, e.next)
  IN  [code |-> e.code \o r.code
                 \o <<ProgramAction(res, VariableTerm(r.var), add, NoScalar)>>,
       next |-> r.next]

\* H is held beside the sum and the addend v.
LEMMA EmitAddendOk ==
  ASSUME NEW prog \in Seq(Actions), NEW e, e.code \in Seq(Actions), NEW H, NEW v, NEW k \in Nat,
         NEW spp \in SUBSET Cells, NEW conv \in Conversions, NEW own \in SUBSET Cells,
         NEW add \in BOOLEAN,
         Lowerable(prog \o e.code, H \cup {v} \cup (IF add THEN {Temporary(k, spp)} ELSE {})),
         Below(prog \o e.code, e.next), k < e.next,
         ~ add => k \notin Names(prog \o e.code),
         v.name # k, \A w \in H : isLocal(w.name) => w.name < k /\ w.name # v.name
  PROVE  LET f   == EmitAddend(Temporary(k, spp), conv, own, v, add, e)
             new == prog \o f.code
         IN  /\ f.code \in Seq(Actions)
             /\ Lowerable(new, H \cup {Temporary(k, spp)})
             /\ Below(new, f.next) /\ k < f.next
             /\ Written(new) \subseteq Written(prog \o e.code)
             /\ Placed(prog \o e.code) /\ (IF conv = {} THEN v.spp ELSE ConvertedSpp(conv, own)) \subseteq spp
                  => Placed(new)
<1> DEFINE res  == Temporary(k, spp)
           K    == H \cup {v} \cup (IF add THEN {res} ELSE {})
           old  == prog \o e.code
           r    == AddPermuteIfRequired(conv, own, v, e.next)
           mid  == old \o r.code
           a    == ProgramAction(res, VariableTerm(r.var), add, NoScalar)
           f    == EmitAddend(res, conv, own, v, add, e)
           new  == Append(mid, a)
<1>1. /\ res \in Variables /\ res.name = k /\ res.spp = spp /\ isLocal(k)
      /\ isCompatible(res.lay, spp)
  BY TemporaryOk
<1>2. old \in Seq(Actions) /\ v \in K /\ e.next \in Nat
  BY DEF Below
<1>3. Lowerable(old, K) /\ Below(old, e.next)
  OBVIOUS
<1> HIDE DEF res, K, old
<1>4. /\ r.code \in Seq(Actions) /\ r.next \in Nat /\ r.next >= e.next
      /\ r.var \in Variables
      /\ r.var.spp = IF conv = {} THEN v.spp ELSE ConvertedSpp(conv, own)
      /\ r.var.name = v.name \/ (r.var.name \in Nat /\ r.var.name >= e.next)
      /\ Lowerable(mid, Rest(K, v) \cup {r.var})
      /\ Below(mid, r.next)
      /\ \A n \in Names(mid) : n \in Names(old) \/ n = v.name \/ n >= e.next
      /\ Written(mid) \subseteq Written(old)
      /\ Placed(old) => Placed(mid)
  BY <1>2, <1>3, AddPermuteOk
<1>5. mid \in Seq(Actions)
  BY <1>4 DEF Lowerable, Plain, Base
<1> HIDE DEF r, mid
<1>6. isCompatible(r.var.lay, r.var.spp)
  BY <1>4 DEF Lowerable
<1>7. r.var.name # k /\ k < r.next
  BY <1>2, <1>4
<1>8. /\ a \in Actions /\ isRHSVariable(a) /\ ~ isRHSExpression(a) /\ rhs(a) = r.var
      /\ Len(a.term.args) = 1
      /\ \A l \in DOMAIN a.term.args : a.term.args[l] = r.var
      /\ \A n : n \in TermNames(a.term) <=> n = r.var.name
      /\ \A n : n \in occurring(a) <=> n = r.var.name \/ n = res.name
      /\ a.result = res /\ Def(a) = res.name /\ a.scalar = NoScalar
      /\ isCompound(a) <=> add
      /\ isCompatible(r.var.lay, r.var.spp) /\ r.var.spp \subseteq res.lay.cells => WellPlaced(a)
  <2>1. NoScalar \in Nat
    BY DEF NoScalar
  <2>2. a = ProgramAction(res, VariableTerm(r.var), add, NoScalar)
    OBVIOUS
  <2> HIDE DEF a
  <2>4. isCompound(a) <=> add
    BY <1>1, <1>4, <2>1, <2>2, VariableTermOk
  <2>5. a.result = res /\ Def(a) = res.name /\ a.scalar = NoScalar
    BY <2>2 DEF ProgramAction, Def
  <2>6. /\ a \in Actions /\ isRHSVariable(a) /\ ~ isRHSExpression(a) /\ rhs(a) = r.var
        /\ Len(a.term.args) = 1
        /\ \A l \in DOMAIN a.term.args : a.term.args[l] = r.var
    BY <1>1, <1>4, <2>1, <2>2, VariableTermOk
  <2>7. 1 \in DOMAIN a.term.args
    <3>1. a.term \in Terms
      BY <2>6 DEF Actions
    <3>2. a.term.args \in Seq(Variables)
      BY <3>1 DEF Terms
    <3> QED BY <2>6, <3>2
  <2>8. \A n : n \in TermNames(a.term) <=> n = r.var.name
    BY <2>6, <2>7 DEF TermNames
  <2>9. \A n : n \in occurring(a) <=> n = r.var.name \/ n = res.name
    BY <2>5, <2>6, <2>8, OccurringNames
  <2>10. isCompatible(r.var.lay, r.var.spp) /\ r.var.spp \subseteq res.lay.cells => WellPlaced(a)
    BY <1>1, <1>4, <2>1, <2>2, VariableTermOk
  <2> QED BY <2>4, <2>5, <2>6, <2>8, <2>9, <2>10
<1> HIDE DEF a
<1>9. ~ add => NewTemporary(mid, a)
  <2> SUFFICES ASSUME ~ add PROVE NewTemporary(mid, a)
    OBVIOUS
  <2>1. k \notin Names(mid)
    BY <1>2, <1>4 DEF old
  <2>2. ScalarStatement(a)
    BY <1>8 DEF ScalarStatement
  <2> QED BY <1>1, <1>8, <2>1, <2>2 DEF NewTemporary, Names
<1>10. add => Accumulates(Rest(K, v) \cup {r.var}, a)
  <2> SUFFICES ASSUME add PROVE Accumulates(Rest(K, v) \cup {r.var}, a)
    OBVIOUS
  <2>1. res \in Rest(K, v)
    BY <1>1 DEF Rest, K
  <2> QED BY <1>1, <1>7, <1>8, <2>1 DEF Accumulates
<1>11. \A w \in H \cup {res} : \/ w = a.result
                              \/ /\ w \in Rest(K, v) \cup {r.var}
                                 /\ isLocal(w.name) => w.name \notin TermNames(a.term)
  <2> SUFFICES ASSUME NEW w \in H, w # res
               PROVE  /\ w \in Rest(K, v) \cup {r.var}
                      /\ isLocal(w.name) => w.name \notin TermNames(a.term)
    BY <1>8
  <2>1. w \in Rest(K, v)
    BY DEF Rest, K
  <2>2. ASSUME isLocal(w.name) PROVE w.name # r.var.name
    <3>1. w.name \in Nat
      <4>1. w \in K
        BY DEF K
      <4> QED BY <1>3, <2>2, <4>1, HeldBelow
    <3> QED BY <1>2, <1>4, <2>2, <3>1
  <2> QED BY <1>8, <2>1, <2>2
<1>12. Lowerable(new, H \cup {res})
  BY <1>1, <1>4, <1>8, <1>9, <1>10, <1>11, LowerableAppend
<1>13. /\ Names(new) = Names(mid) \cup occurring(a)
       /\ Written(new) = Written(mid) \cup ({Def(a)} \cap Tensor)
       /\ Placed(new) <=> Placed(mid) /\ WellPlaced(a)
  BY <1>5, <1>8, AppendNames
<1>14. Below(new, r.next)
  <2>1. isLocal(r.var.name) => r.var.name < r.next
    BY <1>4, HeldBelow
  <2> QED BY <1>1, <1>4, <1>7, <1>8, <1>13, <2>1 DEF Below
<1>15. Written(new) \subseteq Written(old)
  BY <1>1, <1>4, <1>8, <1>13 DEF isLocal
<1>16. Placed(old) /\ (IF conv = {} THEN v.spp ELSE ConvertedSpp(conv, own)) \subseteq spp => Placed(new)
  <2> SUFFICES ASSUME Placed(old), r.var.spp \subseteq spp PROVE Placed(new)
    BY <1>4
  <2>1. r.var.spp \subseteq res.lay.cells
    BY <1>1 DEF isCompatible
  <2> QED BY <1>4, <1>6, <1>8, <1>13, <2>1
<1>17. f.next = r.next /\ f.code = e.code \o r.code \o <<a>>
  BY DEF EmitAddend, r, a
<1>18. /\ f.code \in Seq(Actions)
       /\ prog \o f.code = new
  <2>1. <<a>> \in Seq(Actions)
    BY <1>8
  <2>2. e.code \o r.code \in Seq(Actions)
    BY <1>4
  <2>3. prog \o f.code = mid \o <<a>>
    <3> DEFINE s == e.code
               t == r.code
               u == <<a>>
    <3>1. s \in Seq(Actions) /\ t \in Seq(Actions) /\ u \in Seq(Actions)
      BY <1>4, <2>1
    <3>2. f.code = (s \o t) \o u /\ mid = (prog \o s) \o t
      BY <1>17 DEF mid, old
    <3> HIDE DEF s, t, u, f
    <3>3. prog \o ((s \o t) \o u) = ((prog \o s) \o t) \o u
      <4>1. s \o t \in Seq(Actions)
        BY <3>1
      <4>2. (prog \o s) \o t = prog \o (s \o t)
        BY SMTT(30), <3>1, ConcatAssociative
      <4>3. (prog \o (s \o t)) \o u = prog \o ((s \o t) \o u)
        BY SMTT(30), <3>1, <4>1, ConcatAssociative
      <4> QED BY <4>2, <4>3
    <3> QED BY <3>2, <3>3 DEF u
  <2>4. mid \o <<a>> = Append(mid, a)
    BY <1>5, <1>8
  <2>5. f.code \in Seq(Actions)
    BY <1>17, <2>1, <2>2
  <2> HIDE DEF f
  <2> QED BY <2>3, <2>4, <2>5
<1> HIDE DEF f, new
<1> QED BY <1>4, <1>7, <1>12, <1>14, <1>15, <1>16, <1>17, <1>18 DEF f, new, res, old

\* Temporaries are held once: no two of the variables are the same temporary.
DistinctLocals(vs) ==
  \A l, m \in 1 .. Len(vs) : isLocal(vs[l].name) /\ vs[l].name = vs[m].name => l = m
Apart(H, vs) ==
  \A w \in H : \A l \in 1 .. Len(vs) : isLocal(w.name) => w.name # vs[l].name

\* What is held, and what is known of the program, after j addends.
SumHeld(H, vs, j, res) ==
  H \cup {vs[l] : l \in j + 1 .. Len(vs)} \cup (IF j > 0 THEN {res} ELSE {})

AddendSpp(conv, own, v) == IF conv = {} THEN v.spp ELSE ConvertedSpp(conv, own)

AddendsOk(convs, own, vs) ==
  \A l \in 1 .. Len(vs) : convs[l] \in Conversions /\ own[l] \in SUBSET Cells
AddendsFit(convs, own, vs, spp) ==
  \A l \in 1 .. Len(vs) : AddendSpp(convs[l], own[l], vs[l]) \subseteq spp

SumGood(prog, H, vs, k, res, fits, j, e) ==
  LET new == prog \o e.code
  IN  /\ e.code \in Seq(Actions)
      /\ Lowerable(new, SumHeld(H, vs, j, res))
      /\ Below(new, e.next) /\ k < e.next
      /\ j = 0 => k \notin Names(new)
      /\ Written(new) \subseteq Written(prog)
      /\ Placed(prog) /\ fits => Placed(new)

LEMMA EmitSumStep ==
  ASSUME NEW prog \in Seq(Actions), NEW H, NEW vs \in Seq(Variables),
         NEW k \in Nat, NEW spp \in SUBSET Cells, NEW fits \in BOOLEAN,
         Lowerable(prog, H \cup ToSet(vs)), Below(prog, k),
         DistinctLocals(vs), Apart(H, vs),
         NEW j \in 0 .. Len(vs) - 1, NEW e,
         NEW conv \in Conversions, NEW own \in SUBSET Cells, NEW add \in BOOLEAN, add <=> j > 0,
         SumGood(prog, H, vs, k, Temporary(k, spp), fits, j, e),
         fits => AddendSpp(conv, own, vs[j + 1]) \subseteq spp
  PROVE  SumGood(prog, H, vs, k, Temporary(k, spp), fits, j + 1,
                 EmitAddend(Temporary(k, spp), conv, own, vs[j + 1], add, e))
<1> DEFINE n   == Len(vs)
           v   == vs[j + 1]
           res == Temporary(k, spp)
           K   == H \cup {vs[l] : l \in j + 2 .. n}
           f   == EmitAddend(Temporary(k, spp), conv, own, v, add, e)
<1>1. /\ n \in Nat /\ j \in Nat /\ j + 1 \in 1 .. n 
      /\ \A l : l \in j + 1 .. n <=> l = j + 1 \/ l \in j + 2 .. n
      /\ \A l \in j + 2 .. n : l \in 1 .. n /\ l # j + 1
      /\ v \in Variables
  OBVIOUS
<1>2. isLocal(k) /\ res.name = k
  BY TemporaryOk
<1>3. \A w \in H \cup {vs[l] : l \in 1 .. n} : isLocal(w.name) => w.name \in Nat /\ w.name < k
  <2>1. \A w \in H \cup ToSet(vs) : isLocal(w.name) => w.name \in Nat /\ w.name < k
    BY HeldBelow
  <2>2. \A l \in 1 .. n : vs[l] \in ToSet(vs)
    BY DEF ToSet
  <2> QED BY <2>1, <2>2
<1>4. v.name # k
  <2>1. isLocal(v.name) => v.name < k /\ v.name \in Nat
    BY <1>1, <1>3
  <2> QED BY <1>2, <2>1
<1>5. \A w \in K : isLocal(w.name) => w.name < k /\ w.name # v.name
  <2> TAKE w \in K
  <2>1. w \in H \/ \E l \in 1 .. n : l # j + 1 /\ w = vs[l]
    BY <1>1
  <2>2. isLocal(w.name) => w.name # v.name
    BY <1>1, <2>1 DEF DistinctLocals, Apart
  <2> QED BY <1>3, <2>1, <2>2
<1>6. SumHeld(H, vs, j, res) = K \cup {v} \cup (IF add THEN {Temporary(k, spp)} ELSE {})
  <2>1. {vs[l] : l \in j + 1 .. n} = {vs[l] : l \in j + 2 .. n} \cup {v}
    BY <1>1
  <2> HIDE DEF v
  <2> QED BY <2>1 DEF SumHeld
<1>7. SumHeld(H, vs, j + 1, res) = K \cup {Temporary(k, spp)}
  <2>1. j + 1 > 0 /\ (j + 1) + 1 = j + 2
    BY <1>1
  <2> QED BY <2>1 DEF SumHeld
<1>8. /\ e.code \in Seq(Actions)
      /\ Lowerable(prog \o e.code, K \cup {v} \cup (IF add THEN {Temporary(k, spp)} ELSE {}))
      /\ Below(prog \o e.code, e.next) /\ k < e.next
      /\ ~ add => k \notin Names(prog \o e.code)
      /\ Written(prog \o e.code) \subseteq Written(prog)
      /\ Placed(prog) /\ fits => Placed(prog \o e.code)
  <2>1. ~ add => j = 0
    BY <1>1
  <2>2. Lowerable(prog \o e.code, SumHeld(H, vs, j, res))
    BY DEF SumGood
  <2> HIDE DEF K, v, res
  <2>3. Lowerable(prog \o e.code, K \cup {v} \cup (IF add THEN {Temporary(k, spp)} ELSE {}))
    BY <1>6, <2>2
  <2> QED BY <2>1, <2>3 DEF SumGood
<1> HIDE DEF K, v, n
<1>9. /\ f.code \in Seq(Actions)
      /\ Lowerable(prog \o f.code, K \cup {Temporary(k, spp)})
      /\ Below(prog \o f.code, f.next) /\ k < f.next
      /\ Written(prog \o f.code) \subseteq Written(prog \o e.code)
      /\ Placed(prog \o e.code) /\ (IF conv = {} THEN v.spp ELSE ConvertedSpp(conv, own)) \subseteq spp
           => Placed(prog \o f.code)
  BY <1>1, <1>4, <1>5, <1>8, EmitAddendOk
<1>10. fits => (IF conv = {} THEN v.spp ELSE ConvertedSpp(conv, own)) \subseteq spp
  BY DEF AddendSpp, v
<1> HIDE DEF f
<1>11. Placed(prog) /\ fits => Placed(prog \o f.code)
  BY <1>8, <1>9, <1>10
<1>12. Written(prog \o f.code) \subseteq Written(prog)
  BY <1>8, <1>9
<1>13. j + 1 # 0
  BY <1>1
<1>14. Lowerable(prog \o f.code, SumHeld(H, vs, j + 1, res))
  BY <1>7, <1>9
<1>15. SumGood(prog, H, vs, k, res, fits, j + 1, f)
  BY <1>9, <1>11, <1>12, <1>13, <1>14 DEF SumGood
<1> QED BY <1>15 DEF f, v

\* The actions of a sum, addend by addend.
SumEmitted(emitted, convs, own, vs, k, spp) ==
  /\ emitted[0] = [code |-> <<>>, next |-> k + 1]
  /\ \A l \in 1 .. Len(vs) :
       emitted[l] = EmitAddend(Temporary(k, spp), convs[l], own[l], vs[l], l > 1, emitted[l - 1])

LEMMA EmitSum ==
  ASSUME NEW prog \in Seq(Actions), NEW H, NEW vs \in Seq(Variables),
         NEW k \in Nat, NEW spp \in SUBSET Cells, NEW fits \in BOOLEAN,
         Lowerable(prog, H \cup ToSet(vs)), Below(prog, k),
         DistinctLocals(vs), Apart(H, vs),
         NEW convs, NEW own, AddendsOk(convs, own, vs), fits => AddendsFit(convs, own, vs, spp),
         NEW emitted, SumEmitted(emitted, convs, own, vs, k, spp),
         NEW m \in 0 .. Len(vs)
  PROVE  SumGood(prog, H, vs, k, Temporary(k, spp), fits, m, emitted[m])
<1> DEFINE n       == Len(vs)
           Good(j) == SumGood(prog, H, vs, k, Temporary(k, spp), fits, j, emitted[j])
           P       == {j \in Nat : j <= n => Good(j)}
<1>1. n \in Nat
  OBVIOUS
<1>2. Good(0)
  <2> DEFINE e == emitted[0]
  <2>1. e.code = <<>> /\ e.next = k + 1
    BY DEF SumEmitted
  <2> HIDE DEF e
  <2>2. prog \o e.code = prog
    BY <2>1
  <2>3. SumHeld(H, vs, 0, Temporary(k, spp)) = H \cup ToSet(vs)
    <3>1. {vs[l] : l \in 1 .. Len(vs)} = ToSet(vs)
      BY DEF ToSet
    <3> QED BY <3>1 DEF SumHeld
  <2>4. k \notin Names(prog) /\ Below(prog, k + 1)
    <3>1. \A x \in Names(prog) : isLocal(x) => x \in Nat
      BY NamesInName, LocalNames
    <3>2. isLocal(k)
      BY LocalNames DEF Name
    <3> QED BY <3>1, <3>2 DEF Below
  <2>5. Lowerable(prog, SumHeld(H, vs, 0, Temporary(k, spp)))
    BY <2>3
  <2>6. k < e.next /\ e.code \in Seq(Actions)
    BY <2>1
  <2>7. Below(prog, e.next)
    BY <2>1, <2>4
  <2>8. SumGood(prog, H, vs, k, Temporary(k, spp), fits, 0, e)
    BY <2>2, <2>4, <2>5, <2>6, <2>7 DEF SumGood
  <2> QED BY <2>8 DEF e
<1>3. ASSUME NEW j \in Nat, j + 1 <= n, Good(j) PROVE Good(j + 1)
  <2>1. j \in 0 .. n - 1 /\ j + 1 \in 1 .. n /\ (j + 1) - 1 = j /\ (j + 1 > 1 <=> j > 0)
    BY <1>1, <1>3
  <2>2. emitted[j + 1] = EmitAddend(Temporary(k, spp), convs[j + 1], own[j + 1], vs[j + 1],
                                    j + 1 > 1, emitted[j])
    BY <2>1 DEF SumEmitted
  <2> DEFINE b == j + 1 > 1
  <2>3. b \in BOOLEAN /\ (b <=> j > 0)
    BY <2>1
  <2>4. emitted[j + 1] = EmitAddend(Temporary(k, spp), convs[j + 1], own[j + 1], vs[j + 1],
                                    b, emitted[j])
    BY <2>2, <2>3
  <2> HIDE DEF b
  <2> DEFINE e == emitted[j]
             c == convs[j + 1]
             o == own[j + 1]
  <2>5. c \in Conversions /\ o \in SUBSET Cells
    BY <2>1 DEF AddendsOk
  <2>6. fits => AddendSpp(c, o, vs[j + 1]) \subseteq spp
    BY <2>1 DEF AddendsFit
  <2>7. SumGood(prog, H, vs, k, Temporary(k, spp), fits, j, e)
    BY <1>3
  <2> HIDE DEF e, c, o
  <2>8. SumGood(prog, H, vs, k, Temporary(k, spp), fits, j + 1,
                EmitAddend(Temporary(k, spp), c, o, vs[j + 1], b, e))
    BY <2>1, <2>3, <2>5, <2>6, <2>7, EmitSumStep DEF n
  <2> QED BY <2>4, <2>8 DEF c, o, e
<1> HIDE DEF Good, P, n
<1>4. 0 \in P /\ \A j \in Nat : j \in P => j + 1 \in P
  <2>1. 0 <= n /\ \A j \in Nat : j + 1 \in Nat /\ (j + 1 <= n => j <= n)
    BY <1>1
  <2> QED BY <1>2, <1>3, <2>1 DEF P
<1>5. m \in P
  <2>1. Nat \subseteq P
    BY <1>4, NatSetInduction
  <2> QED BY <2>1 DEF n
<1> QED BY <1>5 DEF P, Good, n

Emissions == [code: Seq(Actions), next: Nat]

LEMMA EmitAddendType ==
  ASSUME NEW res \in Variables, NEW conv, NEW own \in SUBSET Cells, NEW v \in Variables,
         NEW add \in BOOLEAN, NEW e \in Emissions
  PROVE  EmitAddend(res, conv, own, v, add, e) \in Emissions
<1> USE DEF Emissions
<1> DEFINE r == AddPermuteIfRequired(conv, own, v, e.next)
<1>1. ASSUME NEW op \in NodeOps, NEW s \in SUBSET Cells, NEW k \in Nat, NEW w \in Variables
      PROVE  TransformOp(op, s, k, w) \in Actions /\ TransformOp(op, s, k, w).result \in Variables
  <2>1. Temporary(k, s) \in Variables
    BY TemporaryOk
  <2> QED BY <2>1 DEF TransformOp, ProgramAction, Actions, Terms, Scalars, NoScalar
<1>2. r.code \in Seq(Actions) /\ r.next \in Nat /\ r.var \in Variables
  <2> DEFINE pspp  == ConvertedSpp(conv \cap {"Permute"}, own)
             perm  == IF "Permute" \in conv
                      THEN <<TransformOp("Permute", pspp, e.next, v)>> ELSE <<>>
             inode == IF perm = <<>> THEN v ELSE perm[1].result
             kb    == e.next + Len(perm)
             bcast == IF "Broadcast" \in conv
                      THEN <<TransformOp("Broadcast", BroadcastSpp(pspp), kb, inode)>>
                      ELSE <<>>
  <2>1. pspp \in SUBSET Cells /\ BroadcastSpp(pspp) \in SUBSET Cells
    BY SppType
  <2> HIDE DEF pspp
  <2>2. perm \in Seq(Actions) /\ Len(perm) \in Nat /\ inode \in Variables
    <3>1. TransformOp("Permute", pspp, e.next, v) \in Actions
          /\ TransformOp("Permute", pspp, e.next, v).result \in Variables
      BY <1>1, <2>1 DEF NodeOps
    <3> DEFINE a == TransformOp("Permute", pspp, e.next, v)
    <3>2. a \in Actions /\ a.result \in Variables
      BY <3>1
    <3> HIDE DEF a
    <3>3. CASE "Permute" \in conv
      <4>1. perm = <<a>>
        BY <3>3 DEF a
      <4>2. perm # <<>> /\ perm[1] = a
        BY <4>1
      <4> HIDE DEF perm
      <4> QED BY <3>2, <4>1, <4>2 DEF inode
    <3>4. CASE "Permute" \notin conv
      BY <3>4
    <3> QED BY <3>3, <3>4
  <2> HIDE DEF perm, inode
  <2>3. kb \in Nat
    BY <2>2
  <2> HIDE DEF kb
  <2>4. bcast \in Seq(Actions) /\ Len(bcast) \in Nat /\ (bcast # <<>> => bcast[1].result \in Variables)
    <3> DEFINE a == TransformOp("Broadcast", BroadcastSpp(pspp), kb, inode)
    <3>1. a \in Actions /\ a.result \in Variables
      BY <1>1, <2>1, <2>2, <2>3 DEF NodeOps
    <3> HIDE DEF a
    <3>2. CASE "Broadcast" \in conv
      <4>1. bcast = <<a>>
        BY <3>2 DEF a
      <4> HIDE DEF bcast
      <4> QED BY <3>1, <4>1
    <3>3. CASE "Broadcast" \notin conv
      BY <3>3
    <3> QED BY <3>2, <3>3
  <2> HIDE DEF bcast
  <2>5. r = [code |-> perm \o bcast,
             var  |-> IF bcast = <<>> THEN inode ELSE bcast[1].result,
             next |-> kb + Len(bcast)]
    BY DEF AddPermuteIfRequired, bcast, kb, inode, perm, pspp
  <2> HIDE DEF r
  <2> QED BY <2>2, <2>3, <2>4, <2>5
<1> HIDE DEF r
<1> DEFINE a == ProgramAction(res, VariableTerm(r.var), add, NoScalar)
<1>3. a \in Actions
  BY <1>2, VariableTermOk DEF NoScalar
<1>4. EmitAddend(res, conv, own, v, add, e) = [code |-> e.code \o r.code \o <<a>>, next |-> r.next]
  BY DEF EmitAddend, r, a
<1> HIDE DEF a
<1>5. e.code \o r.code \o <<a>> \in Seq(Actions)
  <2>1. <<a>> \in Seq(Actions) /\ e.code \o r.code \in Seq(Actions)
    BY <1>2, <1>3
  <2> QED BY <2>1
<1> QED BY <1>2, <1>4, <1>5

\* The recursive definition in visit_Add has a solution.
LEMMA SumEmittedExists ==
  ASSUME NEW vs \in Seq(Variables), NEW k \in Nat, NEW spp \in SUBSET Cells,
         NEW convs, NEW own, \A l \in 1 .. Len(vs) : own[l] \in SUBSET Cells
  PROVE  \E f \in [0 .. Len(vs) -> Emissions] : SumEmitted(f, convs, own, vs, k, spp)
<1> DEFINE n    == Len(vs)
           res  == Temporary(k, spp)
           base == [code |-> <<>>, next |-> k + 1]
           step == [p \in (1 .. n) \X Emissions |->
                      EmitAddend(res, convs[p[1]], own[p[1]], vs[p[1]], p[1] > 1, p[2])]
<1>1. n \in Nat /\ base \in Emissions
  BY DEF Emissions
<1>2. step \in StepFunctions(n, Emissions)
  <2> SUFFICES ASSUME NEW l \in 1 .. n, NEW e \in Emissions
               PROVE  EmitAddend(res, convs[l], own[l], vs[l], l > 1, e) \in Emissions
    BY DEF StepFunctions
  <2> DEFINE c == convs[l]
             o == own[l]
             v == vs[l]
             b == l > 1
  <2>1. o \in SUBSET Cells /\ v \in Variables /\ b \in BOOLEAN /\ res \in Variables
    BY TemporaryOk
  <2> HIDE DEF c, o, v, b, res
  <2>2. EmitAddend(res, c, o, v, b, e) \in Emissions
    BY <2>1, EmitAddendType
  <2> QED BY <2>2 DEF c, o, v, b
<1> HIDE DEF base, step
<1>3. PICK f \in [0 .. n -> Emissions] :
        f[0] = base /\ \A l \in 1 .. n : f[l] = step[<<l, f[l - 1]>>]
  BY <1>1, <1>2, RecursionExists
<1>4. ASSUME NEW l \in 1 .. n
      PROVE  f[l] = EmitAddend(res, convs[l], own[l], vs[l], l > 1, f[l - 1])
  <2>1. l - 1 \in 0 .. n
    BY <1>1
  <2>2. f[l - 1] \in Emissions
    BY <2>1
  <2>3. f[l] = step[<<l, f[l - 1]>>]
    BY <1>3
  <2> QED BY <2>2, <2>3 DEF step
<1> QED BY <1>3, <1>4 DEF SumEmitted, base

-----------------------------------------------------------------------------
(* The invariant of the lowering *)

Pending(st) == {st[k].var : k \in 1 .. Len(st)}

StackOk(st) ==
  /\ \E S : st \in Seq(S)
  /\ \A k \in 1 .. Len(st) : st[k].spp = st[k].var.spp
  /\ \A k, l \in 1 .. Len(st) :
       isLocal(st[k].var.name) /\ st[k].var.name = st[l].var.name => k = l

\* The temporaries that the visitor holds have the layout of their pattern.
BoundingBoxes ==
  \A v \in Pending(stack) : isLocal(v.name) => v.lay = Layout(v.spp, v.spp = Cells)

LInv ==
  /\ Lowerable(cfg, Pending(stack))
  /\ Below(cfg, tmp)
  /\ StackOk(stack)
  /\ BoundingBoxes
  /\ target # NoTarget => target \in Tensor /\ target \in writable
  /\ Written(cfg) \subseteq writable
  /\ misplaced \in BOOLEAN
  /\ ~ misplaced => Placed(cfg)

\* The operands on the stack, and what is left of it.
LEMMA StackTop ==
  ASSUME StackOk(stack), NEW n \in Nat, n <= Len(stack)
  PROVE  /\ Len(stack) \in Nat
         /\ Len(Top(n)) = n /\ DOMAIN Top(n) = 1 .. n
         /\ \A k \in 1 .. n : /\ Len(stack) - n + k \in 1 .. Len(stack)
                              /\ Len(stack) - n + k \notin 1 .. Len(stack) - n
                              /\ Top(n)[k] = stack[Len(stack) - n + k]
<1>1. PICK S : stack \in Seq(S)
  BY DEF StackOk
<1>2. Len(stack) \in Nat
  BY <1>1
<1>3. \A m, k \in Int : m + 1 .. m + k \subseteq Int
  OBVIOUS
<1> DEFINE len == Len(stack)
           top == SubSeq(stack, len - n + 1, len)
<1>4. Len(top) = n /\ DOMAIN top = 1 .. n /\ \A k \in 1 .. n : top[k] = stack[len - n + k]
  BY <1>1, <1>2
<1>5. \A k \in 1 .. n : len - n + k \in 1 .. len /\ len - n + k \notin 1 .. len - n
  BY <1>2
<1> QED BY <1>2, <1>4, <1>5 DEF Top

PendingBelow(n) == {stack[k].var : k \in 1 .. Len(stack) - n}

LEMMA StackReplaced ==
  ASSUME StackOk(stack), NEW n \in Nat, n <= Len(stack), NEW e, e.spp = e.var.spp,
         \A v \in Pending(stack) : isLocal(v.name) => v.name # e.var.name
  PROVE  /\ StackOk(Replaced(n, e))
         /\ \A v : v \in Pending(Replaced(n, e)) <=> v \in PendingBelow(n) \cup {e.var}
<1>1. PICK S : stack \in Seq(S)
  BY DEF StackOk
<1> DEFINE m   == Len(stack) - n
           sub == SubSeq(stack, 1, m)
           st  == Append(sub, e)
           T   == S \cup {e}
<1>2. m \in Nat /\ \A k \in 1 .. m : k \in 1 .. Len(stack)
  BY <1>1
<1>3. sub \in Seq(S) /\ Len(sub) = m /\ \A k \in 1 .. m : sub[k] = stack[k]
  BY <1>1, <1>2
<1>4. sub \in Seq(T)
  BY <1>3
<1> HIDE DEF sub, T
<1>5. st \in Seq(T) /\ Len(st) = m + 1 /\ st[m + 1] = e /\ \A k \in 1 .. m : st[k] = stack[k]
  BY <1>2, <1>3, <1>4 DEF T
<1>6. \A k \in 1 .. m + 1 : k \in 1 .. m \/ k = m + 1
  BY <1>2
<1>7. \A k \in 1 .. m : k \in 1 .. m + 1 /\ m + 1 \in 1 .. m + 1 /\ stack[k].var \in Pending(stack)
  BY <1>2 DEF Pending
<1> HIDE DEF st, m
<1>8. StackOk(st)
  <2>1. \A k \in 1 .. Len(st) : st[k].spp = st[k].var.spp
    BY <1>2, <1>5, <1>6 DEF StackOk
  <2>2. ASSUME NEW k \in 1 .. Len(st), NEW l \in 1 .. Len(st),
               isLocal(st[k].var.name), st[k].var.name = st[l].var.name
        PROVE  k = l
    <3>1. CASE k \in 1 .. m /\ l \in 1 .. m
      BY <1>2, <1>5, <2>2, <3>1 DEF StackOk
    <3>2. CASE k = m + 1 \/ l = m + 1
      BY <1>5, <1>6, <1>7, <2>2, <3>2
    <3> QED BY <1>5, <1>6, <3>1, <3>2
  <2> QED BY <1>5, <2>1, <2>2 DEF StackOk
<1>9. \A v : v \in Pending(st) <=> v \in PendingBelow(n) \cup {e.var}
  <2>1. m + 1 \in 1 .. m + 1
    BY <1>2
  <2> QED BY <1>5, <1>6, <1>7, <2>1 DEF Pending, PendingBelow, m
<1>10. st = Replaced(n, e)
  BY DEF st, sub, m, Replaced
<1> QED BY <1>8, <1>9, <1>10

Returned(n, v) == PendingBelow(n) \cup {v}

\* A visit_ method returns a new temporary in the place of its operands.
LEMMA VisitReturns ==
  ASSUME LInv, NEW n \in Nat, n <= Len(stack), NEW spp \in SUBSET Cells,
         NEW e, e.var = Temporary(tmp, spp), e.spp = spp,
         stack' = Replaced(n, e),
         Lowerable(cfg', Returned(n, e.var)), Below(cfg', tmp'),
         Written(cfg') \subseteq Written(cfg),
         misplaced' \in BOOLEAN, ~ misplaced' => Placed(cfg'),
         UNCHANGED <<writable, target, simpleMemoryLayout>>
  PROVE  LInv'
<1>1. /\ Lowerable(cfg, Pending(stack)) /\ Below(cfg, tmp) /\ StackOk(stack)
      /\ BoundingBoxes /\ Written(cfg) \subseteq writable
      /\ target # NoTarget => target \in Tensor /\ target \in writable
  BY DEF LInv
<1>2. tmp \in Nat
  BY <1>1 DEF Below
<1>3. e.var.name = tmp /\ e.var.spp = spp /\ isLocal(tmp)
  BY <1>2, TemporaryOk
<1>4. \A v \in Pending(stack) : isLocal(v.name) => v.name # e.var.name
  <2> TAKE v \in Pending(stack)
  <2>1. isLocal(v.name) => v.name \in Nat /\ v.name < tmp
    BY <1>1, HeldBelow
  <2> QED BY <1>2, <1>3, <2>1
<1>5. /\ StackOk(Replaced(n, e))
      /\ \A v : v \in Pending(Replaced(n, e)) <=> v \in PendingBelow(n) \cup {e.var}
  BY <1>1, <1>3, <1>4, StackReplaced
<1>6. StackOk(stack')
  BY <1>5
<1>7. Pending(stack') = PendingBelow(n) \cup {e.var}
  BY <1>5
<1>8. BoundingBoxes'
  <2>1. \A s, b : Layout(s, b)' = Layout(s, b)
    BY DEF Layout
  <2>2. e.var.lay = Layout(e.var.spp, e.var.spp = Cells)
    BY <1>3 DEF Temporary
  <2>3. PendingBelow(n) \subseteq Pending(stack)
    BY <1>1, StackTop DEF PendingBelow, Pending
  <2>4. ASSUME NEW v \in Pending(stack'), isLocal(v.name)
        PROVE  v.lay = Layout(v.spp, v.spp = Cells)
    BY <1>1, <1>7, <2>2, <2>3, <2>4 DEF BoundingBoxes
  <2>5. ASSUME NEW v \in Pending(stack'), isLocal(v.name)
        PROVE  v.lay = Layout(v.spp, v.spp = Cells)'
    BY <2>4, <2>5 DEF Layout
  <2> QED BY <2>5 DEF BoundingBoxes, isLocal
<1>9. Lowerable(cfg', Pending(stack'))
  BY <1>7 DEF Returned
<1>10. Written(cfg') \subseteq writable'
  BY <1>1
<1>11. target' # NoTarget => target' \in Tensor /\ target' \in writable'
  BY <1>1
<1> QED BY <1>6, <1>8, <1>9, <1>10, <1>11 DEF LInv

LEMMA InitLInv == LInit => LInv
<1> SUFFICES ASSUME LInit PROVE LInv
  OBVIOUS
<1>1. cfg = <<>> /\ stack = <<>> /\ tmp = 0 /\ target = NoTarget /\ misplaced = FALSE /\ writable = {}
  BY DEF LInit
<1>2. cfg \in Seq(Actions) /\ Len(cfg) = 0 /\ 1 .. Len(cfg) = {} /\ Len(stack) = 0 /\ 1 .. Len(stack) = {}
  BY <1>1
<1>3. Pending(stack) = {} /\ Names(cfg) = {} /\ Written(cfg) = {}
  BY <1>2 DEF Pending, Names, Written
<1>4. Flow(cfg)
  BY <1>2 DEF Flow, LocalsFlow, ConsumedLast, NoSelfSum
<1>5. Base(cfg)
  BY <1>2, <1>4 DEF Base, OneOperand, Fit
<1>6. Plain(cfg)
  BY <1>2, <1>5 DEF Plain, NoSelf, OneShape, PlainExpressions, TemporaryExpressions, ScalarStatements
<1>7. Lowerable(cfg, Pending(stack))
  BY <1>3, <1>6 DEF Lowerable
<1>8. StackOk(stack)
  <2>1. stack \in Seq({})
    BY <1>1
  <2> QED BY <1>2, <2>1 DEF StackOk
<1>9. Below(cfg, tmp) /\ BoundingBoxes /\ Placed(cfg)
  BY <1>1, <1>2, <1>3 DEF Below, BoundingBoxes, Placed
<1> QED BY <1>1, <1>3, <1>7, <1>8, <1>9 DEF LInv

LEMMA EnterAssignOk ==
  ASSUME LInv, NEW n \in Tensor, EnterAssign(n)
  PROVE  LInv'
<1>1. UNCHANGED <<cfg, tmp, stack, misplaced, simpleMemoryLayout>> /\ target' = n /\ writable' = writable \cup {n}
  BY DEF EnterAssign
<1>2. BoundingBoxes'
  BY <1>1 DEF LInv, BoundingBoxes, Layout, Pending, isLocal
<1>3. /\ Lowerable(cfg', Pending(stack')) /\ Below(cfg', tmp') /\ StackOk(stack')
      /\ Written(cfg') \subseteq writable' /\ misplaced' \in BOOLEAN
      /\ ~ misplaced' => Placed(cfg')
  BY <1>1 DEF LInv
<1> QED BY <1>1, <1>2, <1>3 DEF LInv

LEMMA VisitTensorOk ==
  ASSUME LInv, NEW n \in Tensor, visit_IndexedTensor(n)
  PROVE  LInv'
<1> DEFINE v == TensorVariable(n)
           e == [var  |-> v, node |-> "IndexedTensor", val |-> meaning[n], spp |-> TensorCells[n]]
<1>1. /\ UNCHANGED <<cfg, tmp, writable, target, misplaced, simpleMemoryLayout>>
      /\ stack' = Append(stack, e)
  BY DEF visit_IndexedTensor
<1>2. /\ v \in Variables /\ v.name = n /\ v.spp = TensorCells[n]
      /\ isCompatible(v.lay, v.spp) /\ ~ isLocal(v.name)
  BY TensorVariableOk
<1>3. StackOk(stack) /\ Lowerable(cfg, Pending(stack)) /\ BoundingBoxes
  BY DEF LInv
<1>4. e.var = v /\ e.spp = v.spp
  BY <1>2
<1>5. PICK S : stack \in Seq(S)
  BY <1>3 DEF StackOk
<1> HIDE DEF v, e
<1> DEFINE m == Len(stack)
           T == S \cup {e}
<1>6. /\ m \in Nat /\ stack' \in Seq(T) /\ Len(stack') = m + 1 /\ stack'[m + 1] = e
      /\ \A k \in 1 .. m : stack'[k] = stack[k]
  <2>1. stack \in Seq(T) /\ e \in T
    BY <1>5
  <2> HIDE DEF T
  <2> QED BY <1>1, <2>1
<1>7. /\ \A k \in 1 .. m + 1 : k \in 1 .. m \/ k = m + 1
      /\ \A k \in 1 .. m : k \in 1 .. m + 1
      /\ m + 1 \in 1 .. m + 1
  BY <1>6
<1> HIDE DEF m
<1>8. \A w : w \in Pending(stack') <=> w \in Pending(stack) \/ w = v
  <2>1. Len(stack) = m
    BY DEF m
  <2> QED BY <1>4, <1>6, <1>7, <2>1 DEF Pending
<1>9. StackOk(stack')
  <2>1. Len(stack) = m
    BY DEF m
  <2>2. \A k \in 1 .. m + 1 : stack'[k].spp = stack'[k].var.spp
    BY <1>3, <1>4, <1>6, <1>7, <2>1 DEF StackOk
  <2>3. ASSUME NEW k \in 1 .. m + 1, NEW l \in 1 .. m + 1,
               isLocal(stack'[k].var.name), stack'[k].var.name = stack'[l].var.name
        PROVE  k = l
    <3>1. k \in 1 .. m /\ l \in 1 .. m
      BY <1>2, <1>4, <1>6, <1>7, <2>3
    <3> QED BY <1>3, <1>6, <2>1, <2>3, <3>1 DEF StackOk
  <2> QED BY <1>6, <2>2, <2>3 DEF StackOk
<1>10. Lowerable(cfg', Pending(stack'))
  <2>1. Held(cfg, v)
    BY <1>2 DEF Held
  <2> QED BY <1>1, <1>2, <1>3, <1>8, <2>1 DEF Lowerable
<1>11. BoundingBoxes'
  <2>1. \A w \in Pending(stack') : isLocal(w.name) => w.lay = Layout(w.spp, w.spp = Cells)
    BY <1>2, <1>3, <1>8 DEF BoundingBoxes
  <2> QED BY <1>1, <2>1 DEF BoundingBoxes, Layout, isLocal
<1>12. /\ Below(cfg', tmp') /\ Written(cfg') \subseteq writable' /\ misplaced' \in BOOLEAN
       /\ ~ misplaced' => Placed(cfg')
       /\ target' # NoTarget => target' \in Tensor /\ target' \in writable'
  BY <1>1 DEF LInv
<1> QED BY <1>9, <1>10, <1>11, <1>12 DEF LInv

\* The operands of a node are held, and differ from what is left on the stack.
LEMMA Operands ==
  ASSUME LInv, NEW n \in Nat, n <= Len(stack)
  PROVE  LET vs == Field(Top(n), "var")
         IN  /\ vs \in Seq(Variables) /\ Len(vs) = n
             /\ \A k \in 1 .. n : vs[k] = Top(n)[k].var /\ vs[k] \in Pending(stack)
                                  /\ Top(n)[k].spp = vs[k].spp
             /\ \A v \in PendingBelow(n) : v \in Pending(stack)
             /\ DistinctLocals(vs) /\ Apart(PendingBelow(n), vs)
<1> DEFINE vs  == Field(Top(n), "var")
           len == Len(stack)
<1>1. StackOk(stack) /\ Lowerable(cfg, Pending(stack))
  BY DEF LInv
<1>2. /\ len \in Nat
      /\ Len(Top(n)) = n /\ DOMAIN Top(n) = 1 .. n
      /\ \A k \in 1 .. n : /\ len - n + k \in 1 .. len
                           /\ len - n + k \notin 1 .. len - n
                           /\ Top(n)[k] = stack[len - n + k]
  BY <1>1, StackTop
<1>3. DOMAIN vs = 1 .. n /\ \A k \in 1 .. n : vs[k] = stack[len - n + k].var
  BY <1>2 DEF Field
<1>4. \A k \in 1 .. n : vs[k] = Top(n)[k].var /\ Top(n)[k].spp = vs[k].spp
  BY <1>1, <1>2, <1>3 DEF StackOk
<1>5. \A k \in 1 .. n : vs[k] \in Pending(stack)
  BY <1>2, <1>3 DEF Pending
<1>6. \A k \in 1 .. n : vs[k] \in Variables
  BY <1>1, <1>5 DEF Lowerable
<1>7. vs \in Seq(Variables) /\ Len(vs) = n
  <2>1. vs = [k \in 1 .. n |-> vs[k]]
    BY <1>2 DEF Field
  <2> HIDE DEF vs
  <2>2. vs \in [1 .. n -> Variables]
    BY <1>6, <2>1
  <2>3. vs \in Seq(Variables)
    BY <2>2
  <2> QED BY <1>3, <2>3
<1> HIDE DEF vs
<1>8. DistinctLocals(vs)
  <2> SUFFICES ASSUME NEW l \in 1 .. n, NEW m \in 1 .. n,
                      isLocal(vs[l].name), vs[l].name = vs[m].name
               PROVE  l = m
    BY <1>7 DEF DistinctLocals
  <2>1. len - n + l = len - n + m
    BY <1>1, <1>2, <1>3 DEF StackOk
  <2> QED BY <1>2, <2>1
<1>9. Apart(PendingBelow(n), vs)
  <2> SUFFICES ASSUME NEW k \in 1 .. len - n, NEW l \in 1 .. n, isLocal(stack[k].var.name)
               PROVE  stack[k].var.name # vs[l].name
    BY <1>7 DEF Apart, PendingBelow
  <2>1. k \in 1 .. len /\ k # len - n + l
    BY <1>2
  <2> QED BY <1>1, <1>2, <1>3, <2>1 DEF StackOk
<1>10. \A v \in PendingBelow(n) : v \in Pending(stack)
  <2>1. \A k \in 1 .. len - n : k \in 1 .. len
    BY <1>2
  <2> QED BY <2>1 DEF PendingBelow, Pending
<1> QED BY <1>4, <1>5, <1>7, <1>8, <1>9, <1>10 DEF vs

\* The number of the next temporary is new.
LEMMA NextTemporary ==
  ASSUME LInv, NEW a, Def(a) = tmp
  PROVE  /\ tmp \in Nat /\ isLocal(tmp)
         /\ tmp \notin Names(cfg)
         /\ \A k \in 1 .. Len(cfg) : Def(a) \notin occurring(cfg[k])
<1>1. tmp \in Nat /\ \A n \in Names(cfg) : isLocal(n) => n < tmp
  BY DEF LInv, Below
<1>2. isLocal(tmp)
  BY <1>1, LocalNames DEF Name
<1>3. tmp \notin Names(cfg)
  BY <1>1, <1>2
<1> QED BY <1>1, <1>2, <1>3 DEF Names

\* One action that reads the n topmost operands and defines a new temporary.
LEMMA EmitNode ==
  ASSUME LInv, NEW n \in Nat, n <= Len(stack), NEW spp \in SUBSET Cells,
         NEW a \in Actions, a.result = Temporary(tmp, spp), a.term.args = Field(Top(n), "var"),
         ~ isCompound(a), ScalarStatement(a), isRHSVariable(a) => n = 1, WellPlaced(a)
  PROVE  LET new == Append(cfg, a)
         IN  /\ Lowerable(new, Returned(n, Temporary(tmp, spp)))
             /\ Below(new, tmp + 1)
             /\ Written(new) \subseteq Written(cfg)
             /\ ~ misplaced => Placed(new)
<1> DEFINE vs  == Field(Top(n), "var")
           H   == Pending(stack)
           G   == Returned(n, a.result)
           new == Append(cfg, a)
<1>1. /\ Lowerable(cfg, H) /\ Below(cfg, tmp) /\ cfg \in Seq(Actions) /\ tmp \in Nat
      /\ misplaced \in BOOLEAN /\ (~ misplaced => Placed(cfg))
  BY DEF LInv, Lowerable, Plain, Base, Below
<1>2. /\ vs \in Seq(Variables) /\ Len(vs) = n
      /\ \A k \in 1 .. n : vs[k] \in H
      /\ \A v \in PendingBelow(n) : v \in H
      /\ Apart(PendingBelow(n), vs)
  BY Operands
<1>3. Def(a) = tmp /\ isCompatible(a.result.lay, a.result.spp)
  BY <1>1, TemporaryOk DEF Def
<1>4. isLocal(tmp) /\ \A k \in 1 .. Len(cfg) : Def(a) \notin occurring(cfg[k])
  BY <1>3, NextTemporary
<1>5. NewTemporary(cfg, a)
  BY <1>3, <1>4 DEF NewTemporary
<1> HIDE DEF vs
<1>6. a.term.args = vs /\ DOMAIN vs = 1 .. n
  BY <1>2 DEF vs
<1>7. /\ {a.term.args[l] : l \in DOMAIN a.term.args} \subseteq H
      /\ isRHSVariable(a) => Len(a.term.args) = 1
  BY <1>2, <1>6
<1>8. \A v \in G : \/ v = a.result
                   \/ v \in H /\ (isLocal(v.name) => v.name \notin TermNames(a.term))
  <2> TAKE v \in G
  <2>1. CASE v = a.result
    BY <2>1
  <2>2. CASE v \in PendingBelow(n)
    BY <1>2, <1>6, <2>2 DEF Apart, TermNames
  <2> QED BY <2>1, <2>2 DEF Returned
<1> HIDE DEF H, G
<1>9. Lowerable(new, G)
  BY <1>1, <1>3, <1>5, <1>7, <1>8, LowerableAppend
<1>10. /\ Names(new) = Names(cfg) \cup occurring(a)
       /\ Written(new) = Written(cfg) \cup ({Def(a)} \cap Tensor)
       /\ Placed(new) <=> Placed(cfg) /\ WellPlaced(a)
  BY <1>1, AppendNames
<1>11. Below(new, tmp + 1)
  <2>1. \A m \in TermNames(a.term) : isLocal(m) => m \in Nat /\ m < tmp
    <3> TAKE m \in TermNames(a.term)
    <3>1. PICK l \in DOMAIN a.term.args : m = a.term.args[l].name
      BY DEF TermNames
    <3>2. a.term.args[l] \in H
      BY <1>7
    <3> QED BY <1>1, <3>1, <3>2, HeldBelow
  <2>2. occurring(a) = TermNames(a.term) \cup {Def(a)}
    BY OccurringNames
  <2>3. \A m \in Names(cfg) : isLocal(m) => m \in Nat /\ m < tmp
    BY <1>1, NamesInName, LocalNames DEF Below
  <2>4. \A m \in Names(new) : isLocal(m) => m \in Nat /\ (m < tmp \/ m = tmp)
    BY <1>1, <1>3, <1>10, <2>1, <2>2, <2>3
  <2> QED BY <1>1, <2>4 DEF Below
<1>12. Written(new) \subseteq Written(cfg)
  BY <1>3, <1>4, <1>10 DEF isLocal
<1> QED BY <1>1, <1>9, <1>10, <1>11, <1>12 DEF G

LEMMA VisitNodeOk ==
  ASSUME LInv, NEW n \in Arities, NEW fuse \in BOOLEAN, generic_visit(n, fuse)
  PROVE  LInv'
<1> DEFINE args == Field(Top(n), "var")
           spp  == OpSpp(Field(Top(n), "spp"))
           res  == Temporary(tmp, spp)
           a    == ProgramAction(res, [op |-> "Op", args |-> args, spp |-> spp, fuse |-> fuse],
                                 FALSE, NoScalar)
           e    == [var |-> res, node |-> "Op", val |-> OpValue(Field(Top(n), "val")), spp |-> spp]
<1>1. /\ Len(stack) >= n
      /\ fuse => res.lay.fuse /\ \A k \in 1 .. n : args[k].lay.fuse
      /\ cfg' = Append(cfg, a) /\ stack' = Replaced(n, e) /\ tmp' = tmp + 1
      /\ UNCHANGED <<writable, target, misplaced, simpleMemoryLayout>>
  BY DEF generic_visit
<1>2. n \in Nat /\ n <= Len(stack)
  <2>1. Len(stack) \in Nat
    BY DEF LInv, StackOk
  <2> QED BY <1>1, <2>1, KernelAssumption
<1>3. /\ args \in Seq(Variables) /\ Len(args) = n
      /\ \A k \in 1 .. n : args[k] \in Pending(stack)
  BY <1>2, Operands
<1>4. spp \in SUBSET Cells
  BY DEF OpSpp
<1>5. e.var = Temporary(tmp, spp) /\ e.spp = spp
  OBVIOUS
<1> HIDE DEF args, spp, e
<1>6. tmp \in Nat /\ Lowerable(cfg, Pending(stack))
  BY DEF LInv, Below
<1>7. res \in Variables /\ isCompatible(res.lay, spp)
  BY <1>4, <1>6, TemporaryOk
<1>8. /\ a.result = Temporary(tmp, spp) /\ a.term.args = args /\ a.term.op = "Op"
      /\ a.term.spp = spp /\ a.term.fuse = fuse /\ a.add = FALSE /\ a.scalar = NoScalar
  BY DEF ProgramAction
<1> HIDE DEF res
<1>9. a \in Actions
  BY <1>3, <1>4, <1>7 DEF ProgramAction, Actions, Terms, Scalars, NoScalar, NodeOps
<1>10. res = Temporary(tmp, spp) /\ a.result = res
  BY DEF res, ProgramAction
<1> HIDE DEF a
<1>11. ~ isCompound(a) /\ ScalarStatement(a) /\ ~ isRHSVariable(a)
  BY <1>8 DEF isCompound, ScalarStatement, isRHSVariable
<1>12. WellPlaced(a)
  <2>1. \A k \in 1 .. n : isCompatible(args[k].lay, args[k].spp)
    BY <1>3, <1>6 DEF Lowerable
  <2>2. DOMAIN args = 1 .. n
    BY <1>3
  <2> QED BY <1>1, <1>7, <1>8, <1>10, <2>1, <2>2 DEF WellPlaced, resultCompatible
<1>13. a.term.args = Field(Top(n), "var")
  BY <1>8 DEF args
<1> DEFINE new == Append(cfg, a)
<1>14. /\ Lowerable(new, Returned(n, Temporary(tmp, spp)))
       /\ Below(new, tmp + 1)
       /\ Written(new) \subseteq Written(cfg)
       /\ ~ misplaced => Placed(new)
  BY <1>2, <1>4, <1>8, <1>9, <1>11, <1>12, <1>13, EmitNode
<1> HIDE DEF new
<1>15. cfg' = new /\ tmp' = tmp + 1 /\ misplaced' = misplaced /\ stack' = Replaced(n, e)
       /\ UNCHANGED <<writable, target, simpleMemoryLayout>>
  BY <1>1 DEF new
<1>16. /\ Lowerable(cfg', Returned(n, e.var)) /\ Below(cfg', tmp')
       /\ Written(cfg') \subseteq Written(cfg)
       /\ misplaced' \in BOOLEAN /\ (~ misplaced' => Placed(cfg'))
       /\ stack' = Replaced(n, e)
       /\ UNCHANGED <<writable, target, simpleMemoryLayout>>
  <2>1. misplaced \in BOOLEAN
    BY DEF LInv
  <2> QED BY <1>5, <1>14, <1>15, <2>1
<1> QED BY <1>2, <1>4, <1>5, <1>16, VisitReturns

LEMMA VisitScalarOk ==
  ASSUME LInv, NEW s \in ScalarValues, visit_ScalarMultiplication(s)
  PROVE  LInv'
<1> DEFINE child == Last(stack)
           res   == Temporary(tmp, child.spp)
           a     == ProgramAction(res, VariableTerm(child.var), FALSE, s)
           e     == [var |-> res, node |-> "ScalarMultiplication",
                     val |-> ScaleValue(s, child.val), spp |-> child.spp]
<1>1. /\ Len(stack) >= 1
      /\ cfg' = Append(cfg, a) /\ stack' = Replaced(1, e) /\ tmp' = tmp + 1
      /\ UNCHANGED <<writable, target, misplaced, simpleMemoryLayout>>
  BY DEF visit_ScalarMultiplication
<1>2. /\ Lowerable(cfg, Pending(stack)) /\ StackOk(stack) /\ BoundingBoxes /\ tmp \in Nat
  BY DEF LInv, Below
<1>3. Len(stack) \in Nat /\ 1 <= Len(stack)
  BY <1>1, <1>2 DEF StackOk
<1> DEFINE args == Field(Top(1), "var")
<1>4. /\ args \in Seq(Variables) /\ Len(args) = 1 /\ args[1] = Top(1)[1].var
      /\ Top(1)[1].spp = args[1].spp /\ args[1] \in Pending(stack)
  <2>1. 1 \in Nat /\ 1 \in 1 .. 1
    OBVIOUS
  <2> HIDE DEF args
  <2>2. LET vs == Field(Top(1), "var")
        IN  /\ vs \in Seq(Variables) /\ Len(vs) = 1
            /\ \A k \in 1 .. 1 : vs[k] = Top(1)[k].var /\ vs[k] \in Pending(stack)
                                 /\ Top(1)[k].spp = vs[k].spp
    BY <1>3, <2>1, Operands
  <2> QED BY <2>1, <2>2 DEF args
<1>5. Top(1)[1] = child
  BY <1>2, <1>3, StackTop DEF Last
<1>6. args = <<child.var>> /\ child.spp = child.var.spp /\ child.var \in Pending(stack)
  <2> HIDE DEF args, child
  <2>1. args = <<args[1]>>
    BY <1>4
  <2> QED BY <1>4, <1>5, <2>1
<1>7. /\ child.var \in Variables /\ isCompatible(child.var.lay, child.var.spp)
      /\ isLocal(child.var.name) => child.var.lay = Layout(child.spp, child.spp = Cells)
  BY <1>2, <1>6 DEF Lowerable, BoundingBoxes
<1> DEFINE v == child.var
           spp == child.spp
<1>8. spp \in SUBSET Cells /\ v \in Variables /\ v.spp = spp
  BY <1>6, <1>7 DEF Variables
<1>9. s \in Nat
  BY KernelAssumption
<1>10. e.var = Temporary(tmp, spp) /\ e.spp = spp
  OBVIOUS
<1>11. res \in Variables /\ isCompatible(res.lay, spp) /\ isLocal(res.name)
  BY <1>2, <1>8, TemporaryOk
<1>12. res.lay = Layout(spp, spp = Cells)
  BY DEF Temporary
<1> HIDE DEF child, args, e
<1>13. /\ a \in Actions /\ isRHSVariable(a) /\ rhs(a) = v
       /\ a.result = res /\ Def(a) = res.name
       /\ isCompatible(v.lay, v.spp) /\ v.spp \subseteq res.lay.cells => WellPlaced(a)
  <2>1. v \in Variables /\ res \in Variables /\ s \in Nat /\ FALSE \in BOOLEAN
    BY <1>8, <1>9, <1>11
  <2>5. a.result = res /\ Def(a) = res.name
    BY DEF ProgramAction, Def
  <2>2. a = ProgramAction(res, VariableTerm(v), FALSE, s)
    OBVIOUS
  <2> HIDE DEF res, v, a
  <2>3. a \in Actions /\ isRHSVariable(a)
    BY <2>1, <2>2, VariableTermOk
  <2>6. rhs(a) = v
    BY <2>2 DEF ProgramAction, VariableTerm, rhs
  <2>4. isCompatible(v.lay, v.spp) /\ v.spp \subseteq res.lay.cells => WellPlaced(a)
    BY <2>1, <2>2, VariableTermOk
  <2> QED BY <2>3, <2>4, <2>5, <2>6
<1>14. ~ isCompound(a)
  BY DEF isCompound, ProgramAction
<1>15. WellPlaced(a)
  BY <1>7, <1>8, <1>11, <1>13 DEF isCompatible
<1>16. a.term.args = Field(Top(1), "var")
  BY <1>6 DEF ProgramAction, VariableTerm, args
<1> HIDE DEF a
<1>17. ScalarStatement(a)
  BY <1>7, <1>11, <1>12, <1>13, <1>14 DEF ScalarStatement
<1>18. a.result = Temporary(tmp, spp)
  BY <1>13
<1> HIDE DEF res, spp, v
<1> DEFINE new == Append(cfg, a)
<1>19. /\ Lowerable(new, Returned(1, Temporary(tmp, spp)))
       /\ Below(new, tmp + 1)
       /\ Written(new) \subseteq Written(cfg)
       /\ ~ misplaced => Placed(new)
  BY <1>3, <1>8, <1>13, <1>14, <1>15, <1>16, <1>17, <1>18, EmitNode
<1> HIDE DEF new
<1>20. cfg' = new /\ tmp' = tmp + 1 /\ misplaced' = misplaced /\ stack' = Replaced(1, e)
       /\ UNCHANGED <<writable, target, simpleMemoryLayout>>
  BY <1>1 DEF new
<1>21. /\ Lowerable(cfg', Returned(1, e.var)) /\ Below(cfg', tmp')
       /\ Written(cfg') \subseteq Written(cfg)
       /\ misplaced' \in BOOLEAN /\ (~ misplaced' => Placed(cfg'))
       /\ stack' = Replaced(1, e)
       /\ UNCHANGED <<writable, target, simpleMemoryLayout>>
  <2>1. misplaced \in BOOLEAN
    BY DEF LInv
  <2> QED BY <1>10, <1>19, <1>20, <2>1
<1> QED BY <1>3, <1>8, <1>10, <1>21, VisitReturns

LEMMA LeaveAssignOk ==
  ASSUME LInv, NEW conv \in TargetOrders, LeaveAssign(conv)
  PROVE  LInv'
<1> DEFINE child == stack[1]
           v     == child.var
           H     == Pending(stack)
           own   == child.spp
           spp   == ConvertedSpp(conv, own)
           left  == TensorVariable(target)
           r     == AddPermuteIfRequired(conv, own, v, tmp)
           mid   == cfg \o r.code
           a     == ProgramAction(left, VariableTerm(r.var), FALSE, NoScalar)
           new   == Append(mid, a)
<1>1. /\ target # NoTarget /\ Len(stack) = 1 /\ isCompatible(left.lay, spp)
      /\ cfg' = mid \o <<a>> /\ tmp' = r.next /\ stack' = <<>> /\ target' = NoTarget
      /\ UNCHANGED <<writable, misplaced, simpleMemoryLayout>>
  BY DEF LeaveAssign
<1>2. /\ Lowerable(cfg, H) /\ Below(cfg, tmp) /\ StackOk(stack) /\ target \in Tensor
      /\ target \in writable /\ Written(cfg) \subseteq writable
      /\ misplaced \in BOOLEAN /\ (~ misplaced => Placed(cfg))
  BY <1>1 DEF LInv
<1>3. v \in H /\ child.spp = v.spp
  BY <1>1, <1>2 DEF StackOk, Pending
<1>4. v \in Variables /\ own \in SUBSET Cells /\ conv \in Conversions
  <2>1. v \in Variables
    BY <1>2, <1>3 DEF Lowerable
  <2> QED BY <1>3, <2>1, KernelAssumption DEF Variables
<1>5. left \in Variables /\ left.name = target /\ ~ isLocal(target)
      /\ isCompatible(left.lay, left.spp)
  BY <1>2, TensorVariableOk
<1>6. spp = ConvertedSpp(conv, own) /\ own = v.spp
  BY <1>3
<1> HIDE DEF H, left, child, v, own, spp
<1>7. /\ r.code \in Seq(Actions) /\ r.next \in Nat /\ r.next >= tmp
      /\ r.var \in Variables
      /\ r.var.spp = IF conv = {} THEN v.spp ELSE ConvertedSpp(conv, own)
      /\ r.var.name = v.name \/ (r.var.name \in Nat /\ r.var.name >= tmp)
      /\ Lowerable(mid, Rest(H, v) \cup {r.var})
      /\ Below(mid, r.next)
      /\ \A n \in Names(mid) : n \in Names(cfg) \/ n = v.name \/ n >= tmp
      /\ Written(mid) \subseteq Written(cfg)
      /\ Placed(cfg) => Placed(mid)
  BY <1>2, <1>3, <1>4, AddPermuteOk
<1> HIDE DEF r
<1>8. mid \in Seq(Actions) /\ isCompatible(r.var.lay, r.var.spp)
  BY <1>7 DEF Lowerable, Plain, Base
<1> HIDE DEF mid
<1>9. r.var.spp \subseteq left.lay.cells
  <2>1. conv = {} => spp = v.spp
    BY <1>6 DEF ConvertedSpp
  <2>2. r.var.spp = spp
    BY <1>6, <1>7, <2>1
  <2> QED BY <1>1, <2>2 DEF isCompatible
<1> DEFINE w == r.var
<1>10. a.result = left /\ Def(a) = target /\ a.scalar = NoScalar
  BY <1>5 DEF ProgramAction, Def
<1>11. a.term.args = <<w>>
  BY DEF ProgramAction, VariableTerm
<1>12. /\ a \in Actions /\ isRHSVariable(a) /\ ~ isCompound(a) /\ Len(a.term.args) = 1
       /\ \A n : n \in TermNames(a.term) <=> n = w.name
       /\ \A n : n \in occurring(a) <=> n = w.name \/ n = left.name
  <2>1. w \in Variables /\ NoScalar \in Nat /\ a = ProgramAction(left, VariableTerm(w), FALSE, NoScalar)
    BY <1>7 DEF NoScalar
  <2> HIDE DEF a, w
  <2>2. a \in Actions /\ isRHSVariable(a)
    BY <1>5, <2>1, VariableTermOk
  <2>3. ~ isCompound(a)
    BY <2>1 DEF isCompound, ProgramAction
  <2>4. DOMAIN <<w>> = {1} /\ <<w>>[1] = w /\ Len(<<w>>) = 1
    OBVIOUS
  <2>5. \A n : n \in TermNames(a.term) <=> n = w.name
    BY <1>11, <2>4 DEF TermNames
  <2>6. \A n : n \in occurring(a) <=> n = w.name \/ n = left.name
    BY <1>10, <2>2, <2>5, <1>5, OccurringNames
  <2> QED BY <1>11, <2>2, <2>3, <2>4, <2>5, <2>6
<1>13. WellPlaced(a)
  <2>1. /\ w \in Variables /\ NoScalar \in Nat /\ a = ProgramAction(left, VariableTerm(w), FALSE, NoScalar)
        /\ isCompatible(w.lay, w.spp) /\ w.spp \subseteq left.lay.cells
    BY <1>7, <1>8, <1>9 DEF NoScalar
  <2> HIDE DEF a, w
  <2> QED BY <1>5, <2>1, VariableTermOk
<1>14. {a.term.args[l] : l \in DOMAIN a.term.args} \subseteq Rest(H, v) \cup {r.var}
  <2>1. DOMAIN <<w>> = {1} /\ <<w>>[1] = w
    OBVIOUS
  <2> QED BY <1>11, <2>1
<1>15. Assigns(a) /\ isCompatible(a.result.lay, a.result.spp)
  BY <1>2, <1>5, <1>10, <1>12 DEF Assigns
<1> HIDE DEF a, w
<1>16. Lowerable(new, {})
  <2> DEFINE K == Rest(H, v) \cup {r.var}
  <2>1. Lowerable(mid, K) /\ {a.term.args[l] : l \in DOMAIN a.term.args} \subseteq K
    BY <1>7, <1>14
  <2> HIDE DEF K
  <2> QED BY <1>12, <1>15, <2>1, LowerableAppend
<1>17. /\ Names(new) = Names(mid) \cup occurring(a)
       /\ Written(new) = Written(mid) \cup ({Def(a)} \cap Tensor)
       /\ Placed(new) <=> Placed(mid) /\ WellPlaced(a)
  BY <1>8, <1>12, AppendNames
<1>18. Below(new, r.next)
  <2>1. isLocal(r.var.name) => r.var.name < r.next
    BY <1>7, HeldBelow
  <2> QED BY <1>5, <1>7, <1>12, <1>17, <2>1 DEF Below, w
<1>19. Written(new) \subseteq writable
  BY <1>2, <1>7, <1>10, <1>17
<1>20. ~ misplaced => Placed(new)
  BY <1>2, <1>7, <1>13, <1>17
<1>21. mid \o <<a>> = new
  BY <1>8, <1>12
<1> HIDE DEF new
<1>22. cfg' = new /\ tmp' = r.next /\ misplaced' = misplaced /\ writable' = writable
       /\ target' = NoTarget
  BY <1>1, <1>21
<1>23. Pending(stack') = {} /\ StackOk(stack')
  <2>1. stack' = <<>>
    BY <1>1
  <2>2. Len(stack') = 0 /\ 1 .. Len(stack') = {} /\ stack' \in Seq({})
    BY <2>1
  <2> QED BY <2>2 DEF Pending, StackOk
<1>24. BoundingBoxes'
  BY <1>23 DEF BoundingBoxes
<1>25. Lowerable(cfg', Pending(stack')) /\ Below(cfg', tmp')
  BY <1>16, <1>18, <1>22, <1>23
<1>26. /\ Written(cfg') \subseteq writable' /\ misplaced' \in BOOLEAN
       /\ ~ misplaced' => Placed(cfg')
       /\ target' # NoTarget => target' \in Tensor /\ target' \in writable'
  BY <1>2, <1>19, <1>20, <1>22
<1> QED BY <1>23, <1>24, <1>25, <1>26 DEF LInv

\* Sorting takes the operands in another order.
LEMMA SortedOperands ==
  ASSUME LInv, NEW n \in Nat, n <= Len(stack)
  PROVE  LET vs == SortedVariables(Field(Top(n), "var"))
         IN  /\ vs \in Seq(Variables) /\ Len(vs) = n
             /\ \A l \in 1 .. n : vs[l] \in Pending(stack)
             /\ \A l \in 1 .. n : \E k \in 1 .. n : vs[l] = Field(Top(n), "var")[k]
             /\ DistinctLocals(vs) /\ Apart(PendingBelow(n), vs)
<1> DEFINE us == Field(Top(n), "var")
           vs == SortedVariables(us)
<1>1. /\ us \in Seq(Variables) /\ Len(us) = n
      /\ \A k \in 1 .. n : us[k] \in Pending(stack)
      /\ DistinctLocals(us) /\ Apart(PendingBelow(n), us)
  BY Operands
<1> HIDE DEF us
<1>2. /\ vs \in Seq(Variables)
      /\ Len(vs) = Len(us)
      /\ \E from \in [1 .. Len(us) -> 1 .. Len(us)] :
              /\ \A p, q \in 1 .. Len(us) : from[p] = from[q] => p = q
              /\ \A p \in 1 .. Len(us) : vs[p] = us[from[p]]
  BY <1>1, SortedVariablesOk
<1> HIDE DEF vs
<1>3. PICK from \in [1 .. n -> 1 .. n] :
        /\ \A p, q \in 1 .. n : from[p] = from[q] => p = q
        /\ \A p \in 1 .. n : vs[p] = us[from[p]]
  BY <1>1, <1>2
<1>4. Len(vs) = n
  BY <1>1, <1>2
<1>5. DistinctLocals(vs)
  <2> SUFFICES ASSUME NEW l \in 1 .. n, NEW m \in 1 .. n,
                      isLocal(vs[l].name), vs[l].name = vs[m].name
               PROVE  l = m
    BY <1>4 DEF DistinctLocals
  <2>1. from[l] \in 1 .. n /\ from[m] \in 1 .. n /\ vs[l] = us[from[l]] /\ vs[m] = us[from[m]]
    BY <1>3
  <2>2. from[l] = from[m]
    BY <1>1, <2>1 DEF DistinctLocals
  <2> QED BY <1>3, <2>2
<1>6. Apart(PendingBelow(n), vs)
  BY <1>1, <1>3, <1>4 DEF Apart
<1>7. \A l \in 1 .. n : \E k \in 1 .. n : vs[l] = us[k]
  BY <1>3
<1> QED BY <1>1, <1>2, <1>4, <1>5, <1>6, <1>7 DEF us, vs

\* The partial sums of the addends, in their order.
SumsUp(partial, xs, n) ==
  /\ partial[0] = Zero
  /\ \A l \in 1 .. n : partial[l] = AddValue(partial[l - 1], xs[l])

LEMMA AddZero ==
  /\ Zero \in Values
  /\ \A v \in Values : AddValue(Zero, v) = v
<1>1. Zero \in Values
  BY ModOk DEF Zero, Values
<1>2. ASSUME NEW v \in Values PROVE AddValue(Zero, v) = v
  <2>1. \A c \in Cells : (Zero[c] + v[c]) % Modulus = v[c]
    <3> TAKE c \in Cells
    <3>1. v[c] \in 0 .. Modulus - 1 /\ v[c] \in Int /\ Zero[c] = 0
      BY CellOk DEF Zero
    <3>2. Zero[c] + v[c] = v[c]
      BY <3>1
    <3> QED BY <3>1, <3>2, ModOk
  <2>2. v = [c \in Cells |-> v[c]]
    BY DEF Values
  <2> QED BY <2>1, <2>2 DEF AddValue
<1> QED BY <1>1, <1>2

AddSpp(convs) ==
  UNION {ConvertedSpp(convs[k], Top(Len(convs))[k].spp) : k \in 1 .. Len(convs)}
OwnSpps(n) == [k \in 1 .. n |-> Top(n)[k].spp]
ConvertedValues(convs) ==
  [k \in 1 .. Len(convs) |-> ConvertedValue(convs[k], Top(Len(convs))[k].val)]
Swapped(convs) ==
  LET us == Field(Top(Len(convs)), "var")
  IN  SortedVariables(us) # us /\ \E k \in 1 .. Len(convs) : convs[k] # {}

LEMMA SumsExist ==
  ASSUME NEW n \in Nat, NEW xs, \A k \in 1 .. n : xs[k] \in Values
  PROVE  \E f \in [0 .. n -> Values] : SumsUp(f, xs, n)
<1> DEFINE step == [p \in (1 .. n) \X Values |-> AddValue(p[2], xs[p[1]])]
           W == Values
<1>1. Zero \in W
  BY AddZero
<1>2. step \in StepFunctions(n, W)
  <2>1. \A l \in 1 .. n, v \in Values : AddValue(v, xs[l]) \in Values
    BY AddOk
  <2> QED BY <2>1 DEF StepFunctions
<1>3. \A l \in 1 .. n, v \in W : step[<<l, v>>] = AddValue(v, xs[l])
  OBVIOUS
<1> HIDE DEF step, W
<1>4. PICK f \in [0 .. n -> W] :
        f[0] = Zero /\ \A l \in 1 .. n : f[l] = step[<<l, f[l - 1]>>]
  BY <1>1, <1>2, RecursionExists
<1>5. \A l \in 1 .. n : f[l - 1] \in W
  <2>1. \A l \in 1 .. n : l - 1 \in 0 .. n
    OBVIOUS
  <2> QED BY <2>1
<1>6. SumsUp(f, xs, n)
  BY <1>3, <1>4, <1>5 DEF SumsUp
<1> QED BY <1>4, <1>6 DEF W

\* visit_Add appends the actions of the sorted addends and returns the sum of
\* the unsorted ones.
LEMMA VisitAddEmits ==
  ASSUME LInv, NEW m \in AddendCounts, NEW convs \in [1 .. m -> AddendOrders], visit_Add(convs)
  PROVE  /\ m \in Nat /\ m # 0 /\ Len(convs) = m /\ m <= Len(stack)
         /\ convs[1] = {} /\ \A k \in 1 .. m : convs[k] \in Conversions
         /\ \A k \in 1 .. m : OwnSpps(m)[k] = Top(m)[k].spp /\ OwnSpps(m)[k] \in SUBSET Cells
         /\ AddSpp(convs) \in SUBSET Cells
         /\ \A k \in 1 .. m : ConvertedSpp(convs[k], OwnSpps(m)[k]) \subseteq AddSpp(convs)
         /\ misplaced' = (misplaced \/ Swapped(convs))
         /\ UNCHANGED <<writable, target, meaning, simpleMemoryLayout>>
         /\ \E emitted, sum :
              /\ SumEmitted(emitted, convs, OwnSpps(m), SortedVariables(Field(Top(m), "var")),
                            tmp, AddSpp(convs))
              /\ (\A k \in 1 .. m : ConvertedValues(convs)[k] \in Values) =>
                   SumsUp(sum, ConvertedValues(convs), m)
              /\ cfg' = cfg \o emitted[m].code
              /\ tmp' = emitted[m].next
              /\ stack' = Replaced(m, [var  |-> Temporary(tmp, AddSpp(convs)), node |-> "Add",
                                       val  |-> sum[m], spp |-> AddSpp(convs)])
<1> DEFINE n        == Len(convs)
           children == Top(n)
           us       == Field(children, "var")
           vs       == SortedVariables(us)
           spps     == [k \in 1 .. n |-> ConvertedSpp(convs[k], children[k].spp)]
           spp      == UNION {spps[k] : k \in 1 .. n}
           res      == Temporary(tmp, spp)
           own      == OwnSpps(n)
           zs       == ConvertedValues(convs)
           Is(f)    == f = [k \in 0 .. n |->
             IF k = 0 THEN [code |-> <<>>, next |-> tmp + 1]
             ELSE LET r == AddPermuteIfRequired(convs[k], children[k].spp, vs[k], f[k - 1].next)
                  IN  [code |-> f[k - 1].code \o r.code
                                  \o <<ProgramAction(res, VariableTerm(r.var), k > 1, NoScalar)>>,
                       next |-> r.next]]
           emitted  == CHOOSE f : Is(f)
           IsSum(f) == f = [k \in 0 .. n |->
             IF k = 0 THEN Zero
             ELSE AddValue(f[k - 1], ConvertedValue(convs[k], children[k].val))]
           sum      == CHOOSE f : IsSum(f)
           swapped  == vs # us /\ \E k \in 1 .. n : convs[k] # {}
<1>1. m \in Nat /\ m # 0 /\ n = m /\ \A k \in 1 .. n : convs[k] \in Conversions
  <2>1. m \in Nat /\ m # 0
    BY KernelAssumption
  <2>2. convs \in Seq(AddendOrders) /\ Len(convs) = m
    BY <2>1
  <2> QED BY <2>1, <2>2, KernelAssumption
<1>2. /\ Len(stack) >= n /\ convs[1] = {}
      /\ cfg' = cfg \o emitted[n].code
      /\ tmp' = emitted[n].next
      /\ stack' = Replaced(n, [var |-> res, node |-> "Add", val |-> sum[n], spp |-> spp])
      /\ misplaced' = (misplaced \/ swapped)
      /\ UNCHANGED <<writable, target, meaning, simpleMemoryLayout>>
  <2>1. Len(stack) >= n /\ convs[1] = {}
    BY DEF visit_Add
  <2>2. cfg' = cfg \o emitted[n].code
    BY DEF visit_Add
  <2>3. tmp' = emitted[n].next
    BY DEF visit_Add
  <2>4. stack' = Replaced(n, [var |-> res, node |-> "Add", val |-> sum[n], spp |-> spp])
    BY DEF visit_Add
  <2>5. misplaced' = (misplaced \/ swapped)
    BY DEF visit_Add
  <2>6. UNCHANGED <<writable, target, meaning, simpleMemoryLayout>>
    BY DEF visit_Add
  <2> QED BY <2>1, <2>2, <2>3, <2>4, <2>5, <2>6
<1>3. swapped = Swapped(convs) /\ spp = AddSpp(convs)
  BY DEF Swapped, AddSpp
<1> HIDE DEF swapped, n
<1>4. n <= Len(stack)
  <2>1. Len(stack) \in Nat
    BY DEF LInv, StackOk
  <2> QED BY <1>1, <1>2, <2>1
<1>5. /\ us \in Seq(Variables) /\ Len(us) = n
      /\ \A k \in 1 .. n : children[k].spp = us[k].spp
  BY <1>1, <1>4, Operands
<1>6. vs \in Seq(Variables) /\ Len(vs) = n
  BY <1>1, <1>4, SortedOperands
<1> HIDE DEF us, vs, children
<1>7. \A k \in 1 .. n : own[k] = children[k].spp /\ own[k] \in SUBSET Cells
  <2>1. \A k \in 1 .. n : us[k] \in Variables
    BY <1>5
  <2>2. \A k \in 1 .. n : own[k] = children[k].spp
    BY DEF OwnSpps, children
  <2> QED BY <1>5, <2>1, <2>2 DEF Variables
<1> HIDE DEF own
<1>8. \A k \in 1 .. n : spps[k] = ConvertedSpp(convs[k], own[k]) /\ spps[k] \in SUBSET Cells
  <2> TAKE k \in 1 .. n
  <2>1. spps[k] = ConvertedSpp(convs[k], own[k])
    BY <1>7
  <2>2. own[k] \in SUBSET Cells
    BY <1>7
  <2> HIDE DEF spps
  <2> QED BY <2>1, <2>2, SppType
<1>9. spp \in SUBSET Cells /\ \A k \in 1 .. n : ConvertedSpp(convs[k], own[k]) \subseteq spp
  <2> HIDE DEF spps
  <2> QED BY <1>8
<1> HIDE DEF spps, spp
<1>10. SumEmitted(emitted, convs, own, vs, tmp, spp)
  <2>0. tmp \in Nat
    BY DEF LInv, Below
  <2>1. PICK f \in [0 .. n -> Emissions] : SumEmitted(f, convs, own, vs, tmp, spp)
    BY <1>6, <1>7, <1>9, <2>0, SumEmittedExists
  <2>2. Is(f)
    <3>1. f[0] = [code |-> <<>>, next |-> tmp + 1]
      BY <2>1 DEF SumEmitted
    <3>2. \A k \in 1 .. n : f[k] =
             LET r == AddPermuteIfRequired(convs[k], children[k].spp, vs[k], f[k - 1].next)
             IN  [code |-> f[k - 1].code \o r.code
                             \o <<ProgramAction(res, VariableTerm(r.var), k > 1, NoScalar)>>,
                  next |-> r.next]
      <4> TAKE k \in 1 .. n
      <4>1. f[k] = EmitAddend(res, convs[k], own[k], vs[k], k > 1, f[k - 1])
        BY <1>6, <2>1 DEF SumEmitted
      <4>2. own[k] = children[k].spp
        BY <1>7
      <4> QED BY <4>1, <4>2 DEF EmitAddend
    <3>3. \A k \in 0 .. n : k = 0 \/ k \in 1 .. n
      BY <1>1
    <3>4. f = [k \in 0 .. n |-> f[k]]
      BY <2>1
    <3> QED BY <3>1, <3>2, <3>3, <3>4
  <2> HIDE DEF Is
  <2>3. Is(emitted)
    BY <2>2
  <2> HIDE DEF emitted
  <2>4. emitted[0] = [code |-> <<>>, next |-> tmp + 1]
    BY <1>1, <2>3 DEF Is
  <2>5. ASSUME NEW k \in 1 .. n
        PROVE  emitted[k] = EmitAddend(res, convs[k], own[k], vs[k], k > 1, emitted[k - 1])
    <3>1. k \in 0 .. n /\ k # 0
      BY <1>1
    <3>2. emitted[k] =
             LET r == AddPermuteIfRequired(convs[k], children[k].spp, vs[k], emitted[k - 1].next)
             IN  [code |-> emitted[k - 1].code \o r.code
                             \o <<ProgramAction(res, VariableTerm(r.var), k > 1, NoScalar)>>,
                  next |-> r.next]
      BY <2>3, <3>1 DEF Is
    <3>3. own[k] = children[k].spp
      BY <1>7
    <3> QED BY <3>2, <3>3 DEF EmitAddend
  <2> QED BY <1>6, <2>4, <2>5 DEF SumEmitted
<1> HIDE DEF Is, emitted, res
<1>11. \A k \in 1 .. n : zs[k] = ConvertedValue(convs[k], children[k].val)
  BY DEF ConvertedValues, n, children
<1> HIDE DEF zs
<1>12. ASSUME \A k \in 1 .. n : zs[k] \in Values
       PROVE  SumsUp(sum, zs, n)
  <2>1. PICK f \in [0 .. n -> Values] : SumsUp(f, zs, n)
    BY <1>1, <1>12, SumsExist
  <2>2. IsSum(f)
    <3>1. \A k \in 0 .. n : k = 0 \/ k \in 1 .. n
      BY <1>1
    <3>2. f = [k \in 0 .. n |-> f[k]]
      BY <2>1
    <3>3. f[0] = Zero /\ \A k \in 1 .. n :
            f[k] = AddValue(f[k - 1], ConvertedValue(convs[k], children[k].val))
      BY <1>11, <2>1 DEF SumsUp
    <3> QED BY <3>1, <3>2, <3>3
  <2> HIDE DEF IsSum
  <2>3. IsSum(sum)
    BY <2>2
  <2> HIDE DEF sum
  <2>4. sum[0] = Zero
    BY <1>1, <2>3 DEF IsSum
  <2>5. ASSUME NEW k \in 1 .. n PROVE sum[k] = AddValue(sum[k - 1], zs[k])
    <3>1. k \in 0 .. n /\ k # 0
      BY <1>1
    <3> QED BY <1>11, <2>3, <3>1 DEF IsSum
  <2> QED BY <2>4, <2>5 DEF SumsUp
<1> HIDE DEF IsSum, sum
<1>13. \E emit, s :
         /\ SumEmitted(emit, convs, own, vs, tmp, spp)
         /\ (\A k \in 1 .. n : zs[k] \in Values) => SumsUp(s, zs, n)
         /\ cfg' = cfg \o emit[n].code
         /\ tmp' = emit[n].next
         /\ stack' = Replaced(n, [var |-> Temporary(tmp, spp), node |-> "Add", val |-> s[n],
                                  spp |-> spp])
  <2>1. stack' = Replaced(n, [var |-> Temporary(tmp, spp), node |-> "Add", val |-> sum[n],
                              spp |-> spp])
    BY <1>2 DEF res
  <2> QED BY <1>2, <1>10, <1>12, <2>1
<1>14. /\ m \in Nat /\ m # 0 /\ Len(convs) = m /\ m <= Len(stack)
       /\ convs[1] = {} /\ \A k \in 1 .. m : convs[k] \in Conversions
  BY <1>1, <1>2, <1>4 DEF n
<1>15. n = m
  BY <1>1
<1>16. /\ \A k \in 1 .. m : OwnSpps(m)[k] = Top(m)[k].spp /\ OwnSpps(m)[k] \in SUBSET Cells
       /\ \A k \in 1 .. m : ConvertedSpp(convs[k], OwnSpps(m)[k]) \subseteq spp
  BY <1>7, <1>9, <1>15 DEF own, children
<1>17. \E emit, s :
         /\ SumEmitted(emit, convs, OwnSpps(m), SortedVariables(Field(Top(m), "var")), tmp, spp)
         /\ (\A k \in 1 .. m : zs[k] \in Values) => SumsUp(s, zs, m)
         /\ cfg' = cfg \o emit[m].code
         /\ tmp' = emit[m].next
         /\ stack' = Replaced(m, [var |-> Temporary(tmp, spp), node |-> "Add", val |-> s[m],
                                  spp |-> spp])
  BY <1>13, <1>15 DEF own, vs, us, children
<1> QED BY <1>2, <1>3, <1>9, <1>14, <1>16, <1>17 DEF zs

LEMMA VisitAddOk ==
  ASSUME LInv, NEW m \in AddendCounts, NEW convs \in [1 .. m -> AddendOrders], visit_Add(convs)
  PROVE  LInv'
<1> DEFINE us  == Field(Top(m), "var")
           vs  == SortedVariables(us)
           own == OwnSpps(m)
           spp == AddSpp(convs)
           res == Temporary(tmp, spp)
           fits == ~ Swapped(convs)
<1>1. /\ m \in Nat /\ m # 0 /\ Len(convs) = m /\ m <= Len(stack)
      /\ \A k \in 1 .. m : convs[k] \in Conversions
      /\ \A k \in 1 .. m : own[k] = Top(m)[k].spp /\ own[k] \in SUBSET Cells
      /\ spp \in SUBSET Cells
      /\ \A k \in 1 .. m : ConvertedSpp(convs[k], own[k]) \subseteq spp
      /\ misplaced' = (misplaced \/ Swapped(convs))
      /\ UNCHANGED <<writable, target, simpleMemoryLayout>>
  BY VisitAddEmits
<1>2. PICK emitted, sum :
        /\ SumEmitted(emitted, convs, own, vs, tmp, spp)
        /\ (\A k \in 1 .. m : ConvertedValues(convs)[k] \in Values) =>
             SumsUp(sum, ConvertedValues(convs), m)
        /\ cfg' = cfg \o emitted[m].code
        /\ tmp' = emitted[m].next
        /\ stack' = Replaced(m, [var |-> res, node |-> "Add", val |-> sum[m], spp |-> spp])
  BY VisitAddEmits
<1> DEFINE e == [var |-> res, node |-> "Add", val |-> sum[m], spp |-> spp]
<1>3. e.var = res /\ e.spp = spp /\ stack' = Replaced(m, e)
  BY <1>2
<1> HIDE DEF e
<1>4. /\ Lowerable(cfg, Pending(stack)) /\ Below(cfg, tmp)
      /\ misplaced \in BOOLEAN /\ (~ misplaced => Placed(cfg)) /\ tmp \in Nat
      /\ cfg \in Seq(Actions)
  BY DEF LInv, Below, Lowerable, Plain, Base
<1>5. /\ us \in Seq(Variables) /\ Len(us) = m
      /\ \A k \in 1 .. m : us[k] \in Pending(stack) /\ Top(m)[k].spp = us[k].spp
      /\ \A v \in PendingBelow(m) : v \in Pending(stack)
  BY <1>1, Operands
<1>6. /\ vs \in Seq(Variables) /\ Len(vs) = m
      /\ \A l \in 1 .. m : vs[l] \in Pending(stack)
      /\ \A l \in 1 .. m : \E k \in 1 .. m : vs[l] = us[k]
      /\ DistinctLocals(vs) /\ Apart(PendingBelow(m), vs)
  BY <1>1, SortedOperands
<1>7. Swapped(convs) = (vs # us /\ \E k \in 1 .. m : convs[k] # {})
  BY <1>1 DEF Swapped
<1> HIDE DEF us, vs, own, spp
<1>8. fits => \A l \in 1 .. m : AddendSpp(convs[l], own[l], vs[l]) \subseteq spp
  <2> SUFFICES ASSUME fits, NEW l \in 1 .. m
               PROVE  AddendSpp(convs[l], own[l], vs[l]) \subseteq spp
    OBVIOUS
  <2>1. CASE convs[l] # {}
    BY <1>1, <2>1 DEF AddendSpp
  <2>2. CASE convs[l] = {}
    <3>1. PICK k \in 1 .. m : vs[l] = us[k] /\ convs[k] = {}
      <4>1. CASE vs = us
        BY <2>2, <4>1
      <4>2. CASE vs # us
        BY <1>6, <1>7, <4>2
      <4> QED BY <4>1, <4>2
    <3>2. ConvertedSpp({}, own[k]) = own[k]
      BY DEF ConvertedSpp
    <3>3. own[k] = vs[l].spp
      BY <1>1, <1>5, <3>1
    <3>4. own[k] \subseteq spp
      BY <1>1, <3>1, <3>2
    <3> QED BY <2>2, <3>3, <3>4 DEF AddendSpp
  <2> QED BY <2>1, <2>2
<1>9. fits \in BOOLEAN /\ Swapped(convs) \in BOOLEAN /\ (fits <=> ~ Swapped(convs))
  BY <1>7
<1> HIDE DEF fits, res
<1>10. SumGood(cfg, PendingBelow(m), vs, tmp, res, fits, m, emitted[m])
  <2>1. m \in 0 .. Len(vs)
    BY <1>1, <1>6
  <2>2. Lowerable(cfg, PendingBelow(m) \cup ToSet(vs))
    <3>1. PendingBelow(m) \cup ToSet(vs) \subseteq Pending(stack)
      BY <1>5, <1>6 DEF ToSet
    <3> QED BY <1>4, <3>1 DEF Lowerable
  <2> DEFINE H == PendingBelow(m)
  <2>3. Lowerable(cfg, H \cup ToSet(vs)) /\ Apart(H, vs)
    BY <1>6, <2>2
  <2> HIDE DEF H
  <2>4. AddendsOk(convs, own, vs) /\ (fits => AddendsFit(convs, own, vs, spp))
    BY <1>1, <1>6, <1>8 DEF AddendsOk, AddendsFit
  <2>5. SumGood(cfg, H, vs, tmp, Temporary(tmp, spp), fits, m, emitted[m])
    <3>1. /\ cfg \in Seq(Actions) /\ vs \in Seq(Variables) /\ tmp \in Nat
          /\ spp \in SUBSET Cells /\ fits \in BOOLEAN
          /\ Below(cfg, tmp) /\ DistinctLocals(vs)
      BY <1>1, <1>4, <1>6, <1>9
    <3> QED BY <1>2, <2>1, <2>3, <2>4, <3>1, EmitSum
  <2> QED BY <2>5 DEF H, res
<1> DEFINE new == cfg \o emitted[m].code
<1>11. SumHeld(PendingBelow(m), vs, m, res) = Returned(m, res)
  <2>1. m > 0 /\ Len(vs) = m /\ m + 1 .. m = {}
    BY <1>1, <1>6
  <2> QED BY <2>1 DEF SumHeld, Returned
<1>12. /\ Lowerable(new, Returned(m, res)) /\ Below(new, emitted[m].next)
       /\ Written(new) \subseteq Written(cfg)
       /\ Placed(cfg) /\ fits => Placed(new)
  BY <1>10, <1>11 DEF SumGood
<1> HIDE DEF new
<1>13. cfg' = new /\ tmp' = emitted[m].next
  BY <1>2 DEF new
<1>14. misplaced' \in BOOLEAN /\ (~ misplaced' => Placed(cfg'))
  BY <1>1, <1>4, <1>9, <1>12, <1>13
<1>15. /\ Lowerable(cfg', Returned(m, e.var)) /\ Below(cfg', tmp')
       /\ Written(cfg') \subseteq Written(cfg) /\ stack' = Replaced(m, e)
       /\ UNCHANGED <<writable, target, simpleMemoryLayout>>
  BY <1>1, <1>3, <1>12, <1>13
<1>16. e.var = Temporary(tmp, spp) /\ e.spp = spp
  BY <1>3 DEF res
<1> QED BY <1>1, <1>14, <1>15, <1>16, VisitReturns

-----------------------------------------------------------------------------
(* The theorems about the lowering *)

LEMMA StepLInv == LInv /\ [LNext]_lvars => LInv'
<1> SUFFICES ASSUME LInv, [LNext]_lvars PROVE LInv'
  OBVIOUS
<1>1. CASE \E n \in Tensor : EnterAssign(n)
  BY <1>1, EnterAssignOk
<1>2. CASE \E n \in Tensor : visit_IndexedTensor(n)
  BY <1>2, VisitTensorOk
<1>3. CASE \E n \in Arities, fuse \in BOOLEAN : generic_visit(n, fuse)
  BY <1>3, VisitNodeOk
<1>4. CASE \E n \in AddendCounts : \E convs \in [1 .. n -> AddendOrders] : visit_Add(convs)
  BY <1>4, VisitAddOk
<1>5. CASE \E s \in ScalarValues : visit_ScalarMultiplication(s)
  BY <1>5, VisitScalarOk
<1>6. CASE \E conv \in TargetOrders : LeaveAssign(conv)
  BY <1>6, LeaveAssignOk
<1>7. CASE UNCHANGED lvars
  <2>1. UNCHANGED <<cfg, tmp, writable, stack, target, misplaced, simpleMemoryLayout>>
    BY <1>7 DEF lvars
  <2>2. BoundingBoxes'
    BY <2>1 DEF LInv, BoundingBoxes, Layout, Pending, isLocal
  <2>3. /\ Lowerable(cfg', Pending(stack')) /\ Below(cfg', tmp') /\ StackOk(stack')
        /\ Written(cfg') \subseteq writable' /\ misplaced' \in BOOLEAN
        /\ ~ misplaced' => Placed(cfg')
        /\ target' # NoTarget => target' \in Tensor /\ target' \in writable'
    BY <2>1 DEF LInv
  <2> QED BY <2>2, <2>3 DEF LInv
<1> QED BY <1>1, <1>2, <1>3, <1>4, <1>5, <1>6, <1>7 DEF LNext

\* A temporary that is read was written by a plain action.
LEMMA Initialised ==
  ASSUME NEW prog \in Seq(Actions), LocalsFlow(prog),
         NEW k \in 1 .. Len(prog), NEW n \in variables(prog[k]), isLocal(n)
  PROVE  \E j \in 1 .. k - 1 : Def(prog[j]) = n /\ ~ isCompound(prog[j])
<1> DEFINE T == {j \in 1 .. k - 1 : n \in occurring(prog[j])}
<1>1. T \subseteq Nat /\ T # {}
  BY DEF LocalsFlow, occurring
<1>2. PICK j \in T : \A l \in T : j <= l
  BY <1>1, LeastNumber
<1>3. /\ j \in 1 .. k - 1 /\ j \in 1 .. Len(prog) /\ n \in occurring(prog[j])
      /\ \A l \in 1 .. j - 1 : n \notin occurring(prog[l])
  BY <1>2
<1>4. n \notin variables(prog[j])
  BY <1>3 DEF LocalsFlow
<1>5. Def(prog[j]) = n /\ ~ isCompound(prog[j])
  BY <1>3, <1>4 DEF occurring, variables, Def, isCompound
<1> QED BY <1>3, <1>5

LEMMA LInvSingleDefinition == LInv => SingleDefinition
<1> SUFFICES ASSUME LInv, NEW k \in DOMAIN cfg
             PROVE  /\ \A n \in variables(cfg[k]) \ Tensor :
                         \E j \in 1 .. k - 1 : Def(cfg[j]) = n /\ ~ isCompound(cfg[j])
                    /\ Def(cfg[k]) \notin Tensor /\ ~ isCompound(cfg[k]) =>
                         /\ Def(cfg[k]) < tmp
                         /\ \A j \in 1 .. k - 1 : Def(cfg[j]) # Def(cfg[k])
  BY DEF SingleDefinition
<1>1. /\ cfg \in Seq(Actions) /\ k \in 1 .. Len(cfg) /\ LocalsFlow(cfg) /\ NoSelf(cfg)
      /\ \A n \in Names(cfg) : isLocal(n) => n < tmp
  BY DEF LInv, Lowerable, Plain, Base, Flow, Below
<1>2. ASSUME NEW n \in variables(cfg[k]) \ Tensor
      PROVE  \E j \in 1 .. k - 1 : Def(cfg[j]) = n /\ ~ isCompound(cfg[j])
  BY <1>1, Initialised DEF isLocal
<1>3. ASSUME Def(cfg[k]) \notin Tensor, ~ isCompound(cfg[k])
      PROVE  /\ Def(cfg[k]) < tmp
             /\ \A j \in 1 .. k - 1 : Def(cfg[j]) # Def(cfg[k])
  <2>1. Def(cfg[k]) \in occurring(cfg[k]) /\ isLocal(Def(cfg[k]))
    BY <1>3 DEF occurring, isLocal
  <2>2. Def(cfg[k]) < tmp
    BY <1>1, <2>1 DEF Names
  <2>3. ASSUME NEW j \in 1 .. k - 1, Def(cfg[j]) = Def(cfg[k]) PROVE FALSE
    <3>1. Def(cfg[k]) \in occurring(cfg[j])
      BY <2>3 DEF occurring
    <3>2. Def(cfg[k]) \in variables(cfg[k])
      BY <1>1, <2>1, <3>1 DEF LocalsFlow
    <3>3. Def(cfg[k]) \in TermNames(cfg[k].term)
      BY <1>3, <3>2 DEF variables, isCompound
    <3> QED BY <1>1, <2>1, <3>3 DEF NoSelf
  <2> QED BY <2>2, <2>3
<1> QED BY <1>2, <1>3

\* Every kernel is lowered to a program in which a temporary is written by a
\* plain action before it is read or accumulated into, and plainly written
\* only once (controlflow/visitor.py: _nextTemporary, generic_visit,
\* visit_Add, visit_ScalarMultiplication, visit_Assign).
THEOREM LoweringSingleDefinition == LSpec => []SingleDefinition
<1>1. LSpec => []LInv
  BY InitLInv, StepLInv, PTL DEF LSpec
<1> QED BY <1>1, LInvSingleDefinition, PTL

-----------------------------------------------------------------------------
(* What the program of a kernel computes *)

-----------------------------------------------------------------------------
(* What the lowered program computes *)

Mem(prog) == Run(prog, TensorValues)

\* The numbers from k on name no variable of the program, which runs without a
\* statement that drops what it computes.
Sane(prog, k) ==
  /\ prog \in Seq(Actions)
  /\ Unary(prog)
  /\ \E f : Clean(prog, TensorValues, f)
  /\ k \in Nat
  /\ \A m \in Nat : m >= k => m \notin InMemory(prog)

\* The value val is zero outside of cells.  The dense layouts of the reference
\* code store every cell.
Within(val, cells) == ~ simpleMemoryLayout => SuppOn(val, cells)

\* The variable v has the value val, which is zero outside of its pattern.
Known(prog, v, val) ==
  /\ v \in Variables
  /\ v.name \in InMemory(prog)
  /\ Mem(prog)[v.name] = val
  /\ val \in Values
  /\ Within(val, v.spp)

\* All but the variables of N keep their values.
Keep(prog, new, N) ==
  \A m \in InMemory(prog) : m \in InMemory(new) /\ (m \notin N => Mem(new)[m] = Mem(prog)[m])

LEMMA MemOk ==
  ASSUME NEW prog, NEW k, Sane(prog, k)
  PROVE  /\ Mem(prog) \in [InMemory(prog) -> Values]
         /\ k \notin InMemory(prog) /\ isLocal(k) /\ k \in Nat
<1>1. PICK f : Executes(prog, TensorValues, f)
  BY DEF Sane, Clean
<1>2. Len(prog) \in 0 .. Len(prog)
  BY DEF Sane
<1>3. Mem(prog) \in [InMemory(prog) -> Values]
  BY <1>1, <1>2 DEF Executes, Mem, InMemory
<1>4. k \in Nat /\ k \notin InMemory(prog)
  BY DEF Sane
<1>5. isLocal(k)
  BY <1>4 DEF isLocal, InMemory
<1> QED BY <1>3, <1>4, <1>5

LEMMA KnownKept ==
  ASSUME NEW prog, NEW new, NEW v, NEW val, Known(prog, v, val), NEW N, Keep(prog, new, N),
         v.name \notin N
  PROVE  Known(new, v, val)
BY DEF Known, Keep

\* An action into a new temporary.
LEMMA EmitFresh ==
  ASSUME NEW prog, NEW k, Sane(prog, k),
         NEW a \in Actions, a.term.op # "Op" => Len(a.term.args) = 1,
         NEW spp \in SUBSET Cells, a.result = Temporary(k, spp), ~ a.add,
         TermNames(a.term) \subseteq InMemory(prog),
         NEW val, Computed(a, Mem(prog)) = val, Within(val, spp)
  PROVE  LET new == Append(prog, a)
         IN  /\ Sane(new, k + 1)
             /\ Known(new, Temporary(k, spp), val)
             /\ Keep(prog, new, {})
<1> DEFINE new == Append(prog, a)
<1>1. /\ Temporary(k, spp) \in Variables /\ Temporary(k, spp).name = k
      /\ Temporary(k, spp).spp = spp /\ spp \subseteq Temporary(k, spp).lay.cells
      /\ k \in Nat /\ k \notin InMemory(prog)
      /\ simpleMemoryLayout => Temporary(k, spp).lay.cells = Cells
  <2>1. simpleMemoryLayout => Temporary(k, spp).lay.cells = Cells
    BY DEF Temporary, Layout
  <2> QED BY <2>1, MemOk, TemporaryOk DEF isCompatible
<1>2. Def(a) = k /\ variables(a) = TermNames(a.term)
  BY <1>1 DEF Def, variables
<1>3. TensorValues \in [Tensor -> Values]
  BY KernelAssumption
<1>4. PICK f : Clean(prog, TensorValues, f)
  BY DEF Sane
<1>5. val \in Values
  <2>1. \A n \in variables(a) : Mem(prog)[n] \in Values
    BY <1>2, MemOk
  <2> QED BY <2>1, ComputedOk
<1>6. Keeps(a, Mem(prog))
  <2>1. \A c \in Cells : c \notin a.result.lay.cells => val[c] = 0
    BY <1>1 DEF SuppOn, Within
  <2>2. Stored(a.result.lay, val) = val
    BY <1>5, <2>1, StoredOk
  <2> QED BY <2>2 DEF Keeps
<1>7. /\ new \in Seq(Actions) /\ Unary(new)
      /\ \E g : Clean(new, TensorValues, g)
      /\ \A n : n \in InMemory(new) <=> n \in InMemory(prog) \/ n = Def(a)
      /\ Mem(new)[Def(a)] = Computed(a, Mem(prog))
      /\ \A n \in InMemory(prog) : n # Def(a) => Mem(new)[n] = Mem(prog)[n]
  BY <1>2, <1>3, <1>4, <1>6, AppendRuns DEF Sane, Mem
<1> HIDE DEF new
<1>8. Sane(new, k + 1)
  <2>1. \A m \in Nat : m >= k + 1 => m >= k /\ m # k
    BY <1>1
  <2> QED BY <1>1, <1>2, <1>7, <2>1 DEF Sane
<1>9. Known(new, Temporary(k, spp), val)
  BY <1>1, <1>2, <1>5, <1>7 DEF Known
<1>10. Keep(prog, new, {})
  BY <1>1, <1>2, <1>7 DEF Keep
<1> QED BY <1>8, <1>9, <1>10 DEF new

\* A copy, a sum or a scaling reads one variable.
LEMMA CopyComputed ==
  ASSUME NEW v, NEW res, NEW add, NEW s, NEW mem
  PROVE  Computed(ProgramAction(res, VariableTerm(v), add, s), mem) =
           LET value == ScaleValue(IF s = NoScalar THEN 1 ELSE s, mem[v.name])
           IN  IF add THEN AddValue(mem[res.name], value) ELSE value
<1> DEFINE a == ProgramAction(res, VariableTerm(v), add, s)
<1>1. /\ a.term.op = "Variable" /\ a.term.args = <<v>> /\ a.scalar = s /\ a.add = add
      /\ a.result = res
  BY DEF ProgramAction, VariableTerm
<1> HIDE DEF a
<1>2. TermValue(a.term, mem) = mem[v.name]
  <2>1. [k \in DOMAIN a.term.args |-> mem[a.term.args[k].name]][1] = mem[v.name]
    BY <1>1
  <2> DEFINE vals == [k \in DOMAIN a.term.args |-> mem[a.term.args[k].name]]
  <2>2. TermValue(a.term, mem) = CASE a.term.op = "Variable"  -> vals[1]
                                 [] a.term.op = "Op"        -> OpValue(vals)
                                 [] a.term.op = "Permute"   -> PermuteValue(vals[1])
                                 [] a.term.op = "Broadcast" -> BroadcastValue(vals[1])
    BY DEF TermValue
  <2>3. vals[1] = mem[v.name]
    BY <2>1
  <2> HIDE DEF vals
  <2> QED BY <1>1, <2>2, <2>3
<1> QED BY <1>1, <1>2 DEF Computed, a

Transformed(op, val) == IF op = "Permute" THEN PermuteValue(val) ELSE BroadcastValue(val)
TransformedSpp(op, spp) == IF op = "Permute" THEN PermuteSpp(spp) ELSE BroadcastSpp(spp)

\* A Permute or Broadcast node.
LEMMA TransformValue ==
  ASSUME NEW prog, NEW k, Sane(prog, k), NEW op \in {"Permute", "Broadcast"},
         NEW own \in SUBSET Cells, NEW v, NEW val, Known(prog, v, val), Within(val, own)
  PROVE  LET spp == TransformedSpp(op, own)
             new == Append(prog, TransformOp(op, spp, k, v))
         IN  /\ TransformOp(op, spp, k, v) \in Actions
             /\ spp \in SUBSET Cells
             /\ Sane(new, k + 1)
             /\ Known(new, Temporary(k, spp), Transformed(op, val))
             /\ Keep(prog, new, {})
<1> DEFINE spp == TransformedSpp(op, own)
           a   == TransformOp(op, spp, k, v)
<1>1. spp \in SUBSET Cells
  BY SppType DEF TransformedSpp
<1>2. v \in Variables /\ val \in Values /\ Mem(prog)[v.name] = val /\ v.name \in InMemory(prog)
  BY DEF Known
<1>3. Within(Transformed(op, val), spp)
  BY <1>2, PermuteOk, BroadcastOk DEF SuppOn, Within, Transformed, TransformedSpp
<1> HIDE DEF spp
<1>4. Temporary(k, spp) \in Variables
  BY <1>1, MemOk, TemporaryOk
<1>5. /\ a.result = Temporary(k, spp) /\ a.term.args = <<v>> /\ a.term.op = op
      /\ a.add = FALSE /\ a.scalar = NoScalar
  BY DEF TransformOp, ProgramAction
<1>6. a \in Actions
  BY <1>1, <1>2, <1>4 DEF TransformOp, ProgramAction, Actions, Terms, Scalars, NoScalar, NodeOps
<1> HIDE DEF a
<1>7. TermNames(a.term) = {v.name} /\ Len(a.term.args) = 1
  <2>1. DOMAIN <<v>> = {1} /\ <<v>>[1] = v /\ Len(<<v>>) = 1
    OBVIOUS
  <2> QED BY <1>5, <2>1 DEF TermNames
<1>8. TermValue(a.term, Mem(prog)) = Transformed(op, val)
  <2> DEFINE vals == [l \in DOMAIN a.term.args |-> Mem(prog)[a.term.args[l].name]]
  <2>1. vals[1] = val
    BY <1>2, <1>5
  <2>2. TermValue(a.term, Mem(prog)) = CASE a.term.op = "Variable"  -> vals[1]
                                 [] a.term.op = "Op"        -> OpValue(vals)
                                 [] a.term.op = "Permute"   -> PermuteValue(vals[1])
                                 [] a.term.op = "Broadcast" -> BroadcastValue(vals[1])
    BY DEF TermValue
  <2> HIDE DEF vals
  <2>3. CASE op = "Permute"
    BY <1>5, <2>1, <2>2, <2>3 DEF Transformed
  <2>4. CASE op = "Broadcast"
    BY <1>5, <2>1, <2>2, <2>4 DEF Transformed
  <2> QED BY <2>3, <2>4
<1>9. Computed(a, Mem(prog)) = Transformed(op, val)
  <2>1. Transformed(op, val) \in Values
    BY <1>2, PermuteOk, BroadcastOk DEF Transformed
  <2>2. ScaleValue(1, Transformed(op, val)) = Transformed(op, val)
    BY <2>1, ScaleOk
  <2> QED BY <1>5, <1>8, <2>2 DEF Computed, NoScalar
<1> DEFINE w == Transformed(op, val)
<1>10. Computed(a, Mem(prog)) = w /\ Within(w, spp) /\ TermNames(a.term) \subseteq InMemory(prog)
  BY <1>2, <1>3, <1>7, <1>9
<1> HIDE DEF w
<1>11. LET new == Append(prog, a)
       IN  /\ Sane(new, k + 1)
           /\ Known(new, Temporary(k, spp), w)
           /\ Keep(prog, new, {})
  BY <1>1, <1>5, <1>6, <1>7, <1>10, EmitFresh
<1> QED BY <1>1, <1>6, <1>11 DEF a, spp, w

LEMMA KeptOn ==
  ASSUME NEW prog, NEW mid, NEW new, NEW M, NEW N, Keep(prog, mid, M), Keep(mid, new, N)
  PROVE  Keep(prog, new, M \cup N)
BY DEF Keep

\* A copy or a sum into a variable that the program knows.
LEMMA EmitCopy ==
  ASSUME NEW prog, NEW k, Sane(prog, k), NEW add \in BOOLEAN,
         NEW res \in Variables, res.name \in InMemory(prog), isCompatible(res.lay, res.spp),
         simpleMemoryLayout => res.lay.cells = Cells,
         NEW acc, add => Known(prog, res, acc),
         NEW w, NEW x, Known(prog, w, x), Within(x, res.spp)
  PROVE  LET a   == ProgramAction(res, VariableTerm(w), add, NoScalar)
             new == Append(prog, a)
         IN  /\ a \in Actions
             /\ Sane(new, k)
             /\ Known(new, res, IF add THEN AddValue(acc, x) ELSE x)
             /\ Keep(prog, new, {res.name})
<1> DEFINE a   == ProgramAction(res, VariableTerm(w), add, NoScalar)
           new == Append(prog, a)
           y   == IF add THEN AddValue(acc, x) ELSE x
<1>1. /\ w \in Variables /\ x \in Values /\ w.name \in InMemory(prog) /\ Mem(prog)[w.name] = x
      /\ add => acc \in Values /\ Mem(prog)[res.name] = acc /\ Within(acc, res.spp)
  BY DEF Known
<1>2. /\ a \in Actions /\ isRHSVariable(a) /\ Len(a.term.args) = 1
      /\ \A n : n \in TermNames(a.term) <=> n = w.name
      /\ a.result = res /\ Def(a) = res.name /\ (isCompound(a) <=> add)
  <2>1. NoScalar \in Nat
    BY DEF NoScalar
  <2> HIDE DEF NoScalar
  <2> QED BY <1>1, <2>1, VariableTermOk
<1>3. Computed(a, Mem(prog)) = y
  <2>1. ScaleValue(1, x) = x
    BY <1>1, ScaleOk
  <2>2. Computed(a, Mem(prog)) =
           LET value == ScaleValue(IF NoScalar = NoScalar THEN 1 ELSE NoScalar, Mem(prog)[w.name])
           IN  IF add THEN AddValue(Mem(prog)[res.name], value) ELSE value
    BY CopyComputed
  <2> QED BY <1>1, <2>1, <2>2
<1>4. y \in Values /\ Within(y, res.spp)
  BY <1>1, AddOk DEF SuppOn, Within
<1> HIDE DEF a, y
<1>5. variables(a) \subseteq InMemory(prog)
  <2>1. \A n : n \in variables(a) <=> n \in TermNames(a.term) \/ (isCompound(a) /\ n = Def(a))
    BY <1>2, OccurringNames
  <2> QED BY <1>1, <1>2, <2>1
<1>6. Keeps(a, Mem(prog))
  <2>1. \A c \in Cells : c \notin res.lay.cells => y[c] = 0
    BY <1>4 DEF SuppOn, Within, isCompatible
  <2>2. Stored(res.lay, y) = y
    BY <1>4, <2>1, StoredOk
  <2> QED BY <1>2, <1>3, <2>2 DEF Keeps
<1>7. TensorValues \in [Tensor -> Values]
  BY KernelAssumption
<1>8. PICK f : Clean(prog, TensorValues, f)
  BY DEF Sane
<1>9. /\ new \in Seq(Actions) /\ Unary(new)
      /\ \E g : Clean(new, TensorValues, g)
      /\ \A n : n \in InMemory(new) <=> n \in InMemory(prog) \/ n = Def(a)
      /\ Mem(new)[Def(a)] = Computed(a, Mem(prog))
      /\ \A n \in InMemory(prog) : n # Def(a) => Mem(new)[n] = Mem(prog)[n]
  BY <1>2, <1>5, <1>6, <1>7, <1>8, AppendRuns DEF Sane, Mem
<1> HIDE DEF new
<1>10. Sane(new, k)
  BY <1>2, <1>9 DEF Sane
<1>11. Known(new, res, y)
  BY <1>2, <1>3, <1>4, <1>9 DEF Known
<1>12. Keep(prog, new, {res.name})
  BY <1>2, <1>9 DEF Keep
<1> QED BY <1>2, <1>10, <1>11, <1>12 DEF a, new, y

LEMMA ConvertedOk ==
  ASSUME NEW conv, NEW val \in Values
  PROVE  /\ ConvertedValue(conv, val) \in Values
         /\ \A own \in SUBSET Cells :
              Within(val, own) => Within(ConvertedValue(conv, val), ConvertedSpp(conv, own))
<1> DEFINE p == IF "Permute" \in conv THEN PermuteValue(val) ELSE val
<1>1. p \in Values
  BY PermuteOk
<1>2. \A own \in SUBSET Cells : Within(val, own) =>
        Within(p, IF "Permute" \in conv THEN PermuteSpp(own) ELSE own)
  BY PermuteOk DEF SuppOn, Within
<1>3. ConvertedValue(conv, val) = IF "Broadcast" \in conv THEN BroadcastValue(p) ELSE p
  BY DEF ConvertedValue
<1> HIDE DEF p
<1>4. ConvertedValue(conv, val) \in Values
  BY <1>1, <1>3, BroadcastOk
<1>5. ASSUME NEW own \in SUBSET Cells, Within(val, own)
      PROVE  Within(ConvertedValue(conv, val), ConvertedSpp(conv, own))
  <2> DEFINE q == IF "Permute" \in conv THEN PermuteSpp(own) ELSE own
  <2>1. q \in SUBSET Cells /\ Within(p, q)
    BY <1>2, <1>5, SppType
  <2>2. ConvertedSpp(conv, own) = IF "Broadcast" \in conv THEN BroadcastSpp(q) ELSE q
    BY DEF ConvertedSpp
  <2> HIDE DEF q
  <2> QED BY <1>1, <1>3, <2>1, <2>2, BroadcastOk DEF SuppOn, Within
<1> QED BY <1>4, <1>5

\* _addPermuteIfRequired returns a variable that holds the converted value.
LEMMA AddPermuteValue ==
  ASSUME NEW prog, NEW k, Sane(prog, k), NEW conv \in Conversions, NEW own \in SUBSET Cells,
         NEW v, NEW val, Known(prog, v, val), conv # {} => Within(val, own)
  PROVE  LET r   == AddPermuteIfRequired(conv, own, v, k)
             new == prog \o r.code
         IN  /\ r.code \in Seq(Actions)
             /\ Sane(new, r.next)
             /\ Known(new, r.var, ConvertedValue(conv, val))
             /\ Keep(prog, new, {})
<1> DEFINE r     == AddPermuteIfRequired(conv, own, v, k)
           Ok(c) == /\ r.code \in Seq(Actions)
                    /\ Sane(prog \o r.code, r.next)
                    /\ Known(prog \o r.code, r.var, c)
                    /\ Keep(prog, prog \o r.code, {})
<1>1. prog \in Seq(Actions) /\ val \in Values
  BY DEF Sane, Known
<1>2. CASE conv = {}
  <2>1. r.code = <<>> /\ r.var = v /\ r.next = k
    <3>1. "Permute" \notin conv /\ "Broadcast" \notin conv
      BY <1>2
    <3>2. <<>> \o <<>> = <<>> /\ Len(<<>>) = 0 /\ k \in Nat /\ k + 0 = k /\ k + 0 + 0 = k
      BY DEF Sane
    <3> QED BY <3>1, <3>2 DEF AddPermuteIfRequired
  <2>2. prog \o <<>> = prog /\ <<>> \in Seq(Actions)
    BY <1>1
  <2>3. Keep(prog, prog, {})
    BY DEF Keep
  <2>4. ConvertedValue(conv, val) = val
    BY <1>2 DEF ConvertedValue
  <2> HIDE DEF r
  <2>5. Ok(val)
    BY <2>1, <2>2, <2>3
  <2> QED BY <2>4, <2>5 DEF r
<1>3. CASE conv = {"Permute"} \/ conv = {"Broadcast"}
  <2> DEFINE op == IF conv = {"Permute"} THEN "Permute" ELSE "Broadcast"
             spp == TransformedSpp(op, own)
             a == TransformOp(op, spp, k, v)
  <2>1. op \in {"Permute", "Broadcast"} /\ Within(val, own)
    BY <1>3
  <2>2. r.code = <<a>> /\ r.var = a.result /\ r.next = k + 1
    <3>1. CASE conv = {"Permute"}
      <4>1. "Permute" \in conv /\ "Broadcast" \notin conv /\ op = "Permute"
            /\ conv \cap {"Permute"} = {"Permute"}
        BY <3>1
      <4> HIDE DEF op
      <4>2. spp = ConvertedSpp(conv \cap {"Permute"}, own)
        BY <4>1 DEF TransformedSpp, ConvertedSpp
      <4> HIDE DEF spp
      <4>3. a = TransformOp("Permute", spp, k, v)
        BY <4>1
      <4> HIDE DEF a
      <4>4. <<a>> \o <<>> = <<a>> /\ <<a>>[1] = a /\ Len(<<a>>) = 1 /\ Len(<<>>) = 0 /\ <<a>> # <<>>
        OBVIOUS
      <4>5. k \in Nat
        BY DEF Sane
      <4> QED BY <4>1, <4>2, <4>3, <4>4, <4>5 DEF AddPermuteIfRequired
    <3>2. CASE conv = {"Broadcast"}
      <4>1. "Permute" \notin conv /\ "Broadcast" \in conv /\ op = "Broadcast"
            /\ conv \cap {"Permute"} = {}
        BY <3>2
      <4> HIDE DEF op
      <4>2. ConvertedSpp(conv \cap {"Permute"}, own) = own /\ spp = BroadcastSpp(own)
        BY <4>1 DEF TransformedSpp, ConvertedSpp
      <4> HIDE DEF spp
      <4>3. a = TransformOp("Broadcast", spp, k, v)
        BY <4>1
      <4> HIDE DEF a
      <4>4. <<>> \o <<a>> = <<a>> /\ <<a>>[1] = a /\ Len(<<a>>) = 1 /\ Len(<<>>) = 0 /\ <<a>> # <<>>
        OBVIOUS
      <4>5. k \in Nat /\ k + 0 = k
        BY DEF Sane
      <4> QED BY <4>1, <4>2, <4>3, <4>4, <4>5 DEF AddPermuteIfRequired
    <3> QED BY <1>3, <3>1, <3>2
  <2>3. ConvertedValue(conv, val) = Transformed(op, val)
    BY <1>3 DEF ConvertedValue, Transformed
  <2>4. a.result = Temporary(k, spp)
    BY DEF TransformOp, ProgramAction
  <2> HIDE DEF op, r
  <2>5. /\ a \in Actions
        /\ Sane(Append(prog, a), k + 1)
        /\ Known(Append(prog, a), Temporary(k, spp), Transformed(op, val))
        /\ Keep(prog, Append(prog, a), {})
    BY <2>1, TransformValue
  <2> HIDE DEF a, spp
  <2>6. prog \o <<a>> = Append(prog, a) /\ <<a>> \in Seq(Actions)
    BY <1>1, <2>5
  <2>7. Ok(Transformed(op, val))
    BY <2>2, <2>4, <2>5, <2>6
  <2> QED BY <2>3, <2>7 DEF r
<1>4. CASE conv = {"Permute", "Broadcast"}
  <2> DEFINE pspp == PermuteSpp(own)
             a == TransformOp("Permute", pspp, k, v)
             bspp == BroadcastSpp(pspp)
             b == TransformOp("Broadcast", bspp, k + 1, a.result)
             mid == Append(prog, a)
             new == Append(mid, b)
  <2>1. k \in Nat /\ Within(val, own)
    BY <1>4 DEF Sane
  <2>2. r.code = <<a>> \o <<b>> /\ r.var = b.result /\ r.next = k + 1 + 1
    <3>1. "Permute" \in conv /\ "Broadcast" \in conv /\ conv \cap {"Permute"} = {"Permute"}
      BY <1>4
    <3>2. ConvertedSpp(conv \cap {"Permute"}, own) = pspp
      BY <3>1 DEF ConvertedSpp
    <3> HIDE DEF pspp
    <3>3. <<a>>[1] = a /\ Len(<<a>>) = 1 /\ <<b>>[1] = b /\ Len(<<b>>) = 1
          /\ <<a>> # <<>> /\ <<b>> # <<>>
      OBVIOUS
    <3> DEFINE a1 == a
               b1 == b
    <3>4. a1 = TransformOp("Permute", pspp, k, v) /\ b1 = TransformOp("Broadcast", BroadcastSpp(pspp), k + 1, a1.result)
      OBVIOUS
    <3> HIDE DEF a1
    <3>5. b1 = TransformOp("Broadcast", BroadcastSpp(pspp), k + 1, a1.result)
      BY <3>4
    <3> HIDE DEF b1
    <3>6. <<a1>>[1] = a1 /\ Len(<<a1>>) = 1 /\ <<b1>>[1] = b1 /\ Len(<<b1>>) = 1
          /\ <<a1>> # <<>> /\ <<b1>> # <<>>
      OBVIOUS
    <3>7. r.code = <<a1>> \o <<b1>> /\ r.var = b1.result /\ r.next = k + 1 + 1
      BY <3>1, <3>2, <3>4, <3>5, <3>6 DEF AddPermuteIfRequired
    <3> QED BY <3>7 DEF a1, b1
  <2>3. a.result = Temporary(k, pspp) /\ b.result = Temporary(k + 1, bspp)
    BY DEF TransformOp, ProgramAction
  <2>4. ConvertedValue(conv, val) = BroadcastValue(PermuteValue(val))
    BY <1>4 DEF ConvertedValue
  <2> HIDE DEF r
  <2>5. /\ a \in Actions /\ pspp \in SUBSET Cells
        /\ Sane(mid, k + 1)
        /\ Known(mid, Temporary(k, pspp), PermuteValue(val))
        /\ Keep(prog, mid, {})
    <3> DEFINE op == "Permute"
    <3>1. op \in {"Permute", "Broadcast"}
      OBVIOUS
    <3>2. TransformedSpp(op, own) = pspp /\ Transformed(op, val) = PermuteValue(val)
      BY DEF TransformedSpp, Transformed
    <3> HIDE DEF op
    <3>3. /\ TransformOp(op, TransformedSpp(op, own), k, v) \in Actions
          /\ TransformedSpp(op, own) \in SUBSET Cells
          /\ Sane(Append(prog, TransformOp(op, TransformedSpp(op, own), k, v)), k + 1)
          /\ Known(Append(prog, TransformOp(op, TransformedSpp(op, own), k, v)), Temporary(k, TransformedSpp(op, own)), Transformed(op, val))
          /\ Keep(prog, Append(prog, TransformOp(op, TransformedSpp(op, own), k, v)), {})
      BY <2>1, <3>1, TransformValue
    <3>4. a = TransformOp(op, TransformedSpp(op, own), k, v)
      BY <3>2 DEF op
    <3> HIDE DEF pspp
    <3> QED BY <3>2, <3>3, <3>4
  <2>6. Within(PermuteValue(val), pspp)
    BY <1>1, <2>1, PermuteOk DEF SuppOn, Within
  <2>7. /\ b \in Actions
        /\ Sane(new, k + 1 + 1)
        /\ Known(new, Temporary(k + 1, bspp), BroadcastValue(PermuteValue(val)))
        /\ Keep(mid, new, {})
    <3> DEFINE op == "Broadcast"
               u == Temporary(k, pspp)
               l == k + 1
               x == PermuteValue(val)
    <3>1. op \in {"Permute", "Broadcast"}
      OBVIOUS
    <3>2. TransformedSpp(op, pspp) = bspp /\ Transformed(op, x) = BroadcastValue(x)
      BY DEF TransformedSpp, Transformed
    <3>5. b = TransformOp("Broadcast", bspp, l, u) /\ Known(mid, u, x) /\ Sane(mid, l) /\ Within(x, pspp)
      BY <2>3, <2>5, <2>6
    <3>6. b = TransformOp(op, TransformedSpp(op, pspp), l, u)
      BY <3>2, <3>5
    <3> HIDE DEF op, u, l, x, b, mid, pspp, bspp
    <3>3. /\ TransformOp(op, TransformedSpp(op, pspp), l, u) \in Actions
          /\ Sane(Append(mid, TransformOp(op, TransformedSpp(op, pspp), l, u)), l + 1)
          /\ Known(Append(mid, TransformOp(op, TransformedSpp(op, pspp), l, u)), Temporary(l, TransformedSpp(op, pspp)), Transformed(op, x))
          /\ Keep(mid, Append(mid, TransformOp(op, TransformedSpp(op, pspp), l, u)), {})
      BY <2>5, <3>1, <3>5, TransformValue
    <3>4. /\ b \in Actions
          /\ Sane(Append(mid, b), l + 1)
          /\ Known(Append(mid, b), Temporary(l, bspp), BroadcastValue(x))
          /\ Keep(mid, Append(mid, b), {})
      BY <3>2, <3>3, <3>6
    <3> QED BY <3>4 DEF l, x
  <2> HIDE DEF pspp, bspp, a, b
  <2>8. prog \o (<<a>> \o <<b>>) = new /\ <<a>> \o <<b>> \in Seq(Actions)
    BY <1>1, <2>5, <2>7
  <2>9. Keep(prog, new, {})
    <3>1. Keep(prog, new, {} \cup {})
      BY <2>5, <2>7, KeptOn
    <3> QED BY <3>1
  <2>10. Ok(BroadcastValue(PermuteValue(val)))
    BY <2>2, <2>3, <2>7, <2>8, <2>9
  <2> QED BY <2>4, <2>10 DEF r
<1>5. conv = {} \/ conv = {"Permute"} \/ conv = {"Broadcast"} \/ conv = {"Permute", "Broadcast"}
  BY DEF Conversions
<1> QED BY <1>2, <1>3, <1>4, <1>5

\* After j addends the sum is acc, and nothing else has changed.
SumKnown(prog, k, spp, j, e, acc) ==
  /\ e.code \in Seq(Actions)
  /\ Sane(prog \o e.code, e.next)
  /\ j = 0 => e = [code |-> <<>>, next |-> k + 1]
  /\ j > 0 => Known(prog \o e.code, Temporary(k, spp), acc)
  /\ Keep(prog, prog \o e.code, {})

LEMMA SumValueStep ==
  ASSUME NEW prog, NEW k, Sane(prog, k), NEW spp \in SUBSET Cells,
         NEW j \in Nat, NEW e, NEW acc, SumKnown(prog, k, spp, j, e, acc), j = 0 => acc = Zero,
         NEW conv \in Conversions, j = 0 => conv = {}, NEW own \in SUBSET Cells,
         NEW v, NEW val, Known(prog, v, val), conv # {} => Within(val, own),
         Within(ConvertedValue(conv, val), spp), NEW add \in BOOLEAN, add <=> j > 0
  PROVE  SumKnown(prog, k, spp, j + 1, EmitAddend(Temporary(k, spp), conv, own, v, add, e),
                  AddValue(acc, ConvertedValue(conv, val)))
<1> DEFINE res == Temporary(k, spp)
           r   == AddPermuteIfRequired(conv, own, v, e.next)
           old == prog \o e.code
           mid == old \o r.code
           a   == ProgramAction(res, VariableTerm(r.var), add, NoScalar)
           new == Append(mid, a)
           x   == ConvertedValue(conv, val)
           f   == EmitAddend(Temporary(k, spp), conv, own, v, add, e)
<1>1. /\ k \in Nat /\ k \notin InMemory(prog)
      /\ res \in Variables /\ res.name = k /\ res.spp = spp /\ isCompatible(res.lay, res.spp)
      /\ simpleMemoryLayout => res.lay.cells = Cells
  <2>1. simpleMemoryLayout => res.lay.cells = Cells
    BY DEF Temporary, Layout
  <2> QED BY <2>1, MemOk, TemporaryOk
<1>2. /\ prog \in Seq(Actions) /\ e.code \in Seq(Actions) /\ old \in Seq(Actions)
      /\ Sane(old, e.next) /\ Keep(prog, old, {})
  BY DEF SumKnown, Sane
<1>3. Known(old, v, val)
  BY <1>2, KnownKept
<1>4. x \in Values
  BY ConvertedOk DEF Known
<1>5. /\ r.code \in Seq(Actions) /\ Sane(mid, r.next) /\ Known(mid, r.var, x)
      /\ Keep(old, mid, {})
  <2> HIDE DEF old
  <2> QED BY <1>2, <1>3, AddPermuteValue
<1>6. /\ a \in Actions
      /\ Sane(new, r.next) /\ Known(new, res, AddValue(acc, x)) /\ Keep(mid, new, {k})
  <2>1. CASE j = 0
    <3>1. ~ add /\ acc = Zero /\ conv = {} /\ e.code = <<>> /\ e.next = k + 1
      BY <2>1 DEF SumKnown
    <3>2. r.code = <<>> /\ r.var = v /\ r.next = k + 1
      <4>1. "Permute" \notin conv /\ "Broadcast" \notin conv
        BY <3>1
      <4>2. <<>> \o <<>> = <<>> /\ Len(<<>>) = 0 /\ k + 1 + 0 = k + 1 /\ k + 1 + 0 + 0 = k + 1
        BY <1>1
      <4> QED BY <3>1, <4>1, <4>2 DEF AddPermuteIfRequired
    <3>3. mid = prog
      BY <1>2, <3>1, <3>2
    <3> HIDE DEF r, mid, old, res
    <3>4. v \in Variables /\ v.name \in InMemory(prog) /\ Mem(prog)[v.name] = val /\ val \in Values
      BY DEF Known
    <3>5. x = val
      BY <3>1 DEF ConvertedValue
    <3> HIDE DEF x
    <3>6. /\ a \in Actions /\ Len(a.term.args) = 1
          /\ \A n : n \in TermNames(a.term) <=> n = v.name
      <4>1. NoScalar \in Nat
        BY DEF NoScalar
      <4>2. a = ProgramAction(res, VariableTerm(v), add, NoScalar)
        BY <3>2
      <4> HIDE DEF NoScalar, a
      <4>3. a \in Actions
        BY <1>1, <3>4, <4>1, <4>2, VariableTermOk
      <4>4. a.term.args = <<v>>
        BY <4>2 DEF ProgramAction, VariableTerm
      <4>5. DOMAIN <<v>> = {1} /\ <<v>>[1] = v /\ Len(<<v>>) = 1
        OBVIOUS
      <4> QED BY <4>3, <4>4, <4>5 DEF TermNames
    <3>7. a.result = res /\ ~ a.add
      BY <3>1 DEF ProgramAction
    <3>8. Computed(a, Mem(prog)) = val
      <4>1. ScaleValue(1, val) = val
        BY <3>4, ScaleOk
      <4>2. Computed(a, Mem(prog)) =
              LET value == ScaleValue(IF NoScalar = NoScalar THEN 1 ELSE NoScalar, Mem(prog)[v.name])
              IN  IF add THEN AddValue(Mem(prog)[res.name], value) ELSE value
        BY <3>2, CopyComputed
      <4> QED BY <3>1, <3>4, <4>1, <4>2
    <3> HIDE DEF a
    <3>9. /\ Sane(Append(prog, a), k + 1)
          /\ Known(Append(prog, a), Temporary(k, spp), val)
          /\ Keep(prog, Append(prog, a), {})
      <4>1. Within(val, spp) /\ TermNames(a.term) \subseteq InMemory(prog) /\ a.result = Temporary(k, spp)
        BY <3>4, <3>5, <3>6, <3>7 DEF x, res
      <4> QED BY <3>6, <3>7, <3>8, <4>1, EmitFresh
    <3>10. AddValue(acc, x) = val
      BY <3>1, <3>4, <3>5, AddZero
    <3>11. Keep(prog, Append(prog, a), {k})
      BY <3>9 DEF Keep
    <3> QED BY <3>2, <3>3, <3>6, <3>9, <3>10, <3>11 DEF res
  <2>2. CASE j # 0
    <3>1. add /\ Known(old, res, acc)
      BY <2>2 DEF SumKnown
    <3>2. Known(mid, res, acc)
      BY <1>5, <3>1, KnownKept
    <3>3. res.name \in InMemory(mid)
      BY <3>2 DEF Known
    <3>4. Within(x, res.spp)
      BY <1>1
    <3> DEFINE w == r.var
               l == r.next
    <3>5. Known(mid, w, x) /\ Sane(mid, l)
      BY <1>5
    <3> HIDE DEF r, mid, res, x, w, l
    <3>6. /\ ProgramAction(res, VariableTerm(w), add, NoScalar) \in Actions
          /\ Sane(Append(mid, ProgramAction(res, VariableTerm(w), add, NoScalar)), l)
          /\ Known(Append(mid, ProgramAction(res, VariableTerm(w), add, NoScalar)), res,
                   IF add THEN AddValue(acc, x) ELSE x)
          /\ Keep(mid, Append(mid, ProgramAction(res, VariableTerm(w), add, NoScalar)), {res.name})
      BY <1>1, <3>2, <3>3, <3>4, <3>5, EmitCopy
    <3> QED BY <1>1, <3>1, <3>6 DEF w, l
  <2> QED BY <2>1, <2>2
<1>7. f.code = e.code \o r.code \o <<a>> /\ f.next = r.next
  BY DEF EmitAddend
<1> HIDE DEF f, r, a
<1>8. f.code \in Seq(Actions) /\ prog \o f.code = new
  <2>1. /\ prog \in Seq(Actions) /\ e.code \in Seq(Actions) /\ r.code \in Seq(Actions)
        /\ a \in Actions
    BY <1>2, <1>5, <1>6
  <2> DEFINE p == prog
             q == e.code
             s == r.code
  <2> HIDE DEF p, q, s
  <2>2. p \in Seq(Actions) /\ q \in Seq(Actions) /\ s \in Seq(Actions) /\ a \in Actions
    BY <2>1 DEF p, q, s
  <2>3. q \o s \o <<a>> \in Seq(Actions)
    BY <2>2
  <2>4. p \o (q \o s \o <<a>>) = Append((p \o q) \o s, a)
    BY <2>2
  <2> QED BY <1>7, <2>3, <2>4 DEF p, q, s
<1>9. Keep(prog, new, {})
  <2>1. Keep(prog, mid, {} \cup {})
    BY <1>2, <1>5, KeptOn
  <2>2. Keep(prog, new, {} \cup {} \cup {k})
    BY <1>6, <2>1, KeptOn
  <2> QED BY <1>1, <2>2 DEF Keep
<1>10. j + 1 # 0 /\ j + 1 > 0
  OBVIOUS
<1> HIDE DEF new, res, x
<1>11. SumKnown(prog, k, spp, j + 1, f, AddValue(acc, x))
  BY <1>6, <1>7, <1>8, <1>9, <1>10 DEF SumKnown, res
<1> QED BY <1>11 DEF f, x

\* What the addends are.
AddendsKnown(prog, convs, own, vs, xs, spp) ==
  \A l \in 1 .. Len(vs) :
    /\ convs[l] \in Conversions /\ own[l] \in SUBSET Cells
    /\ Known(prog, vs[l], xs[l])
    /\ convs[l] # {} => Within(xs[l], own[l])
    /\ Within(ConvertedValue(convs[l], xs[l]), spp)

LEMMA SumValue ==
  ASSUME NEW prog, NEW k, Sane(prog, k), NEW spp \in SUBSET Cells,
         NEW vs, NEW n \in Nat, Len(vs) = n, n > 0, NEW convs, convs[1] = {}, NEW own, NEW xs,
         AddendsKnown(prog, convs, own, vs, xs, spp),
         NEW emitted, SumEmitted(emitted, convs, own, vs, k, spp),
         NEW ys, \A l \in 1 .. n : ys[l] = ConvertedValue(convs[l], xs[l]),
         NEW partial, SumsUp(partial, ys, n)
  PROVE  SumKnown(prog, k, spp, n, emitted[n], partial[n])
<1> DEFINE Good(j) == SumKnown(prog, k, spp, j, emitted[j], partial[j])
           P == {j \in Nat : j <= n => Good(j)}
<1>1. k \in Nat /\ prog \in Seq(Actions)
  BY DEF Sane
<1>2. Good(0)
  <2> DEFINE e == emitted[0]
  <2>1. e = [code |-> <<>>, next |-> k + 1]
    BY DEF SumEmitted
  <2> HIDE DEF e
  <2>2. e.code = <<>> /\ e.next = k + 1 /\ prog \o e.code = prog /\ e.code \in Seq(Actions)
    BY <1>1, <2>1
  <2>3. Sane(prog, k + 1)
    BY <1>1 DEF Sane
  <2>4. Keep(prog, prog, {}) /\ ~ (0 > 0)
    BY DEF Keep
  <2>5. SumKnown(prog, k, spp, 0, e, partial[0])
    BY <2>1, <2>2, <2>3, <2>4 DEF SumKnown
  <2> QED BY <2>5 DEF e
<1>3. ASSUME NEW j \in Nat, j + 1 <= n, Good(j) PROVE Good(j + 1)
  <2> DEFINE m == j + 1
             b == m > 1
             c == convs[m]
             o == own[m]
             v == vs[m]
             x == xs[m]
             acc == partial[j]
             e == emitted[j]
  <2>1. m \in 1 .. n /\ m - 1 = j /\ b \in BOOLEAN /\ (b <=> j > 0) /\ (j = 0 => m = 1)
    BY <1>3
  <2>2. emitted[m] = EmitAddend(Temporary(k, spp), c, o, v, b, e)
    BY <2>1 DEF SumEmitted
  <2>3. partial[m] = AddValue(acc, ConvertedValue(c, x)) /\ (j = 0 => acc = Zero)
    BY <2>1 DEF SumsUp
  <2>4. /\ c \in Conversions /\ o \in SUBSET Cells /\ Known(prog, v, x)
        /\ c # {} => Within(x, o)
        /\ Within(ConvertedValue(c, x), spp)
    BY <2>1 DEF AddendsKnown
  <2>5. j = 0 => c = {}
    BY <2>1
  <2>6. SumKnown(prog, k, spp, j, e, acc)
    BY <1>3
  <2> HIDE DEF c, o, v, x, acc, e, b
  <2>7. SumKnown(prog, k, spp, j + 1, EmitAddend(Temporary(k, spp), c, o, v, b, e),
                 AddValue(acc, ConvertedValue(c, x)))
    BY <2>1, <2>3, <2>4, <2>5, <2>6, SumValueStep
  <2> QED BY <2>2, <2>3, <2>7
<1> HIDE DEF Good, P
<1>4. 0 \in P /\ \A j \in Nat : j \in P => j + 1 \in P
  <2>1. 0 <= n /\ \A j \in Nat : j + 1 \in Nat /\ (j + 1 <= n => j <= n)
    OBVIOUS
  <2> QED BY <1>2, <1>3, <2>1 DEF P
<1>5. n \in P
  <2>1. Nat \subseteq P
    BY <1>4, NatSetInduction
  <2> QED BY <2>1
<1> QED BY <1>5 DEF P, Good

LEMMA ModAdd ==
  ASSUME NEW u \in 0 .. Modulus - 1, NEW v \in 0 .. Modulus - 1
  PROVE  (u + v) % Modulus = IF u + v < Modulus THEN u + v ELSE u + v - Modulus
<1> DEFINE M == Modulus
           x == u + v
           r == x % M
           q == x \div M
<1>1. M \in Nat /\ M >= 2
  BY ModOk
<1>2. x \in Int /\ x >= 0 /\ x < 2 * M
  BY <1>1
<1>3. x < M => x % M = x
  BY <1>1, <1>2, ModOk
<1> HIDE DEF M, x
<1>4. r \in Int /\ q \in Int /\ r >= 0 /\ r < M /\ x = M * q + r
  BY <1>1, <1>2
<1> HIDE DEF r, q
<1>5. ASSUME x >= M PROVE r = x - M
  <2>1. q >= 1
    <3> SUFFICES ASSUME q <= 0 PROVE FALSE
      BY <1>4
    <3>1. M * q <= 0
      BY <1>1, <1>4
    <3> QED BY <1>1, <1>2, <1>4, <1>5, <3>1
  <2>2. q <= 1
    <3> SUFFICES ASSUME q >= 2 PROVE FALSE
      BY <1>4
    <3>1. M * q >= 2 * M
      BY <1>1, <1>4
    <3> QED BY <1>1, <1>2, <1>4, <1>5, <3>1
  <2>3. q = 1
    BY <1>4, <2>1, <2>2
  <2> QED BY <1>1, <1>4, <2>3
<1> QED BY <1>1, <1>2, <1>3, <1>5 DEF x, M, r

Bijective(h, n) ==
  /\ h \in [1 .. n -> 1 .. n]
  /\ \A p, q \in 1 .. n : h[p] = h[q] => p = q

Rearranged(ys, xs, h, n) == Bijective(h, n) /\ \A l \in 1 .. n : ys[l] = xs[h[l]]

FoldsCell(f, xs, n, c) == FoldedOver(f, 1 .. n, [l \in 1 .. n |-> xs[l][c]], Sum, 0)

\* The number t is the value v in the cell c, up to a multiple of Modulus.
Congruent(t, v, c) == v \in Values /\ \E q \in Nat : t = v[c] + Modulus * q

\* The sum of the values xs in the order h, in one cell, is what any order gives.
LEMMA SumInOrder ==
  ASSUME NEW n \in Nat, NEW xs \in [1 .. n -> Values], NEW h, NEW ys, Rearranged(ys, xs, h, n),
         NEW sum, SumsUp(sum, ys, n), NEW c \in Cells,
         NEW f, FoldsCell(f, xs, n, c)
  PROVE  Congruent(f[1 .. n], sum[n], c)
<1> DEFINE S == 1 .. n
           g == [l \in S |-> xs[l][c]]
           I(k) == {h[l] : l \in 1 .. k}
           M == Modulus
           Ok(k) == /\ sum[k] \in Values
                    /\ \E q \in Nat : f[I(k)] = sum[k][c] + M * q
           P == {k \in Nat : k <= n => Ok(k)}
<1>0. Bijective(h, n) /\ \A l \in 1 .. n : ys[l] = xs[h[l]]
  BY DEF Rearranged
<1>1. /\ IsFiniteSet(S) /\ g \in [S -> Nat]
      /\ M \in Nat /\ M >= 2
  <2>1. IsFiniteSet(S)
    BY FS_Interval
  <2>2. \A l \in S : xs[l][c] \in Nat
    <3> TAKE l \in S
    <3>1. xs[l] \in Values
      OBVIOUS
    <3>2. xs[l][c] \in 0 .. Modulus - 1
      BY <3>1, CellOk
    <3> QED BY <3>2, ModOk
  <2> QED BY <2>1, <2>2, ModOk
<1>2. AnyFirst(f, S, g, Sum) /\ f[{}] = 0 /\ f \in [SUBSET S -> Nat]
  <2>1. FoldedOver(f, S, g, Sum, 0)
    BY DEF FoldsCell
  <2>2. AnyFirst(f, S, g, Sum) /\ f \in [SUBSET S -> Nat]
    <3> HIDE DEF g, S
    <3> QED BY <1>1, <2>1, SumCommutative, FoldAny, FoldNat
  <2>3. {} \in SUBSET S
    OBVIOUS
  <2> QED BY <2>1, <2>2, <2>3 DEF FoldedOver
<1>3. 0 \in P
  <2>1. I(0) = {}
    OBVIOUS
  <2>2. sum[0] = Zero
    BY DEF SumsUp
  <2>3. Zero[c] = 0 /\ M * 0 = 0 /\ 0 + 0 = 0
    BY <1>1 DEF Zero
  <2> QED BY <1>2, <2>1, <2>2, <2>3, AddZero
<1>4. ASSUME NEW k \in Nat, k + 1 <= n, Ok(k) PROVE Ok(k + 1)
  <2> DEFINE m == k + 1
  <2>1. m \in 1 .. n /\ m - 1 = k /\ k <= n
    BY <1>4
  <2>2. PICK q \in Nat : f[I(k)] = sum[k][c] + M * q
    BY <1>4, <2>1
  <2>3. sum[k] \in Values
    BY <1>4, <2>1
  <2> DEFINE x == xs[h[m]]
             u == sum[k][c]
             v == x[c]
  <2>4. sum[m] = AddValue(sum[k], x) /\ x \in Values /\ h[m] \in S
    <3>1. h[m] \in S /\ ys[m] = xs[h[m]]
      BY <1>0, <2>1 DEF Bijective
    <3>2. sum[m] = AddValue(sum[k], ys[m])
      BY <2>1 DEF SumsUp
    <3> QED BY <3>1, <3>2
  <2> HIDE DEF x, g
  <2>5. sum[m] \in Values /\ sum[m][c] = (u + v) % M
    BY <2>3, <2>4, AddOk DEF AddValue
  <2>6. u \in 0 .. M - 1 /\ v \in 0 .. M - 1
    BY <2>3, <2>4, CellOk
  <2>7. (u + v) % M = IF u + v < M THEN u + v ELSE u + v - M
    BY <2>6, ModAdd
  <2>8. f[I(m)] = v + f[I(k)]
    <3>1. I(m) \in SUBSET S /\ h[m] \in I(m)
      <4>1. m \in 1 .. m /\ \A l \in 1 .. m : l \in 1 .. n
        BY <2>1
      <4>2. \A l \in 1 .. n : h[l] \in S
        BY <1>0 DEF Bijective
      <4> HIDE DEF m, S
      <4> QED BY <4>1, <4>2
    <3>2. I(m) \ {h[m]} = I(k)
      <4>1. \A l : l \in 1 .. m <=> l \in 1 .. k \/ l = m
        BY <2>1
      <4>2. \A l \in 1 .. k : l \in 1 .. n /\ l # m
        BY <2>1
      <4>3. \A l \in 1 .. k : h[l] # h[m]
        BY <1>0, <2>1, <4>2 DEF Bijective
      <4> HIDE DEF m
      <4> QED BY <4>1, <4>3
    <3> HIDE DEF I, g, m
    <3>3. f[I(m)] = Sum[<<g[h[m]], f[I(m) \ {h[m]}]>>]
      BY <1>2, <3>1 DEF AnyFirst
    <3>4. I(k) \in SUBSET S
      BY <3>1, <3>2
    <3>5. f[I(k)] \in Nat
      BY <1>2, <3>4
    <3>6. g[h[m]] = v /\ g[h[m]] \in Nat
      BY <1>1, <2>4 DEF x, g
    <3> HIDE DEF v
    <3> QED BY <3>2, <3>3, <3>5, <3>6 DEF Sum
  <2> HIDE DEF I, u, v, m, M
  <2>9. \E r \in Nat : f[I(m)] = sum[m][c] + M * r
    <3>1. M * q \in Nat /\ M * (q + 1) = M * q + M
      BY <1>1
    <3>2. f[I(m)] = v + (u + M * q)
      BY <2>2, <2>8 DEF u
    <3> DEFINE w == M * q
               z == M * (q + 1)
    <3>3. w \in Nat /\ z = w + M /\ f[I(m)] = v + (u + w) /\ q + 1 \in Nat
      BY <3>1, <3>2
    <3> HIDE DEF w, z
    <3>4. sum[m][c] = u + v \/ sum[m][c] = u + v - M
      BY <2>5, <2>7
    <3>5. u \in Int /\ v \in Int /\ M \in Int /\ w \in Int
      BY <1>1, <2>6, <3>3
    <3>6. v + (u + w) = (u + v) + w /\ v + (u + w) = (u + v - M) + (w + M)
      BY <3>5
    <3>7. f[I(m)] = sum[m][c] + w \/ f[I(m)] = sum[m][c] + z
      BY <3>3, <3>4, <3>6
    <3> QED BY <3>3, <3>7 DEF w, z
  <2> QED BY <2>5, <2>9 DEF m, M
<1> HIDE DEF Ok
<1>5. Nat \subseteq P
  <2>1. \A k \in Nat : k + 1 \in Nat /\ (k + 1 <= n => k <= n)
    OBVIOUS
  <2>2. \A k \in Nat : k \in P => k + 1 \in P
    BY <1>4, <2>1
  <2> HIDE DEF P
  <2> QED BY <1>3, <2>2, NatSetInduction
<1>6. Ok(n)
  BY <1>5
<1>7. I(n) = 1 .. n
  <2>1. h \in Injection(S, S)
    BY <1>0 DEF Bijective, Injection, IsInjective
  <2>2. h \in Surjection(S, S)
    <3> HIDE DEF S
    <3> QED BY <1>1, <2>1, FS_Injection
  <2>3. \A p \in S : \E l \in S : h[l] = p
    BY <2>2 DEF Surjection
  <2>4. \A l \in S : h[l] \in S
    BY <1>0 DEF Bijective
  <2>5. \A p : p \in I(n) <=> p \in S
    <3> HIDE DEF S
    <3>1. I(n) = {h[l] : l \in S}
      BY DEF S
    <3> HIDE DEF I
    <3> QED BY <2>3, <2>4, <3>1
  <2> HIDE DEF I
  <2> QED BY <2>5
<1> HIDE DEF I
<1> QED BY <1>6, <1>7 DEF Ok, M, Congruent

\* A sum of values does not depend on the order of its addends.
LEMMA SumPermuted ==
  ASSUME NEW n \in Nat, NEW xs \in [1 .. n -> Values], NEW h, NEW ys, Rearranged(ys, xs, h, n),
         NEW a, SumsUp(a, xs, n), NEW b, SumsUp(b, ys, n)
  PROVE  a[n] \in Values /\ b[n] = a[n]
<1> DEFINE id == [l \in 1 .. n |-> l]
           M == Modulus
<1>1. Rearranged(xs, xs, id, n)
  BY DEF Bijective, Rearranged
<1> HIDE DEF id
<1>2. ASSUME NEW c \in Cells
      PROVE  a[n] \in Values /\ b[n] \in Values /\ b[n][c] = a[n][c]
  <2> DEFINE g == [l \in 1 .. n |-> xs[l][c]]
             S == 1 .. n
  <2>1. IsFiniteSet(S) /\ g \in [S -> Nat] /\ 0 \in Nat
    <3>1. \A l \in S : xs[l][c] \in Nat
      <4> TAKE l \in S
      <4>1. xs[l] \in Values
        OBVIOUS
      <4>2. xs[l][c] \in 0 .. Modulus - 1
        BY <4>1, CellOk
      <4> QED BY <4>2, ModOk
    <3> QED BY <3>1, FS_Interval
  <2>2. PICK f : FoldedOver(f, S, g, Sum, 0)
    <3> HIDE DEF g, S
    <3> QED BY <2>1, SumCommutative, FoldExists
  <2>3. FoldsCell(f, xs, n, c)
    BY <2>2 DEF FoldsCell
  <2>4. a[n] \in Values /\ \E q \in Nat : f[1 .. n] = a[n][c] + Modulus * q
    <3>1. Congruent(f[1 .. n], a[n], c)
      <4> HIDE DEF g, S, M
      <4> QED BY <1>1, <2>3, SumInOrder
    <3> QED BY <3>1 DEF Congruent
  <2>5. b[n] \in Values /\ \E q \in Nat : f[1 .. n] = b[n][c] + Modulus * q
    <3>1. Congruent(f[1 .. n], b[n], c)
      <4> HIDE DEF g, S, M
      <4> QED BY <2>3, SumInOrder
    <3> QED BY <3>1 DEF Congruent
  <2>6. PICK p \in Nat : f[1 .. n] = a[n][c] + M * p
    BY <2>4
  <2>7. PICK q \in Nat : f[1 .. n] = b[n][c] + M * q
    BY <2>5
  <2> DEFINE u == a[n][c]
             v == b[n][c]
  <2>8. u \in 0 .. M - 1 /\ v \in 0 .. M - 1 /\ M \in Nat
    BY <2>4, <2>5, CellOk, ModOk
  <2>9. u + M * p = v + M * q
    BY <2>6, <2>7
  <2> HIDE DEF u, v, M
  <2>10. p = q
    <3>1. CASE p > q
      <4>1. M * p >= M * (q + 1) /\ M * (q + 1) = M * q + M
        BY <2>8, <3>1
      <4> QED BY <2>8, <2>9, <4>1
    <3>2. CASE q > p
      <4>1. M * q >= M * (p + 1) /\ M * (p + 1) = M * p + M
        BY <2>8, <3>2
      <4> QED BY <2>8, <2>9, <4>1
    <3> QED BY <3>1, <3>2
  <2>11. u = v
    <3>1. M * p \in Nat
      BY <2>8
    <3> QED BY <2>8, <2>9, <2>10, <3>1
  <2> QED BY <2>4, <2>5, <2>11 DEF u, v
<1>3. 1 \in Cells
  BY DEF Cells
<1>4. a[n] \in Values /\ b[n] \in Values
  BY <1>2, <1>3
<1> QED BY <1>2, <1>4 DEF Values

-----------------------------------------------------------------------------
(* The meaning of a kernel and the memory of its program *)

TensorsMean(prog, m) ==
  /\ m \in [Tensor -> Values]
  /\ \A n \in Tensor : Mem(prog)[n] = m[n] /\ Within(m[n], TensorCells[n])

StackMeans(prog, st) ==
  \A k \in 1 .. Len(st) : Known(prog, st[k].var, st[k].val)

ValueInv ==
  ~ misplaced =>
    /\ Sane(cfg, tmp)
    /\ TensorsMean(cfg, meaning)
    /\ StackMeans(cfg, stack)

LEMMA TensorsKept ==
  ASSUME NEW prog, NEW m, TensorsMean(prog, m), NEW new, Keep(prog, new, {})
  PROVE  TensorsMean(new, m)
<1>1. Tensor \subseteq InMemory(prog)
  BY DEF InMemory
<1> QED BY <1>1 DEF TensorsMean, Keep

\* The operands on the stack have the values of their expressions.
LEMMA OperandsMean ==
  ASSUME LInv, StackMeans(cfg, stack), NEW n \in Nat, n <= Len(stack)
  PROVE  /\ \A k \in 1 .. n : Known(cfg, Top(n)[k].var, Top(n)[k].val)
         /\ \A k \in 1 .. n : Top(n)[k].spp = Top(n)[k].var.spp
         /\ \A k \in 1 .. Len(stack) - n : Known(cfg, stack[k].var, stack[k].val)
<1>1. StackOk(stack)
  BY DEF LInv
<1>2. /\ Len(stack) \in Nat
      /\ \A k \in 1 .. n : /\ Len(stack) - n + k \in 1 .. Len(stack)
                           /\ Top(n)[k] = stack[Len(stack) - n + k]
  BY <1>1, StackTop
<1>3. \A k \in 1 .. Len(stack) - n : k \in 1 .. Len(stack)
  BY <1>2
<1> QED BY <1>1, <1>2, <1>3 DEF StackMeans, StackOk

\* A visit_ method returns a variable that has the value of its node.
LEMMA VisitMeans ==
  ASSUME LInv, ValueInv, NEW n \in Nat, n <= Len(stack), NEW e,
         stack' = Replaced(n, e), meaning' = meaning,
         simpleMemoryLayout' = simpleMemoryLayout,
         ~ misplaced' => /\ ~ misplaced
                         /\ Sane(cfg', tmp')
                         /\ Keep(cfg, cfg', {})
                         /\ Known(cfg', e.var, e.val)
  PROVE  ValueInv'
<1> SUFFICES ASSUME ~ misplaced'
             PROVE  /\ Sane(cfg', tmp')
                    /\ TensorsMean(cfg', meaning)
                    /\ StackMeans(cfg', Replaced(n, e))
  BY DEF ValueInv, TensorsMean, StackMeans, Known, Within
<1>1. /\ Sane(cfg', tmp') /\ Keep(cfg, cfg', {}) /\ Known(cfg', e.var, e.val)
      /\ TensorsMean(cfg, meaning) /\ StackMeans(cfg, stack)
  BY DEF ValueInv
<1>2. TensorsMean(cfg', meaning)
  BY <1>1, TensorsKept
<1>3. \A k \in 1 .. Len(stack) - n : Known(cfg', stack[k].var, stack[k].val)
  <2> TAKE k \in 1 .. Len(stack) - n
  <2>1. Known(cfg, stack[k].var, stack[k].val)
    BY <1>1, OperandsMean
  <2> QED BY <1>1, <2>1, KnownKept
<1>4. StackMeans(cfg', Replaced(n, e))
  <2>1. PICK S : stack \in Seq(S)
    BY DEF LInv, StackOk
  <2> DEFINE m   == Len(stack) - n
             sub == SubSeq(stack, 1, m)
             T   == S \cup {e}
  <2>2. m \in Nat /\ \A k \in 1 .. m : k \in 1 .. Len(stack)
    BY <2>1
  <2>3. sub \in Seq(S) /\ Len(sub) = m /\ \A k \in 1 .. m : sub[k] = stack[k]
    BY <2>1, <2>2
  <2>4. sub \in Seq(T) /\ e \in T
    BY <2>3
  <2> HIDE DEF sub, T
  <2> DEFINE st == Append(sub, e)
  <2>5. Len(st) = m + 1 /\ st[m + 1] = e /\ \A k \in 1 .. m : st[k] = stack[k]
    BY <2>2, <2>3, <2>4
  <2>6. \A k \in 1 .. m + 1 : k \in 1 .. m \/ k = m + 1
    BY <2>2
  <2>7. st = Replaced(n, e)
    BY DEF sub, Replaced
  <2> HIDE DEF st, m
  <2>8. StackMeans(cfg', st)
    <3>1. \A k \in 1 .. m : Known(cfg', stack[k].var, stack[k].val)
      BY <1>3 DEF m
    <3> QED BY <1>1, <2>5, <2>6, <3>1 DEF StackMeans
  <2> QED BY <2>7, <2>8
<1> QED BY <1>1, <1>2, <1>4

LEMMA InitValueInv == LInit => ValueInv
<1> SUFFICES ASSUME LInit PROVE ValueInv
  OBVIOUS
<1>1. cfg = <<>> /\ tmp = 0 /\ stack = <<>> /\ meaning = TensorValues
  BY DEF LInit
<1>2. TensorValues \in [Tensor -> Values]
  BY KernelAssumption
<1> DEFINE none == <<>>
<1>3. none \in Seq(Actions) /\ Len(none) = 0 /\ \A k \in 1 .. Len(none) : FALSE
  OBVIOUS
<1> HIDE DEF none
<1>4. Unary(none)
  BY <1>3 DEF Unary
<1>5. PICK f : Executes(none, TensorValues, f)
  BY <1>2, <1>3, <1>4, ExecutionExists
<1>6. Clean(none, TensorValues, f)
  BY <1>3, <1>5 DEF Clean
<1>7. \A m \in Nat : m \notin InMemory(none)
  <2> TAKE m \in Nat
  <2>1. m \notin Tensor
    BY NamesAssumption
  <2> QED BY <1>3, <2>1, MemoryIs
<1>8. Sane(none, 0)
  BY <1>3, <1>4, <1>6, <1>7 DEF Sane
<1>9. Mem(none) = Loaded(none, TensorValues)
  BY <1>3, <1>5 DEF Executes, Mem
<1>10. \A n \in Tensor : Mem(none)[n] = TensorValues[n]
  <2>1. \A n \in Tensor : Loaded(none, TensorValues)[n] = TensorValues[n]
    BY <1>2, LoadedOk
  <2> QED BY <1>9, <2>1
<1>11. \A n \in Tensor : SuppOn(TensorValues[n], TensorCells[n])
  <2> TAKE n \in Tensor
  <2> DEFINE lay == [cells |-> TensorCells[n]]
  <2>1. Stored(lay, TensorValues[n]) = TensorValues[n] /\ TensorValues[n] \in Values
    BY <1>2, KernelAssumption
  <2>2. lay.cells = TensorCells[n]
    OBVIOUS
  <2> HIDE DEF lay
  <2> QED BY <2>1, <2>2, StoredOk DEF SuppOn
<1>12. TensorsMean(none, TensorValues)
  BY <1>2, <1>10, <1>11 DEF TensorsMean, Within
<1>13. StackMeans(none, none)
  BY <1>3 DEF StackMeans
<1> QED BY <1>1, <1>8, <1>12, <1>13 DEF ValueInv, none

LEMMA EnterAssignMeans ==
  ASSUME ValueInv, NEW n \in Tensor, EnterAssign(n)
  PROVE  ValueInv'
<1>1. UNCHANGED <<cfg, tmp, stack, meaning, misplaced, simpleMemoryLayout>>
  BY DEF EnterAssign
<1> QED BY <1>1 DEF ValueInv, TensorsMean, StackMeans, Known, Within

LEMMA VisitTensorMeans ==
  ASSUME LInv, ValueInv, NEW n \in Tensor, visit_IndexedTensor(n)
  PROVE  ValueInv'
<1> DEFINE v == TensorVariable(n)
           e == [var  |-> v, node |-> "IndexedTensor", val |-> meaning[n], spp |-> TensorCells[n]]
<1>1. /\ UNCHANGED <<cfg, tmp, meaning, misplaced, simpleMemoryLayout>>
      /\ stack' = Append(stack, e)
  BY DEF visit_IndexedTensor
<1>2. v \in Variables /\ v.name = n /\ v.spp = TensorCells[n]
  BY TensorVariableOk
<1> SUFFICES ASSUME ~ misplaced
             PROVE  /\ Sane(cfg, tmp) /\ TensorsMean(cfg, meaning)
                    /\ StackMeans(cfg, Append(stack, e))
  BY <1>1 DEF ValueInv, TensorsMean, StackMeans, Known, Within
<1>3. Sane(cfg, tmp) /\ TensorsMean(cfg, meaning) /\ StackMeans(cfg, stack)
  BY DEF ValueInv
<1>4. e.var = v /\ e.val = meaning[n]
  OBVIOUS
<1>5. Known(cfg, e.var, e.val)
  BY <1>2, <1>3, <1>4 DEF Known, TensorsMean, InMemory
<1>6. PICK S : stack \in Seq(S)
  BY DEF LInv, StackOk
<1> HIDE DEF e, v
<1> DEFINE m == Len(stack)
           T == S \cup {e}
<1>7. stack \in Seq(T) /\ e \in T
  BY <1>6
<1> HIDE DEF T
<1> DEFINE st == Append(stack, e)
<1>8. m \in Nat /\ Len(st) = m + 1 /\ st[m + 1] = e /\ \A k \in 1 .. m : st[k] = stack[k]
  BY <1>7
<1>9. \A k \in 1 .. m + 1 : k \in 1 .. m \/ k = m + 1
  BY <1>8
<1> HIDE DEF st
<1>10. StackMeans(cfg, st)
  BY <1>3, <1>5, <1>8, <1>9 DEF StackMeans
<1> QED BY <1>3, <1>10 DEF st

LEMMA VisitNodeMeans ==
  ASSUME LInv, ValueInv, NEW n \in Arities, NEW fuse \in BOOLEAN, generic_visit(n, fuse)
  PROVE  ValueInv'
<1> DEFINE args == Field(Top(n), "var")
           vals == Field(Top(n), "val")
           spps == Field(Top(n), "spp")
           spp  == OpSpp(spps)
           res  == Temporary(tmp, spp)
           a    == ProgramAction(res, [op |-> "Op", args |-> args, spp |-> spp, fuse |-> fuse],
                                 FALSE, NoScalar)
           e    == [var |-> res, node |-> "Op", val |-> OpValue(vals), spp |-> spp]
<1>1. /\ Len(stack) >= n
      /\ cfg' = Append(cfg, a) /\ stack' = Replaced(n, e) /\ tmp' = tmp + 1
      /\ UNCHANGED <<meaning, misplaced, simpleMemoryLayout>>
  BY DEF generic_visit
<1>2. n \in Nat /\ n <= Len(stack)
  <2>1. Len(stack) \in Nat
    BY DEF LInv, StackOk
  <2> QED BY <1>1, <2>1, KernelAssumption
<1>3. /\ args \in Seq(Variables) /\ Len(args) = n /\ DOMAIN args = 1 .. n
      /\ \A k \in 1 .. n : args[k] = Top(n)[k].var
  <2>1. args \in Seq(Variables) /\ Len(args) = n /\ \A k \in 1 .. n : args[k] = Top(n)[k].var
    BY <1>2, Operands
  <2> HIDE DEF args
  <2> QED BY <2>1
<1>4. /\ DOMAIN vals = 1 .. n /\ vals = [k \in 1 .. n |-> Top(n)[k].val]
      /\ DOMAIN spps = 1 .. n /\ \A k \in 1 .. n : spps[k] = Top(n)[k].spp
  <2>1. DOMAIN Top(n) = 1 .. n
    BY <1>2, StackTop DEF LInv
  <2> QED BY <2>1 DEF Field
<1>5. spp \in SUBSET Cells
  BY DEF OpSpp
<1>6. e.var = Temporary(tmp, spp) /\ e.val = OpValue(vals)
  OBVIOUS
<1>7. /\ a.result = Temporary(tmp, spp) /\ a.term.args = args /\ a.term.op = "Op"
      /\ a.add = FALSE /\ a.scalar = NoScalar /\ a.term.spp = spp /\ a.term.fuse = fuse
  BY DEF ProgramAction
<1>8. a.result = res /\ a.term = [op |-> "Op", args |-> args, spp |-> spp, fuse |-> fuse]
      /\ a = [result |-> a.result, term |-> a.term, add |-> FALSE, scalar |-> NoScalar]
  BY DEF ProgramAction
<1> HIDE DEF args, vals, spps, e, res, a
<1>9. ASSUME ~ misplaced
      PROVE  /\ Sane(Append(cfg, a), tmp + 1)
             /\ Known(Append(cfg, a), Temporary(tmp, spp), OpValue(vals))
             /\ Keep(cfg, Append(cfg, a), {})
  <2>1. Sane(cfg, tmp) /\ StackMeans(cfg, stack)
    BY <1>9 DEF ValueInv
  <2>2. /\ \A k \in 1 .. n : Known(cfg, Top(n)[k].var, Top(n)[k].val)
        /\ \A k \in 1 .. n : Top(n)[k].spp = Top(n)[k].var.spp
    BY <1>2, <2>1, OperandsMean
  <2>3. \A k \in 1 .. n : /\ args[k].name \in InMemory(cfg)
                          /\ Mem(cfg)[args[k].name] = vals[k]
                          /\ vals[k] \in Values
                          /\ Within(vals[k], spps[k])
    BY <1>3, <1>4, <2>2 DEF Known
  <2>4. vals \in [1 .. n -> Values]
    BY <1>4, <2>3
  <2>5. OpValue(vals) \in Values
        /\ \A c \in Cells : (\E k \in 1 .. n : vals[k][c] = 0) => OpValue(vals)[c] = 0
    BY <1>2, <2>4, OpValueOk
  <2>6. Within(OpValue(vals), spp)
    <3> SUFFICES ASSUME ~ simpleMemoryLayout, NEW c \in Cells, c \notin spp
                 PROVE  OpValue(vals)[c] = 0
      BY DEF Within, SuppOn
    <3>1. PICK k \in 1 .. n : c \notin spps[k]
      BY <1>4 DEF OpSpp
    <3>2. vals[k][c] = 0
      BY <2>3, <3>1 DEF Within, SuppOn
    <3> QED BY <2>5, <3>2
  <2>7. TermNames(a.term) \subseteq InMemory(cfg)
    BY <1>3, <1>7, <2>3 DEF TermNames
  <2>8. Computed(a, Mem(cfg)) = OpValue(vals)
    <3> DEFINE read == [k \in DOMAIN a.term.args |-> Mem(cfg)[a.term.args[k].name]]
    <3>1. read = vals
      BY <1>3, <1>4, <1>7, <2>3
    <3>2. TermValue(a.term, Mem(cfg)) =
            CASE a.term.op = "Variable"  -> read[1]
              [] a.term.op = "Op"        -> OpValue(read)
              [] a.term.op = "Permute"   -> PermuteValue(read[1])
              [] a.term.op = "Broadcast" -> BroadcastValue(read[1])
      BY DEF TermValue
    <3> HIDE DEF read
    <3>3. TermValue(a.term, Mem(cfg)) = OpValue(vals)
      BY <1>7, <3>1, <3>2
    <3>4. ScaleValue(1, OpValue(vals)) = OpValue(vals)
      BY <2>5, ScaleOk
    <3> QED BY <1>7, <3>3, <3>4 DEF Computed
  <2>9. a \in Actions
    <3>1. tmp \in Nat /\ Temporary(tmp, spp) \in Variables
      BY <1>5, TemporaryOk DEF LInv, Below
    <3>2. a.result \in Variables /\ a.term \in Terms
      BY <1>3, <1>5, <1>7, <1>8, <3>1 DEF Terms, NodeOps
    <3> DEFINE r == a.result
               u == a.term
    <3>3. a = [result |-> r, term |-> u, add |-> FALSE, scalar |-> 0]
      BY <1>8 DEF NoScalar
    <3>4. r \in Variables /\ u \in Terms
      BY <3>2
    <3> HIDE DEF r, u
    <3> QED BY <3>3, <3>4 DEF Actions, Scalars
  <2> HIDE DEF spp
  <2>10. a.term.op # "Op" => Len(a.term.args) = 1
    BY <1>7
  <2>11. a.result = Temporary(tmp, spp) /\ ~ a.add
    BY <1>7
  <2> QED BY <1>5, <2>1, <2>6, <2>7, <2>8, <2>9, <2>10, <2>11, EmitFresh
<1>10. ~ misplaced' => /\ ~ misplaced
                       /\ Sane(cfg', tmp')
                       /\ Keep(cfg, cfg', {})
                       /\ Known(cfg', e.var, e.val)
  BY <1>1, <1>6, <1>9
<1> QED BY <1>1, <1>2, <1>10, VisitMeans

LEMMA VisitScalarMeans ==
  ASSUME LInv, ValueInv, NEW s \in ScalarValues, visit_ScalarMultiplication(s)
  PROVE  ValueInv'
<1> DEFINE child == Last(stack)
           v     == child.var
           x     == child.val
           spp   == child.spp
           res   == Temporary(tmp, spp)
           a     == ProgramAction(res, VariableTerm(v), FALSE, s)
           e     == [var |-> res, node |-> "ScalarMultiplication",
                     val |-> ScaleValue(s, x), spp |-> spp]
<1>1. /\ Len(stack) >= 1
      /\ cfg' = Append(cfg, a) /\ stack' = Replaced(1, e) /\ tmp' = tmp + 1
      /\ UNCHANGED <<meaning, misplaced, simpleMemoryLayout>>
  BY DEF visit_ScalarMultiplication
<1>2. StackOk(stack) /\ tmp \in Nat
  BY DEF LInv, Below
<1>3. Len(stack) \in Nat /\ 1 <= Len(stack) /\ 1 \in Nat
  BY <1>1, <1>2 DEF StackOk
<1>4. Top(1)[1] = child
  BY <1>2, <1>3, StackTop DEF Last
<1>5. s \in Nat /\ s # NoScalar
  BY KernelAssumption
<1>6. e.var = Temporary(tmp, spp) /\ e.val = ScaleValue(s, x)
  OBVIOUS
<1>7. a.result = Temporary(tmp, spp) /\ a.add = FALSE /\ a.term.args = <<v>>
  BY DEF ProgramAction, VariableTerm
<1> HIDE DEF child, e, a
<1>8. ASSUME ~ misplaced
      PROVE  /\ Sane(Append(cfg, a), tmp + 1)
             /\ Known(Append(cfg, a), Temporary(tmp, spp), ScaleValue(s, x))
             /\ Keep(cfg, Append(cfg, a), {})
  <2>1. Sane(cfg, tmp) /\ StackMeans(cfg, stack)
    BY <1>8 DEF ValueInv
  <2>2. Known(cfg, v, x) /\ spp = v.spp
    BY <1>3, <1>4, <2>1, OperandsMean
  <2>3. v \in Variables /\ spp \in SUBSET Cells /\ x \in Values /\ Within(x, spp)
        /\ Mem(cfg)[v.name] = x /\ v.name \in InMemory(cfg)
    BY <2>2 DEF Known, Variables
  <2>4. ScaleValue(s, x) \in Values /\ Within(ScaleValue(s, x), spp)
    BY <1>5, <2>3, ScaleOk DEF Within, SuppOn
  <2>5. Temporary(tmp, spp) \in Variables
    BY <1>2, <2>3, TemporaryOk
  <2> HIDE DEF v, x, spp
  <2>6. a \in Actions
    BY <1>5, <2>3, <2>5, VariableTermOk DEF a
  <2>7. TermNames(a.term) \subseteq InMemory(cfg) /\ Len(a.term.args) = 1
    <3>1. DOMAIN <<v>> = {1} /\ <<v>>[1] = v /\ Len(<<v>>) = 1
      OBVIOUS
    <3> QED BY <1>7, <2>3, <3>1 DEF TermNames
  <2>8. Computed(a, Mem(cfg)) = ScaleValue(s, x)
    <3> DEFINE add == FALSE
    <3>1. a = ProgramAction(res, VariableTerm(v), add, s)
      BY DEF a
    <3>2. ~ add
      OBVIOUS
    <3> HIDE DEF add, res
    <3>3. Computed(ProgramAction(res, VariableTerm(v), add, s), Mem(cfg)) =
            LET value == ScaleValue(IF s = NoScalar THEN 1 ELSE s, Mem(cfg)[v.name])
            IN  IF add THEN AddValue(Mem(cfg)[res.name], value) ELSE value
      BY CopyComputed
    <3> QED BY <1>5, <2>3, <3>1, <3>2, <3>3
  <2> QED BY <1>7, <2>1, <2>3, <2>4, <2>6, <2>7, <2>8, EmitFresh
<1>9. ~ misplaced' => /\ ~ misplaced
                      /\ Sane(cfg', tmp')
                      /\ Keep(cfg, cfg', {})
                      /\ Known(cfg', e.var, e.val)
  BY <1>1, <1>6, <1>8
<1> QED BY <1>1, <1>3, <1>9, VisitMeans

LEMMA LeaveAssignMeans ==
  ASSUME LInv, ValueInv, NEW conv \in TargetOrders, LeaveAssign(conv)
  PROVE  ValueInv'
<1> DEFINE child == stack[1]
           v     == child.var
           x     == child.val
           own   == child.spp
           spp   == ConvertedSpp(conv, own)
           y     == ConvertedValue(conv, x)
           left  == TensorVariable(target)
           r     == AddPermuteIfRequired(conv, own, v, tmp)
           mid   == cfg \o r.code
           w     == r.var
           l     == r.next
           a     == ProgramAction(left, VariableTerm(w), FALSE, NoScalar)
           new   == Append(mid, a)
<1>1. /\ target # NoTarget /\ Len(stack) = 1 /\ isCompatible(left.lay, spp)
      /\ cfg' = cfg \o r.code \o <<a>> /\ tmp' = l /\ stack' = <<>>
      /\ meaning' = [meaning EXCEPT ![target] = y]
      /\ UNCHANGED <<misplaced, simpleMemoryLayout>>
  BY DEF LeaveAssign
<1> SUFFICES ASSUME ~ misplaced PROVE Sane(cfg', tmp') /\ TensorsMean(cfg', meaning')
  <2>1. StackMeans(cfg', <<>>)
    BY DEF StackMeans
  <2> HIDE DEF a, r, y
  <2> QED BY <1>1, <2>1 DEF ValueInv, TensorsMean, StackMeans, Known, Within
<1>2. Sane(cfg, tmp) /\ TensorsMean(cfg, meaning) /\ StackMeans(cfg, stack)
  BY DEF ValueInv
<1>3. target \in Tensor
  BY <1>1 DEF LInv
<1>4. Known(cfg, v, x) /\ own = v.spp
  BY <1>1, <1>2 DEF StackMeans, LInv, StackOk
<1>5. v \in Variables /\ x \in Values /\ Within(x, own) /\ own \in SUBSET Cells
  BY <1>4 DEF Known, Variables
<1>6. conv \in Conversions
  BY KernelAssumption
<1>7. /\ left \in Variables /\ left.name = target /\ left.spp = TensorCells[target]
      /\ isCompatible(left.lay, left.spp)
      /\ left.lay = IF simpleMemoryLayout THEN [cells |-> Cells, fuse |-> TRUE]
                    ELSE [cells |-> TensorCells[target], fuse |-> target \in Fusable]
  BY <1>3, TensorVariableOk DEF TensorVariable, Layout
<1> HIDE DEF left, child, v, x, own
<1>8. y \in Values /\ Within(y, spp)
  BY <1>5, ConvertedOk DEF Within
<1>9. Within(y, left.spp)
  BY <1>1, <1>7, <1>8 DEF Within, SuppOn, isCompatible
<1>10. simpleMemoryLayout => left.lay.cells = Cells
  BY <1>7
<1>11. /\ r.code \in Seq(Actions)
       /\ Sane(mid, l)
       /\ Known(mid, w, y)
       /\ Keep(cfg, mid, {})
  BY <1>2, <1>4, <1>5, <1>6, AddPermuteValue
<1> HIDE DEF r, y, spp
<1>12. mid \in Seq(Actions)
  BY <1>11 DEF Sane
<1>13. left.name \in InMemory(mid)
  BY <1>3, <1>7 DEF InMemory
<1>14. /\ a \in Actions /\ Sane(new, l)
       /\ Known(new, left, y)
       /\ Keep(mid, new, {target})
  <2> DEFINE add == FALSE
  <2>1. add \in BOOLEAN /\ ~ add
    OBVIOUS
  <2> HIDE DEF add, mid, w, l
  <2>2. /\ ProgramAction(left, VariableTerm(w), add, NoScalar) \in Actions
        /\ Sane(Append(mid, ProgramAction(left, VariableTerm(w), add, NoScalar)), l)
        /\ Known(Append(mid, ProgramAction(left, VariableTerm(w), add, NoScalar)), left,
                 IF add THEN AddValue(y, y) ELSE y)
        /\ Keep(mid, Append(mid, ProgramAction(left, VariableTerm(w), add, NoScalar)), {left.name})
    BY <1>7, <1>9, <1>10, <1>11, <1>13, <2>1, EmitCopy
  <2>3. a = ProgramAction(left, VariableTerm(w), add, NoScalar)
    BY DEF add
  <2> HIDE DEF a
  <2> QED BY <1>7, <2>1, <2>2, <2>3
<1> HIDE DEF a
<1>15. cfg' = new
  <2>1. cfg' = mid \o <<a>>
    BY <1>1
  <2> HIDE DEF mid
  <2>2. mid \o <<a>> = Append(mid, a)
    BY <1>12, <1>14
  <2> QED BY <2>1, <2>2
<1> HIDE DEF mid, new
<1>16. TensorsMean(new, [meaning EXCEPT ![target] = y])
  <2> DEFINE m == [meaning EXCEPT ![target] = y]
  <2>1. TensorsMean(mid, meaning)
    BY <1>2, <1>11, TensorsKept
  <2>2. m \in [Tensor -> Values] /\ m[target] = y /\ \A n \in Tensor : n # target => m[n] = meaning[n]
    BY <1>3, <1>8, <2>1 DEF TensorsMean
  <2> HIDE DEF m
  <2>3. Mem(new)[target] = y
    BY <1>7, <1>14 DEF Known
  <2>4. \A n \in Tensor : n # target => Mem(new)[n] = meaning[n]
    BY <1>14, <2>1 DEF Keep, TensorsMean, InMemory
  <2>5. \A n \in Tensor : Within(m[n], TensorCells[n])
    BY <1>7, <1>9, <2>1, <2>2 DEF TensorsMean
  <2> QED BY <2>2, <2>3, <2>4, <2>5 DEF TensorsMean, m
<1> QED BY <1>1, <1>14, <1>15, <1>16

LEMMA ConvertedWithin ==
  ASSUME NEW conv, NEW val \in Values, NEW own \in SUBSET Cells, Within(val, own)
  PROVE  ConvertedValue(conv, val) \in Values
         /\ Within(ConvertedValue(conv, val), ConvertedSpp(conv, own))
BY ConvertedOk DEF Within

EmitsAs(h, us, convs, m) ==
  /\ Bijective(h, m)
  /\ \A p \in 1 .. m : SortedVariables(us)[p] = us[h[p]]
  /\ \A p \in 1 .. m : convs[h[p]] = convs[p] /\ (convs[p] # {} => h[p] = p)

\* The order in which the addends of a sum are emitted, where an addend that
\* needs a conversion stays in its place.
LEMMA EmittedOrder ==
  ASSUME NEW m \in Nat, NEW us \in Seq(Variables), Len(us) = m, NEW convs,
         SortedVariables(us) # us => \A k \in 1 .. m : convs[k] = {}
  PROVE  \E h : EmitsAs(h, us, convs, m)
<1>1. CASE SortedVariables(us) = us
  <2> DEFINE id == [l \in 1 .. m |-> l]
  <2>1. Bijective(id, m)
    BY DEF Bijective
  <2>2. \A p \in 1 .. m : id[p] = p
    OBVIOUS
  <2> HIDE DEF id
  <2> QED BY <1>1, <2>1, <2>2 DEF EmitsAs
<1>2. CASE SortedVariables(us) # us
  <2> DEFINE vs == SortedVariables(us)
  <2>1. \E from \in [1 .. Len(us) -> 1 .. Len(us)] :
          /\ \A p, q \in 1 .. Len(us) : from[p] = from[q] => p = q
          /\ \A p \in 1 .. Len(us) : vs[p] = us[from[p]]
    BY ZenonT(30), SortedVariablesOk
  <2> HIDE DEF vs
  <2>2. PICK from \in [1 .. m -> 1 .. m] :
          /\ \A p, q \in 1 .. m : from[p] = from[q] => p = q
          /\ \A p \in 1 .. m : vs[p] = us[from[p]]
    BY <2>1
  <2>3. Bijective(from, m)
    BY <2>2 DEF Bijective
  <2>4. \A p \in 1 .. m : convs[from[p]] = convs[p] /\ convs[p] = {}
    BY <1>2, <2>2
  <2> QED BY <2>2, <2>3, <2>4 DEF vs, EmitsAs
<1> QED BY <1>1, <1>2

LEMMA VisitAddMeans ==
  ASSUME LInv, ValueInv, NEW m \in AddendCounts, NEW convs \in [1 .. m -> AddendOrders],
         visit_Add(convs)
  PROVE  ValueInv'
<1> DEFINE us  == Field(Top(m), "var")
           vs  == SortedVariables(us)
           own == OwnSpps(m)
           spp == AddSpp(convs)
           zs  == ConvertedValues(convs)
<1>1. /\ m \in Nat /\ m # 0 /\ Len(convs) = m /\ m <= Len(stack)
      /\ convs[1] = {} /\ \A k \in 1 .. m : convs[k] \in Conversions
      /\ \A k \in 1 .. m : own[k] = Top(m)[k].spp /\ own[k] \in SUBSET Cells
      /\ spp \in SUBSET Cells
      /\ \A k \in 1 .. m : ConvertedSpp(convs[k], own[k]) \subseteq spp
      /\ misplaced' = (misplaced \/ Swapped(convs))
      /\ meaning' = meaning /\ simpleMemoryLayout' = simpleMemoryLayout
  BY VisitAddEmits
<1>2. PICK emitted, sum :
        /\ SumEmitted(emitted, convs, own, vs, tmp, spp)
        /\ (\A k \in 1 .. m : zs[k] \in Values) => SumsUp(sum, zs, m)
        /\ cfg' = cfg \o emitted[m].code
        /\ tmp' = emitted[m].next
        /\ stack' = Replaced(m, [var |-> Temporary(tmp, spp), node |-> "Add",
                                 val |-> sum[m], spp |-> spp])
  BY VisitAddEmits
<1>3. us \in Seq(Variables) /\ Len(us) = m /\ \A k \in 1 .. m : us[k] = Top(m)[k].var
  BY <1>1, Operands
<1>4. vs \in Seq(Variables) /\ Len(vs) = m
  BY <1>1, SortedOperands
<1>5. \A k \in 1 .. m : zs[k] = ConvertedValue(convs[k], Top(m)[k].val)
  BY <1>1 DEF ConvertedValues
<1>6. Swapped(convs) <=> (vs # us /\ \E k \in 1 .. m : convs[k] # {})
  BY <1>1 DEF Swapped
<1> HIDE DEF us, own, spp, zs
<1>7. ASSUME ~ misplaced'
      PROVE  /\ ~ misplaced
             /\ Sane(cfg', tmp')
             /\ Keep(cfg, cfg', {})
             /\ Known(cfg', Temporary(tmp, spp), sum[m])
  <2>1. ~ misplaced /\ (vs # us => \A k \in 1 .. m : convs[k] = {})
    BY <1>1, <1>6, <1>7
  <2>2. Sane(cfg, tmp) /\ StackMeans(cfg, stack)
    BY <2>1 DEF ValueInv
  <2>3. \A k \in 1 .. m : /\ Known(cfg, us[k], Top(m)[k].val)
                          /\ Top(m)[k].spp = us[k].spp
    BY <1>1, <1>3, <2>2, OperandsMean
  <2>4. \A k \in 1 .. m : Top(m)[k].val \in Values /\ Within(Top(m)[k].val, own[k])
    BY <1>1, <2>3 DEF Known
  <2>5. \A k \in 1 .. m : zs[k] \in Values /\ Within(zs[k], spp)
    <3> TAKE k \in 1 .. m
    <3> DEFINE x == Top(m)[k].val
               o == own[k]
               c == convs[k]
    <3>1. x \in Values /\ Within(x, o) /\ o \in SUBSET Cells /\ ConvertedSpp(c, o) \subseteq spp
          /\ zs[k] = ConvertedValue(c, x)
      BY <1>1, <1>5, <2>4
    <3> HIDE DEF x, o, c
    <3>2. ConvertedValue(c, x) \in Values /\ Within(ConvertedValue(c, x), ConvertedSpp(c, o))
      BY <3>1, ConvertedWithin
    <3> QED BY <3>1, <3>2 DEF Within, SuppOn
  <2>6. zs \in [1 .. m -> Values] /\ SumsUp(sum, zs, m)
    BY <1>1, <1>2, <2>5 DEF zs, ConvertedValues
  <2>7. PICK h : /\ Bijective(h, m)
                 /\ \A p \in 1 .. m : vs[p] = us[h[p]]
                 /\ \A p \in 1 .. m : convs[h[p]] = convs[p] /\ (convs[p] # {} => h[p] = p)
    <3>1. PICK h : EmitsAs(h, us, convs, m)
      <4>1. SortedVariables(us) # us => \A k \in 1 .. m : convs[k] = {}
        BY <2>1
      <4> HIDE DEF vs
      <4> QED BY <1>1, <1>3, <4>1, EmittedOrder
    <3> QED BY <3>1 DEF EmitsAs
  <2>8. \A p \in 1 .. m : h[p] \in 1 .. m
    BY <2>7 DEF Bijective
  <2> HIDE DEF vs
  <2> DEFINE xs == [l \in 1 .. m |-> Top(m)[h[l]].val]
             ys == [l \in 1 .. m |-> zs[h[l]]]
  <2>9. AddendsKnown(cfg, convs, own, vs, xs, spp)
        /\ \A l \in 1 .. m : ys[l] = ConvertedValue(convs[l], xs[l])
    <3>1. \A l \in 1 .. m : xs[l] = Top(m)[h[l]].val /\ ys[l] = zs[h[l]]
      OBVIOUS
    <3> HIDE DEF xs, ys
    <3>2. \A l \in 1 .. m : ys[l] = ConvertedValue(convs[l], xs[l])
      BY <1>5, <2>7, <2>8, <3>1
    <3>3. \A l \in 1 .. m : Known(cfg, vs[l], xs[l])
      BY <2>3, <2>7, <2>8, <3>1
    <3>4. \A l \in 1 .. m : convs[l] # {} => Within(xs[l], own[l])
      BY <2>4, <2>7, <3>1
    <3>5. \A l \in 1 .. m : Within(ConvertedValue(convs[l], xs[l]), spp)
      BY <2>5, <2>8, <3>1, <3>2
    <3> QED BY <1>1, <1>4, <3>2, <3>3, <3>4, <3>5 DEF AddendsKnown
  <2>10. Rearranged(ys, zs, h, m) /\ \A l \in 1 .. m : ys[l] \in Values
    BY <2>5, <2>7, <2>8 DEF Rearranged
  <2> HIDE DEF xs, ys
  <2>11. PICK partial \in [0 .. m -> Values] : SumsUp(partial, ys, m)
    BY <1>1, <2>10, SumsExist
  <2>12. SumKnown(cfg, tmp, spp, m, emitted[m], partial[m])
    <3>1. m > 0
      BY <1>1
    <3>2. SumEmitted(emitted, convs, own, vs, tmp, spp)
      BY <1>2
    <3>3. spp \in SUBSET Cells /\ m \in Nat /\ convs[1] = {} /\ Len(vs) = m
      BY <1>1, <1>4
    <3> QED BY <2>2, <2>9, <2>11, <3>1, <3>2, <3>3, SumValue
  <2>13. partial[m] = sum[m]
    BY <1>1, <2>6, <2>10, <2>11, SumPermuted
  <2>14. m > 0
    BY <1>1
  <2> QED BY <1>2, <2>1, <2>12, <2>13, <2>14 DEF SumKnown
<1> DEFINE e == [var |-> Temporary(tmp, spp), node |-> "Add", val |-> sum[m], spp |-> spp]
<1>8. e.var = Temporary(tmp, spp) /\ e.val = sum[m] /\ stack' = Replaced(m, e)
  BY <1>2
<1> HIDE DEF e
<1>9. ~ misplaced' => /\ ~ misplaced
                      /\ Sane(cfg', tmp')
                      /\ Keep(cfg, cfg', {})
                      /\ Known(cfg', e.var, e.val)
  BY <1>7, <1>8
<1> QED BY <1>1, <1>8, <1>9, VisitMeans

LEMMA StepValueInv == LInv /\ ValueInv /\ [LNext]_lvars => ValueInv'
<1> SUFFICES ASSUME LInv, ValueInv, [LNext]_lvars PROVE ValueInv'
  OBVIOUS
<1>1. CASE \E n \in Tensor : EnterAssign(n)
  BY <1>1, EnterAssignMeans
<1>2. CASE \E n \in Tensor : visit_IndexedTensor(n)
  BY <1>2, VisitTensorMeans
<1>3. CASE \E n \in Arities, fuse \in BOOLEAN : generic_visit(n, fuse)
  BY <1>3, VisitNodeMeans
<1>4. CASE \E n \in AddendCounts : \E convs \in [1 .. n -> AddendOrders] : visit_Add(convs)
  BY <1>4, VisitAddMeans
<1>5. CASE \E s \in ScalarValues : visit_ScalarMultiplication(s)
  BY <1>5, VisitScalarMeans
<1>6. CASE \E conv \in TargetOrders : LeaveAssign(conv)
  BY <1>6, LeaveAssignMeans
<1>7. CASE UNCHANGED lvars
  BY <1>7 DEF lvars, ValueInv, TensorsMean, StackMeans, Known, Within
<1> QED BY <1>1, <1>2, <1>3, <1>4, <1>5, <1>6, <1>7 DEF LNext

LEMMA ValueInvFaithful == LInv /\ ValueInv => LoweringFaithful
<1> SUFFICES ASSUME LInv, ValueInv, ~ misplaced
             PROVE  LET mem == Run(cfg, TensorValues)
                    IN  /\ \A n \in Tensor : mem[n] = meaning[n]
                        /\ \A k \in DOMAIN stack : stack[k].var.name \in DOMAIN mem
                                                   /\ mem[stack[k].var.name] = stack[k].val
  BY DEF LoweringFaithful
<1>1. Sane(cfg, tmp) /\ TensorsMean(cfg, meaning) /\ StackMeans(cfg, stack)
  BY DEF ValueInv
<1>2. Mem(cfg) \in [InMemory(cfg) -> Values]
  BY <1>1, MemOk
<1>3. \A k \in DOMAIN stack : k \in 1 .. Len(stack)
  BY DEF LInv, StackOk
<1>4. \A k \in DOMAIN stack : /\ stack[k].var.name \in DOMAIN Mem(cfg)
                              /\ Mem(cfg)[stack[k].var.name] = stack[k].val
  BY <1>1, <1>2, <1>3 DEF StackMeans, Known
<1> QED BY <1>1, <1>4 DEF TensorsMean, Mem

\* Whatever kernel is lowered, with whatever layouts and values: executing what
\* has been emitted leaves every tensor with the value that the assignments
\* give it, and every variable returned by a pending visit with the value of its
\* expression, unless visit_Add has converted an addend in the place of another
\* (controlflow/visitor.py: all visit_ methods, _addPermuteIfRequired).
THEOREM LoweringComputesKernel == LSpec => []LoweringFaithful
<1>1. LInit => LInv /\ ValueInv
  BY InitLInv, InitValueInv
<1>2. LInv /\ ValueInv /\ [LNext]_lvars => (LInv /\ ValueInv)'
  BY StepLInv, StepValueInv
<1>3. LInv /\ ValueInv => LoweringFaithful
  BY ValueInvFaithful
<1> QED BY <1>1, <1>2, <1>3, PTL DEF LSpec

-----------------------------------------------------------------------------
(* What else the lowering makes of a kernel: its assignments share no       *)
(* temporaries.                                                             *)

\* Only temporaries are accumulated into.
LocalSums(prog) == \A k \in 1 .. Len(prog) : isCompound(prog[k]) => isLocal(Def(prog[k]))

\* No name of N, and no temporary that occurs up to an assignment of a tensor, is used
\* after that.
Settled(prog, N) ==
  \A d \in 1 .. Len(prog) : Def(prog[d]) \in Tensor =>
    /\ Barrier(prog, d)
    /\ \A j \in 1 .. d : \A n \in occurring(prog[j]) : isLocal(n) => n \notin N

NotScaled(prog, n) ==
  isLocal(n) => \A j \in 1 .. Len(prog) : Def(prog[j]) = n => prog[j].scalar = NoScalar

\* An occurrence needs what its layout stores, but for the reference code.
Full(v) == ~ simpleMemoryLayout => v.spp = v.lay.cells

\* N are the names that the visitor holds, U those that it may scale.
Neat(prog, N, U) ==
  /\ LocalSums(prog) /\ Settled(prog, N) /\ Unscaled(prog)
  /\ \A k \in 1 .. Len(prog) : \A v \in occurrences(prog[k]) : Full(v)
  /\ \A n \in U : NotScaled(prog, n)

PendingNames(st)  == {v.name : v \in Pending(st)}
UnscaledNames(st) == {n \in PendingNames(st) : \E k \in 1 .. Len(st) :
                        st[k].node # "ScalarMultiplication" /\ st[k].var.name = n}

\* The temporary tensors that are read, and those of N, have been assigned.
Visible(prog, N) ==
  /\ TempsFlow(prog)
  /\ \A n \in N : n \in TempTensor => \E k \in 1 .. Len(prog) : Def(prog[k]) = n

NInv ==
  /\ Neat(cfg, PendingNames(stack), UnscaledNames(stack))
  /\ Visible(cfg, PendingNames(stack))
  /\ \A v \in Pending(stack) : Full(v)
  /\ \A n \in writable : n \in Tensor /\ (n \in Written(cfg) \/ n = target)

-----------------------------------------------------------------------------
(* What the visitor emits *)

\* v is a global tensor, one of N or a temporary numbered from k.
FreshFrom(v, N, k) ==
  /\ v \in Variables /\ Full(v)
  /\ v.name \notin Global => v.name \in N \/ (v.name \in Nat /\ v.name >= k)

Computing(N, k) ==
  {a \in Actions : /\ isLocal(Def(a)) /\ a.scalar = NoScalar
                   /\ \A v \in occurrences(a) : FreshFrom(v, N, k)}

LEMMA FullVariables ==
  /\ \A k, spp : Full(Temporary(k, spp))
  /\ \A n : Full(TensorVariable(n))
BY DEF Full, Temporary, TensorVariable, Layout

LEMMA TransformFresh ==
  ASSUME NEW N, NEW k \in Nat, NEW m \in Nat, m >= k, NEW op \in NodeOps, NEW spp \in SUBSET Cells,
         NEW v, FreshFrom(v, N, k)
  PROVE  LET a == TransformOp(op, spp, m, v)
         IN  a \in Computing(N, k) /\ FreshFrom(a.result, N, k)
<1> DEFINE a == TransformOp(op, spp, m, v)
           t == Temporary(m, spp)
<1>1. t \in Variables /\ t.name = m /\ isLocal(t.name)
  BY TemporaryOk
<1>2. FreshFrom(t, N, k)
  BY <1>1, FullVariables DEF FreshFrom
<1>3. /\ a.result = t /\ a.term = [op |-> op, args |-> <<v>>, spp |-> spp, fuse |-> FALSE]
      /\ a.scalar = NoScalar /\ a = [result |-> t, term |-> a.term, add |-> FALSE, scalar |-> NoScalar]
  BY DEF TransformOp, ProgramAction
<1> HIDE DEF a, t
<1>4. v \in Variables
  BY DEF FreshFrom
<1>5. a \in Actions
  <2>1. a.term \in Terms
    BY <1>3, <1>4 DEF Terms
  <2> DEFINE u == a.term
  <2>2. a = [result |-> t, term |-> u, add |-> FALSE, scalar |-> NoScalar] /\ u \in Terms
    BY <1>3, <2>1
  <2>3. FALSE \in BOOLEAN /\ NoScalar \in Nat
    BY DEF NoScalar
  <2> HIDE DEF u
  <2> QED BY <1>1, <2>2, <2>3 DEF Actions, Scalars
<1>6. \A w \in occurrences(a) : w = v \/ w = t
  <2>1. a.term.args = <<v>>
    BY <1>3
  <2>2. DOMAIN <<v>> = {1} /\ <<v>>[1] = v
    OBVIOUS
  <2> QED BY <1>3, <2>1, <2>2 DEF occurrences
<1> QED BY <1>1, <1>2, <1>3, <1>5, <1>6 DEF Computing, Def, a

LEMMA AddPermuteFresh ==
  ASSUME NEW N, NEW k \in Nat, NEW m \in Nat, m >= k, NEW conv, NEW own \in SUBSET Cells,
         NEW v, FreshFrom(v, N, k)
  PROVE  LET r == AddPermuteIfRequired(conv, own, v, m)
         IN  /\ r.code \in Seq(Computing(N, k)) /\ r.next \in Nat /\ r.next >= k
             /\ FreshFrom(r.var, N, k)
<1> DEFINE C     == Computing(N, k)
           r     == AddPermuteIfRequired(conv, own, v, m)
           pspp  == ConvertedSpp(conv \cap {"Permute"}, own)
           perm  == IF "Permute" \in conv
                    THEN <<TransformOp("Permute", pspp, m, v)>> ELSE <<>>
           inode == IF perm = <<>> THEN v ELSE perm[1].result
           kb    == m + Len(perm)
           bcast == IF "Broadcast" \in conv
                    THEN <<TransformOp("Broadcast", BroadcastSpp(pspp), kb, inode)>>
                    ELSE <<>>
<1>1. pspp \in SUBSET Cells /\ BroadcastSpp(pspp) \in SUBSET Cells
  BY SppType
<1> HIDE DEF pspp
<1>2. perm \in Seq(C) /\ Len(perm) \in Nat /\ FreshFrom(inode, N, k)
  <2> DEFINE a == TransformOp("Permute", pspp, m, v)
  <2>1. a \in C /\ FreshFrom(a.result, N, k)
    <3>1. "Permute" \in NodeOps
      BY DEF NodeOps
    <3> QED BY <1>1, <3>1, TransformFresh
  <2> HIDE DEF a, C
  <2>2. CASE "Permute" \in conv
    <3>1. perm = <<a>>
      BY <2>2 DEF a
    <3>2. perm # <<>> /\ perm[1] = a
      BY <3>1
    <3> HIDE DEF perm
    <3> QED BY <2>1, <3>1, <3>2 DEF inode
  <2>3. CASE "Permute" \notin conv
    BY <2>3
  <2> QED BY <2>2, <2>3
<1> HIDE DEF perm, inode
<1>3. kb \in Nat /\ kb >= k
  BY <1>2
<1> HIDE DEF kb
<1>4. /\ bcast \in Seq(C) /\ Len(bcast) \in Nat
      /\ FreshFrom(IF bcast = <<>> THEN inode ELSE bcast[1].result, N, k)
  <2> DEFINE a == TransformOp("Broadcast", BroadcastSpp(pspp), kb, inode)
  <2>1. a \in C /\ FreshFrom(a.result, N, k)
    <3>1. "Broadcast" \in NodeOps
      BY DEF NodeOps
    <3> QED BY <1>1, <1>2, <1>3, <3>1, TransformFresh
  <2> HIDE DEF a, C
  <2>2. CASE "Broadcast" \in conv
    <3>1. bcast = <<a>>
      BY <2>2 DEF a
    <3>2. bcast # <<>> /\ bcast[1] = a
      BY <3>1
    <3> HIDE DEF bcast
    <3> QED BY <2>1, <3>1, <3>2
  <2>3. CASE "Broadcast" \notin conv
    BY <1>2, <2>3
  <2> QED BY <2>2, <2>3
<1> HIDE DEF bcast
<1>5. r = [code |-> perm \o bcast,
           var  |-> IF bcast = <<>> THEN inode ELSE bcast[1].result,
           next |-> kb + Len(bcast)]
  BY DEF AddPermuteIfRequired, bcast, kb, inode, perm, pspp
<1> HIDE DEF r, C
<1>6. r.code \in Seq(C) /\ r.next \in Nat /\ r.next >= k
  BY <1>2, <1>3, <1>4, <1>5
<1>7. FreshFrom(r.var, N, k)
  BY <1>4, <1>5
<1> QED BY <1>6, <1>7 DEF r, C

\* The code of e only computes temporaries.
FreshCode(e, N, k) == e.code \in Seq(Computing(N, k)) /\ e.next \in Nat /\ e.next >= k

LEMMA CopyFresh ==
  ASSUME NEW N, NEW k \in Nat, NEW v, FreshFrom(v, N, k), NEW res, FreshFrom(res, N, k),
         NEW add \in BOOLEAN, NEW s \in Nat
  PROVE  LET a == ProgramAction(res, VariableTerm(v), add, s)
         IN  /\ a \in Actions /\ Def(a) = res.name /\ a.scalar = s
             /\ \A w \in occurrences(a) : FreshFrom(w, N, k)
             /\ isLocal(res.name) /\ s = NoScalar => a \in Computing(N, k)
<1> DEFINE a == ProgramAction(res, VariableTerm(v), add, s)
<1>1. /\ a \in Actions /\ a.result = res /\ Def(a) = res.name /\ a.scalar = s
      /\ \A l \in DOMAIN a.term.args : a.term.args[l] = v
  <2>1. v \in Variables /\ res \in Variables
    BY DEF FreshFrom
  <2> QED BY <2>1, VariableTermOk
<1> HIDE DEF a
<1>2. \A w \in occurrences(a) : FreshFrom(w, N, k)
  BY <1>1 DEF occurrences
<1>3. isLocal(res.name) /\ s = NoScalar => a \in Computing(N, k)
  BY <1>1, <1>2 DEF Computing
<1> QED BY <1>1, <1>2, <1>3 DEF a

LEMMA AddendFresh ==
  ASSUME NEW N, NEW k \in Nat, NEW spp \in SUBSET Cells, NEW conv, NEW own \in SUBSET Cells,
         NEW v, FreshFrom(v, N, k), NEW add \in BOOLEAN, NEW e, FreshCode(e, N, k)
  PROVE  FreshCode(EmitAddend(Temporary(k, spp), conv, own, v, add, e), N, k)
<1> DEFINE C   == Computing(N, k)
           res == Temporary(k, spp)
           r   == AddPermuteIfRequired(conv, own, v, e.next)
           a   == ProgramAction(res, VariableTerm(r.var), add, NoScalar)
<1>1. /\ r.code \in Seq(C) /\ r.next \in Nat /\ r.next >= k /\ FreshFrom(r.var, N, k)
  BY AddPermuteFresh DEF FreshCode
<1>2. isLocal(res.name) /\ FreshFrom(res, N, k)
  BY TemporaryOk, FullVariables DEF FreshFrom
<1>3. EmitAddend(res, conv, own, v, add, e) = [code |-> e.code \o r.code \o <<a>>, next |-> r.next]
  BY DEF EmitAddend
<1> HIDE DEF r, res
<1>4. a \in C
  BY <1>1, <1>2, CopyFresh DEF NoScalar
<1> HIDE DEF a, C
<1>5. e.code \o r.code \o <<a>> \in Seq(C)
  <2>1. e.code \in Seq(C)
    BY DEF FreshCode, C
  <2>2. e.code \o r.code \in Seq(C) /\ <<a>> \in Seq(C)
    BY <1>1, <1>4, <2>1
  <2> QED BY <2>2
<1>6. FreshCode(EmitAddend(res, conv, own, v, add, e), N, k)
  BY <1>1, <1>3, <1>5 DEF FreshCode, C
<1> QED BY <1>6 DEF res

LEMMA SumFresh ==
  ASSUME NEW N, NEW k \in Nat, NEW spp \in SUBSET Cells, NEW vs \in Seq(Variables),
         NEW convs, NEW own, NEW emitted, SumEmitted(emitted, convs, own, vs, k, spp),
         \A l \in 1 .. Len(vs) : FreshFrom(vs[l], N, k) /\ own[l] \in SUBSET Cells,
         NEW m \in 0 .. Len(vs)
  PROVE  FreshCode(emitted[m], N, k)
<1> DEFINE n == Len(vs)
           P == {j \in Nat : j <= n => FreshCode(emitted[j], N, k)}
<1>1. n \in Nat
  OBVIOUS
<1>2. FreshCode(emitted[0], N, k)
  <2> DEFINE e == emitted[0]
  <2>1. e.code = <<>> /\ e.next = k + 1
    BY DEF SumEmitted
  <2> HIDE DEF e
  <2>2. FreshCode(e, N, k)
    BY <2>1 DEF FreshCode
  <2> QED BY <2>2 DEF e
<1>3. ASSUME NEW j \in Nat, j + 1 <= n, FreshCode(emitted[j], N, k)
      PROVE  FreshCode(emitted[j + 1], N, k)
  <2> DEFINE b == j + 1 > 1
             c == convs[j + 1]
             o == own[j + 1]
             v == vs[j + 1]
             e == emitted[j]
  <2>1. j + 1 \in 1 .. n /\ (j + 1) - 1 = j
    BY <1>1, <1>3
  <2>2. emitted[j + 1] = EmitAddend(Temporary(k, spp), c, o, v, b, e)
    BY <2>1 DEF SumEmitted
  <2>3. FreshFrom(v, N, k) /\ o \in SUBSET Cells /\ b \in BOOLEAN /\ FreshCode(e, N, k)
    BY <1>3, <2>1
  <2> HIDE DEF b, c, o, v, e
  <2> QED BY <2>2, <2>3, AddendFresh
<1> HIDE DEF n
<1>4. 0 \in P /\ \A j \in Nat : j \in P => j + 1 \in P
  <2>1. 0 <= n /\ \A j \in Nat : j + 1 \in Nat /\ (j + 1 <= n => j <= n)
    BY <1>1
  <2> QED BY <1>2, <1>3, <2>1
<1> HIDE DEF P
<1>5. m \in P
  <2>1. Nat \subseteq P
    BY <1>4, NatSetInduction
  <2> QED BY <2>1 DEF n
<1> QED BY <1>5 DEF P, n

-----------------------------------------------------------------------------
(* The program grows *)

\* new goes on with actions of C.
Grown(prog, new, C) ==
  /\ prog \in Seq(Actions) /\ new \in Seq(Actions) /\ Len(prog) <= Len(new)
  /\ \A j \in 1 .. Len(prog) : new[j] = prog[j]
  /\ \A j \in Len(prog) + 1 .. Len(new) : new[j] \in C

LEMMA GrownBy ==
  ASSUME NEW prog \in Seq(Actions), NEW C, C \subseteq Actions, NEW code \in Seq(C)
  PROVE  Grown(prog, prog \o code, C)
<1>1. code \in Seq(Actions)
  OBVIOUS
<1>2. prog \o code \in Seq(Actions) /\ Len(prog) <= Len(prog \o code)
  BY <1>1
<1>3. \A j \in 1 .. Len(prog) : (prog \o code)[j] = prog[j]
  BY <1>1
<1>4. ASSUME NEW j \in Len(prog) + 1 .. Len(prog \o code)
      PROVE  (prog \o code)[j] \in C
  <2>1. j - Len(prog) \in 1 .. Len(code) /\ (prog \o code)[j] = code[j - Len(prog)]
    BY <1>1
  <2> QED BY <2>1
<1> QED BY <1>2, <1>3, <1>4 DEF Grown

LEMMA GrownOnce ==
  ASSUME NEW prog \in Seq(Actions), NEW a \in Actions
  PROVE  Grown(prog, Append(prog, a), {a})
BY DEF Grown

\* The temporaries that a uses are held, or numbered from k.
FreshNames(a, N, k) ==
  /\ \A n \in occurring(a) : isLocal(n) => n \in N \/ (n \in Nat /\ n >= k)
  /\ \A v \in occurrences(a) : Full(v)
  /\ isCompound(a) => isLocal(Def(a))

LEMMA FreshNamesIf ==
  ASSUME NEW N, NEW k, NEW a \in Actions, \A v \in occurrences(a) : FreshFrom(v, N, k),
         isCompound(a) => isLocal(Def(a))
  PROVE  FreshNames(a, N, k)
<1>1. occurring(a) = {v.name : v \in occurrences(a)}
  BY OccurringNames
<1>2. \A n : isLocal(n) => n \notin Global
  BY DEF isLocal, Tensor
<1> QED BY <1>1, <1>2 DEF FreshNames, FreshFrom

LEMMA GrownNeat ==
  ASSUME NEW prog, NEW k \in Nat, Below(prog, k), NEW N, NEW U, Neat(prog, N, U),
         NEW new, NEW C, Grown(prog, new, C), \A a \in C : FreshNames(a, N, k)
  PROVE  /\ LocalSums(new)
         /\ \A j \in 1 .. Len(new) : \A v \in occurrences(new[j]) : Full(v)
         /\ \A d \in 1 .. Len(prog) : Def(prog[d]) \in Tensor =>
              /\ Barrier(new, d)
              /\ \A j \in 1 .. d : \A n \in occurring(new[j]) :
                   isLocal(n) => n \notin N /\ ~ (n \in Nat /\ n >= k)
<1> DEFINE m == Len(prog)
<1>1. /\ m \in Nat /\ Len(new) \in Nat /\ m <= Len(new)
      /\ \A j \in 1 .. m : new[j] = prog[j]
      /\ \A j \in m + 1 .. Len(new) : new[j] \in C
      /\ prog \in Seq(Actions)
  BY DEF Grown
<1>2. \A j \in 1 .. Len(new) : j \in 1 .. m \/ j \in m + 1 .. Len(new)
  BY <1>1
<1>3. /\ \A j \in 1 .. m : isCompound(prog[j]) => isLocal(Def(prog[j]))
      /\ \A j \in 1 .. m : \A v \in occurrences(prog[j]) : Full(v)
      /\ \A d \in 1 .. m : Def(prog[d]) \in Tensor => Barrier(prog, d)
      /\ \A d \in 1 .. m : Def(prog[d]) \in Tensor =>
           \A j \in 1 .. d : \A n \in occurring(prog[j]) : isLocal(n) => n \notin N
  BY DEF Neat, LocalSums, Settled
<1>4. \A j \in 1 .. m : \A n \in occurring(prog[j]) : isLocal(n) => n < k
  BY DEF Below, Names
<1> HIDE DEF m
<1>5. LocalSums(new)
  BY <1>1, <1>2, <1>3 DEF LocalSums, FreshNames
<1>6. \A j \in 1 .. Len(new) : \A v \in occurrences(new[j]) : Full(v)
  BY <1>1, <1>2, <1>3 DEF FreshNames
<1>7. ASSUME NEW d \in 1 .. m, Def(prog[d]) \in Tensor,
             NEW j \in 1 .. d, NEW n \in occurring(new[j]), isLocal(n)
      PROVE  /\ n \notin N /\ ~ (n \in Nat /\ n >= k)
             /\ \A l \in d + 1 .. Len(new) : n \notin occurring(new[l])
  <2>1. j \in 1 .. m /\ j \in Nat /\ new[j] = prog[j]
    BY <1>1, <1>7
  <2>2. n \in occurring(prog[j]) /\ n \notin N
    BY <1>3, <1>7, <2>1
  <2>3. ~ (n \in Nat /\ n >= k)
    BY <1>4, <1>7, <2>1, <2>2
  <2>4. ASSUME NEW l \in d + 1 .. Len(new), n \in occurring(new[l])
        PROVE  FALSE
    <3>1. CASE l \in 1 .. m
      <4>1. Barrier(prog, d) /\ l \in d + 1 .. m
        BY <1>1, <1>3, <1>7, <2>4, <3>1
      <4> QED BY <1>1, <1>7, <2>2, <2>4, <3>1, <4>1 DEF Barrier, m
    <3>2. CASE l \in m + 1 .. Len(new)
      <4>1. new[l] \in C
        BY <1>1, <3>2
      <4> QED BY <1>7, <2>2, <2>3, <2>4, <4>1 DEF FreshNames
    <3>3. l \in 1 .. Len(new)
      BY <1>1, <2>4
    <3> QED BY <1>2, <3>1, <3>2, <3>3
  <2> QED BY <2>2, <2>3, <2>4
<1>8. \A d \in 1 .. m : Def(prog[d]) \in Tensor => Barrier(new, d)
  BY <1>7 DEF Barrier
<1>9. \A d \in 1 .. m : Def(prog[d]) \in Tensor =>
        \A j \in 1 .. d : \A n \in occurring(new[j]) :
          isLocal(n) => n \notin N /\ ~ (n \in Nat /\ n >= k)
  BY <1>7
<1> QED BY <1>5, <1>6, <1>8, <1>9 DEF m

\* What a program with statements that only compute temporaries is.
LEMMA NeatGrows ==
  ASSUME NEW prog \in Seq(Actions), NEW k \in Nat, Below(prog, k), NEW N, NEW U, Neat(prog, N, U),
         NEW code \in Seq(Computing(N, k)),
         NEW M, \A n \in M : isLocal(n) => n \in N \/ (n \in Nat /\ n >= k),
         NEW T, \A n \in T : isLocal(n) => n \in U \/ (n \in Nat /\ n >= k)
  PROVE  Neat(prog \o code, M, T)
<1> DEFINE C   == Computing(N, k)
           new == prog \o code
           m   == Len(prog)
<1>1. C \subseteq Actions
  BY DEF Computing
<1>2. \A a \in C : FreshNames(a, N, k) /\ isLocal(Def(a)) /\ a.scalar = NoScalar
  BY <1>1, FreshNamesIf DEF Computing
<1>3. Grown(prog, new, C)
  BY <1>1, GrownBy
<1> HIDE DEF C, new
<1>4. /\ LocalSums(new)
      /\ \A j \in 1 .. Len(new) : \A v \in occurrences(new[j]) : Full(v)
      /\ \A d \in 1 .. m : Def(prog[d]) \in Tensor =>
           /\ Barrier(new, d)
           /\ \A j \in 1 .. d : \A n \in occurring(new[j]) :
                isLocal(n) => n \notin N /\ ~ (n \in Nat /\ n >= k)
  BY <1>2, <1>3, GrownNeat
<1>5. /\ \A j \in 1 .. m : new[j] = prog[j]
      /\ \A j \in m + 1 .. Len(new) : new[j] \in C
      /\ m \in Nat /\ Len(new) \in Nat /\ m <= Len(new)
  BY <1>3 DEF Grown
<1>6. \A j \in 1 .. Len(new) : j \in 1 .. m \/ j \in m + 1 .. Len(new)
  BY <1>5
<1>7. \A j \in m + 1 .. Len(new) : isLocal(Def(new[j])) /\ new[j].scalar = NoScalar
  BY <1>2, <1>5
<1>8. Settled(new, M)
  <2> SUFFICES ASSUME NEW d \in 1 .. Len(new), Def(new[d]) \in Tensor
               PROVE  /\ Barrier(new, d)
                      /\ \A j \in 1 .. d : \A n \in occurring(new[j]) : isLocal(n) => n \notin M
    BY DEF Settled
  <2>1. d \in 1 .. m /\ Def(prog[d]) \in Tensor
    BY <1>5, <1>6, <1>7 DEF isLocal
  <2> QED BY <1>4, <2>1
<1>9. Unscaled(new)
  <2> SUFFICES ASSUME NEW j \in 1 .. Len(new), NEW l \in 1 .. Len(new), isLocal(Def(new[j])),
                      Copies(new[l], Def(new[j])), new[l].scalar # NoScalar
               PROVE  new[j].scalar = NoScalar
    BY DEF Unscaled
  <2>1. CASE j \in m + 1 .. Len(new)
    BY <1>7, <2>1
  <2>2. CASE j \in 1 .. m /\ l \in 1 .. m
    <3>1. Unscaled(prog)
      BY DEF Neat
    <3> QED BY <1>5, <2>2, <3>1 DEF Unscaled
  <2>3. l \in 1 .. m
    BY <1>6, <1>7
  <2> QED BY <1>6, <2>1, <2>2, <2>3
<1>10. \A n \in T : NotScaled(new, n)
  <2> SUFFICES ASSUME NEW n \in T, isLocal(n), NEW j \in 1 .. Len(new), Def(new[j]) = n
               PROVE  new[j].scalar = NoScalar
    BY DEF NotScaled
  <2>1. CASE j \in m + 1 .. Len(new)
    BY <1>7, <2>1
  <2>2. CASE j \in 1 .. m
    <3>1. n \in Names(prog)
      BY <1>5, <2>2 DEF Names, occurring
    <3>2. n \in U
      BY <3>1 DEF Below
    <3> QED BY <1>5, <2>2, <3>2 DEF Neat, NotScaled
  <2> QED BY <1>6, <2>1, <2>2
<1> QED BY <1>4, <1>8, <1>9, <1>10 DEF Neat, new

\* The program goes on with s * x, where x was not scaled.
LEMMA NeatScales ==
  ASSUME NEW prog \in Seq(Actions), NEW k \in Nat, Below(prog, k), NEW N, NEW U, Neat(prog, N, U),
         NEW a \in Actions, FreshNames(a, N, k), Def(a) = k, isLocal(k),
         NEW x, TermNames(a.term) = {x}, x # k, isLocal(x) => x \in U,
         NEW M, \A n \in M : isLocal(n) => n \in N \/ n = k,
         NEW T, \A n \in T : isLocal(n) => n \in U /\ n # k
  PROVE  Neat(Append(prog, a), M, T)
<1> DEFINE new == Append(prog, a)
           m   == Len(prog)
<1>1. Grown(prog, new, {a})
  BY GrownOnce
<1>2. /\ m \in Nat /\ Len(new) = m + 1 /\ new[m + 1] = a
      /\ \A j \in 1 .. m : new[j] = prog[j]
  OBVIOUS
<1> HIDE DEF new
<1>3. /\ LocalSums(new)
      /\ \A j \in 1 .. Len(new) : \A v \in occurrences(new[j]) : Full(v)
      /\ \A d \in 1 .. m : Def(prog[d]) \in Tensor =>
           /\ Barrier(new, d)
           /\ \A j \in 1 .. d : \A n \in occurring(new[j]) :
                isLocal(n) => n \notin N /\ ~ (n \in Nat /\ n >= k)
  BY <1>1, GrownNeat
<1>4. \A j \in 1 .. Len(new) : j \in 1 .. m \/ j = m + 1
  BY <1>2
<1>5. k >= k
  OBVIOUS
<1>6. Settled(new, M)
  <2> SUFFICES ASSUME NEW d \in 1 .. Len(new), Def(new[d]) \in Tensor
               PROVE  /\ Barrier(new, d)
                      /\ \A j \in 1 .. d : \A n \in occurring(new[j]) : isLocal(n) => n \notin M
    BY DEF Settled
  <2>1. d \in 1 .. m /\ Def(prog[d]) \in Tensor
    BY <1>2, <1>4 DEF isLocal
  <2> QED BY <1>3, <1>5, <2>1
<1>7. \A j \in 1 .. m : \A n \in occurring(prog[j]) : n # k
  <2>1. \A j \in 1 .. m : \A n \in occurring(prog[j]) : n = k => k < k
    BY DEF Below, Names
  <2> QED BY <2>1
<1>8. Unscaled(new)
  <2> SUFFICES ASSUME NEW j \in 1 .. Len(new), NEW l \in 1 .. Len(new), isLocal(Def(new[j])),
                      Copies(new[l], Def(new[j])), new[l].scalar # NoScalar
               PROVE  new[j].scalar = NoScalar
    BY DEF Unscaled
  <2>1. CASE j = m + 1
    <3>1. Def(new[j]) = k /\ k \in TermNames(new[l].term)
      BY <1>2, <2>1 DEF Copies
    <3>2. CASE l \in 1 .. m
      BY <1>2, <1>7, <3>1, <3>2 DEF occurring, variables
    <3>3. CASE l = m + 1
      BY <1>2, <3>1, <3>3
    <3> QED BY <1>4, <3>2, <3>3
  <2>2. CASE j \in 1 .. m /\ l \in 1 .. m
    <3>1. Unscaled(prog)
      BY DEF Neat
    <3> QED BY <1>2, <2>2, <3>1 DEF Unscaled
  <2>3. CASE j \in 1 .. m /\ l = m + 1
    <3>1. Def(prog[j]) = x /\ isLocal(x)
      BY <1>2, <2>3 DEF Copies
    <3>2. NotScaled(prog, x)
      BY <3>1 DEF Neat
    <3> QED BY <1>2, <2>3, <3>1, <3>2 DEF NotScaled
  <2> QED BY <1>4, <2>1, <2>2, <2>3
<1>9. \A n \in T : NotScaled(new, n)
  <2> SUFFICES ASSUME NEW n \in T, isLocal(n), NEW j \in 1 .. Len(new), Def(new[j]) = n
               PROVE  new[j].scalar = NoScalar
    BY DEF NotScaled
  <2>1. j \in 1 .. m
    BY <1>2, <1>4
  <2> QED BY <1>2, <2>1 DEF Neat, NotScaled
<1> QED BY <1>3, <1>6, <1>8, <1>9 DEF Neat, new

\* The program goes on with the assignment of a tensor, and nothing is held.
LEMMA NeatAssigns ==
  ASSUME NEW prog \in Seq(Actions), NEW k \in Nat, Below(prog, k), NEW N, NEW U, Neat(prog, N, U),
         NEW a \in Actions, FreshNames(a, N, k), Def(a) \in Tensor, a.scalar = NoScalar
  PROVE  Neat(Append(prog, a), {}, {})
<1> DEFINE new == Append(prog, a)
           m   == Len(prog)
<1>1. Grown(prog, new, {a})
  BY GrownOnce
<1>2. /\ m \in Nat /\ Len(new) = m + 1 /\ new[m + 1] = a
      /\ \A j \in 1 .. m : new[j] = prog[j]
  OBVIOUS
<1> HIDE DEF new
<1>3. /\ LocalSums(new)
      /\ \A j \in 1 .. Len(new) : \A v \in occurrences(new[j]) : Full(v)
      /\ \A d \in 1 .. m : Def(prog[d]) \in Tensor => Barrier(new, d)
  BY <1>1, GrownNeat
<1>4. \A j \in 1 .. Len(new) : j \in 1 .. m \/ j = m + 1
  BY <1>2
<1>5. Settled(new, {})
  <2>1. Barrier(new, m + 1)
    BY <1>2 DEF Barrier
  <2> QED BY <1>2, <1>3, <1>4, <2>1 DEF Settled
<1>6. Unscaled(new)
  <2> SUFFICES ASSUME NEW j \in 1 .. Len(new), NEW l \in 1 .. Len(new), isLocal(Def(new[j])),
                      Copies(new[l], Def(new[j])), new[l].scalar # NoScalar
               PROVE  new[j].scalar = NoScalar
    BY DEF Unscaled
  <2>1. j \in 1 .. m /\ l \in 1 .. m
    BY <1>2, <1>4 DEF isLocal
  <2>2. Unscaled(prog)
    BY DEF Neat
  <2> QED BY <1>2, <2>1, <2>2 DEF Unscaled
<1> QED BY <1>3, <1>5, <1>6 DEF Neat, new

LEMMA VisibleGrows ==
  ASSUME NEW prog, NEW N, Visible(prog, N), NEW new, NEW C, Grown(prog, new, C),
         \A a \in C : \A n \in variables(a) : n \in TempTensor => n \in N,
         NEW M, \A n \in M : n \in TempTensor => n \in N
  PROVE  Visible(new, M)
<1> DEFINE m == Len(prog)
<1>1. /\ m \in Nat /\ Len(new) \in Nat /\ m <= Len(new)
      /\ \A j \in 1 .. m : new[j] = prog[j]
      /\ \A j \in m + 1 .. Len(new) : new[j] \in C
  BY DEF Grown
<1>2. \A n \in N : n \in TempTensor => \E k \in 1 .. m : Def(new[k]) = n
  BY <1>1 DEF Visible
<1>3. ASSUME NEW k \in 1 .. Len(new), NEW n \in TempTensor, n \in variables(new[k])
      PROVE  \E j \in 1 .. k - 1 : Def(new[j]) = n
  <2>1. CASE k \in 1 .. m
    <3>1. PICK j \in 1 .. k - 1 : Def(prog[j]) = n
      BY <1>1, <1>3, <2>1 DEF Visible, TempsFlow
    <3>2. j \in 1 .. m
      BY <1>1, <2>1
    <3> QED BY <1>1, <3>1, <3>2
  <2>2. CASE k \in m + 1 .. Len(new)
    <3>1. PICK j \in 1 .. m : Def(new[j]) = n
      BY <1>1, <1>2, <1>3, <2>2
    <3>2. j \in 1 .. k - 1
      BY <1>1, <2>2
    <3> QED BY <3>1, <3>2
  <2>3. k \in 1 .. m \/ k \in m + 1 .. Len(new)
    BY <1>1
  <2> QED BY <2>1, <2>2, <2>3
<1>4. \A n \in M : n \in TempTensor => \E k \in 1 .. Len(new) : Def(new[k]) = n
  <2>1. \A k \in 1 .. m : k \in 1 .. Len(new)
    BY <1>1
  <2> QED BY <1>2, <2>1
<1> QED BY <1>3, <1>4 DEF Visible, TempsFlow

\* What an action reads, if it occurs in FreshFrom variables.
LEMMA FreshReads ==
  ASSUME NEW N, NEW k, NEW a \in Actions, \A v \in occurrences(a) : FreshFrom(v, N, k),
         NEW n \in variables(a), n \in TempTensor
  PROVE  n \in N
<1>1. PICK v \in occurrences(a) : n = v.name
  BY OccurringNames DEF occurring
<1>2. n \notin Global /\ n \notin Nat
  BY NamesAssumption DEF Tensor
<1> QED BY <1>1, <1>2 DEF FreshFrom

-----------------------------------------------------------------------------
(* What the visitor holds *)

LEMMA PendingBelowNext ==
  ASSUME LInv, NInv
  PROVE  /\ tmp \in Nat /\ isLocal(tmp) /\ cfg \in Seq(Actions) /\ Below(cfg, tmp)
         /\ \A n \in PendingNames(stack) : n # tmp
         /\ \A v \in Pending(stack) : FreshFrom(v, PendingNames(stack), tmp)
<1>1. /\ Lowerable(cfg, Pending(stack)) /\ Below(cfg, tmp) /\ tmp \in Nat /\ cfg \in Seq(Actions)
      /\ \A v \in Pending(stack) : Full(v)
  BY DEF LInv, NInv, Below, Lowerable, Plain, Base
<1>2. tmp \in Nat /\ isLocal(tmp)
  BY <1>1, NamesAssumption DEF isLocal
<1>3. \A v \in Pending(stack) : v \in Variables /\ (isLocal(v.name) => v.name # tmp)
  BY <1>1, HeldBelow
<1>4. \A n \in PendingNames(stack) : n # tmp
  BY <1>2, <1>3 DEF PendingNames
<1>5. \A v \in Pending(stack) : FreshFrom(v, PendingNames(stack), tmp)
  BY <1>1, <1>3 DEF FreshFrom, PendingNames
<1> QED BY <1>1, <1>2, <1>4, <1>5

LEMMA ReturnedNames ==
  ASSUME LInv, NInv, NEW n \in Nat, n <= Len(stack), NEW spp \in SUBSET Cells,
         NEW e, e.var = Temporary(tmp, spp), e.spp = spp
  PROVE  LET st == Replaced(n, e)
         IN  /\ \A x \in PendingNames(st) : x \in PendingNames(stack) \/ x = tmp
             /\ \A x \in UnscaledNames(st) :
                  \/ x \in UnscaledNames(stack) /\ x # tmp
                  \/ x = tmp /\ e.node # "ScalarMultiplication"
             /\ \A v \in Pending(st) : Full(v)
<1> DEFINE m   == Len(stack) - n
           sub == SubSeq(stack, 1, m)
           st  == Replaced(n, e)
<1>1. StackOk(stack) /\ tmp \in Nat
  BY PendingBelowNext DEF LInv
<1>2. /\ \A x \in PendingNames(stack) : x # tmp
      /\ \A v \in Pending(stack) : Full(v)
  BY PendingBelowNext DEF NInv
<1>3. PICK S : stack \in Seq(S)
  BY <1>1 DEF StackOk
<1>4. m \in Nat /\ \A k \in 1 .. m : k \in 1 .. Len(stack)
  BY <1>3
<1>5. sub \in Seq(S) /\ Len(sub) = m /\ \A k \in 1 .. m : sub[k] = stack[k]
  BY <1>3, <1>4
<1>6. st = Append(sub, e)
  BY DEF Replaced
<1>7. Len(st) = m + 1 /\ st[m + 1] = e /\ \A k \in 1 .. m : st[k] = stack[k]
  <2> DEFINE T == S \cup {e}
  <2>1. sub \in Seq(T) /\ e \in T
    BY <1>5
  <2> HIDE DEF sub, T, st
  <2> QED BY <1>4, <1>5, <1>6, <2>1
<1> HIDE DEF st, sub, m
<1>8. \A k \in 1 .. Len(st) : \/ k \in 1 .. Len(stack) /\ st[k] = stack[k]
                              \/ st[k] = e
  <2>1. \A k \in 1 .. m + 1 : k \in 1 .. m \/ k = m + 1
    BY <1>4
  <2> QED BY <1>4, <1>7, <2>1
<1>9. e.var.name = tmp /\ Full(e.var)
  BY <1>1, TemporaryOk, FullVariables
<1>10. \A v \in Pending(st) : v \in Pending(stack) \/ v = e.var
  BY <1>8 DEF Pending
<1>11. \A x \in PendingNames(st) : x \in PendingNames(stack) \/ x = tmp
  BY <1>9, <1>10 DEF PendingNames
<1>12. ASSUME NEW x \in UnscaledNames(st)
       PROVE  \/ x \in UnscaledNames(stack) /\ x # tmp
              \/ x = tmp /\ e.node # "ScalarMultiplication"
  <2>1. PICK k \in 1 .. Len(st) : st[k].node # "ScalarMultiplication" /\ st[k].var.name = x
    BY <1>12 DEF UnscaledNames
  <2>2. CASE st[k] = e
    BY <1>9, <2>1, <2>2
  <2>3. CASE k \in 1 .. Len(stack) /\ st[k] = stack[k]
    <3>1. x \in PendingNames(stack)
      BY <2>1, <2>3 DEF PendingNames, Pending
    <3> QED BY <1>2, <2>1, <2>3, <3>1 DEF UnscaledNames
  <2> QED BY <1>8, <2>2, <2>3
<1> QED BY <1>2, <1>9, <1>10, <1>11, <1>12 DEF st

LEMMA GrownWritten ==
  ASSUME NEW prog, NEW new, NEW C, Grown(prog, new, C)
  PROVE  Written(prog) \subseteq Written(new)
<1>1. /\ Len(prog) \in Nat /\ Len(new) \in Nat /\ Len(prog) <= Len(new)
      /\ \A j \in 1 .. Len(prog) : new[j] = prog[j]
  BY DEF Grown
<1>2. \A j \in 1 .. Len(prog) : j \in 1 .. Len(new)
  BY <1>1
<1> QED BY <1>1, <1>2 DEF Written

\* A visit emits code and returns a new temporary.
LEMMA VisitNeat ==
  ASSUME LInv, NInv, NEW n \in Nat, n <= Len(stack), NEW spp \in SUBSET Cells,
         NEW e, e.var = Temporary(tmp, spp), e.spp = spp, e.node # "ScalarMultiplication",
         NEW code \in Seq(Computing(PendingNames(stack), tmp)),
         stack' = Replaced(n, e), cfg' = cfg \o code,
         UNCHANGED <<writable, target, simpleMemoryLayout>>
  PROVE  NInv'
<1> DEFINE N == PendingNames(stack)
           U == UnscaledNames(stack)
           M == PendingNames(Replaced(n, e))
           T == UnscaledNames(Replaced(n, e))
<1>1. tmp \in Nat /\ cfg \in Seq(Actions) /\ Below(cfg, tmp) /\ Neat(cfg, N, U)
  BY PendingBelowNext DEF NInv
<1>2. /\ \A x \in M : x \in N \/ x = tmp
      /\ \A x \in T : x \in U \/ x = tmp
      /\ \A v \in Pending(Replaced(n, e)) : Full(v)
  BY SMTT(30), ReturnedNames
<1> HIDE DEF N, U, M, T
<1>3. tmp >= tmp
  BY <1>1
<1>4. Neat(cfg \o code, M, T)
  <2>1. code \in Seq(Computing(N, tmp))
    BY DEF N
  <2> QED BY <1>1, <1>2, <1>3, <2>1, NeatGrows
<1>5. Written(cfg) \subseteq Written(cfg')
  <2>1. Computing(N, tmp) \subseteq Actions
    BY DEF Computing
  <2>2. Grown(cfg, cfg \o code, Computing(N, tmp))
    <3>1. code \in Seq(Computing(N, tmp))
      BY DEF N
    <3> QED BY <1>1, <2>1, <3>1, GrownBy
  <2> QED BY <2>2, GrownWritten
<1>6. Neat(cfg, PendingNames(stack), UnscaledNames(stack))'
  BY <1>4 DEF M, T, Neat, Full
<1>7. \A v \in Pending(stack') : Full(v)'
  BY <1>2 DEF Full
<1>8. \A x \in writable' : x \in Tensor /\ (x \in Written(cfg') \/ x = target')
  BY <1>5 DEF NInv
<1>9. Visible(cfg \o code, M)
  <2> DEFINE C == Computing(N, tmp)
  <2>1. C \subseteq Actions /\ \A a \in C : \A v \in occurrences(a) : FreshFrom(v, N, tmp)
    BY DEF Computing
  <2>2. \A a \in C : \A x \in variables(a) : x \in TempTensor => x \in N
    BY <2>1, FreshReads
  <2>3. code \in Seq(C)
    BY DEF N
  <2>4. \A x \in M : x \in TempTensor => x \in N
    BY <1>1, <1>2, NamesAssumption DEF Tensor
  <2>5. Visible(cfg, N)
    BY DEF NInv, N
  <2> HIDE DEF C
  <2>6. Grown(cfg, cfg \o code, C)
    BY <1>1, <2>1, <2>3, GrownBy
  <2> QED BY <2>2, <2>4, <2>5, <2>6, VisibleGrows
<1>10. Visible(cfg, PendingNames(stack))'
  BY <1>9 DEF M
<1> QED BY <1>6, <1>7, <1>8, <1>10 DEF NInv

LEMMA InitNInv == LInit => NInv
<1> SUFFICES ASSUME LInit PROVE NInv
  OBVIOUS
<1>1. cfg = <<>> /\ stack = <<>> /\ writable = {}
  BY DEF LInit
<1>2. Len(cfg) = 0 /\ Len(stack) = 0
  BY <1>1
<1>3. Pending(stack) = {}
  BY <1>2 DEF Pending
<1>4. PendingNames(stack) = {} /\ UnscaledNames(stack) = {}
  BY <1>3 DEF PendingNames, UnscaledNames
<1>5. Neat(cfg, PendingNames(stack), UnscaledNames(stack))
  BY <1>2, <1>4 DEF Neat, LocalSums, Settled, Unscaled
<1>6. Visible(cfg, PendingNames(stack))
  BY <1>2, <1>4 DEF Visible, TempsFlow
<1> QED BY <1>1, <1>3, <1>5, <1>6 DEF NInv

LEMMA EnterAssignNeat ==
  ASSUME LInv, NInv, NEW n \in Tensor, EnterAssign(n)
  PROVE  NInv'
<1>1. /\ UNCHANGED <<cfg, stack, simpleMemoryLayout>> /\ target = NoTarget
      /\ target' = n /\ writable' = writable \cup {n}
  BY DEF EnterAssign
<1>2. \A x \in writable' : x \in Tensor /\ (x \in Written(cfg') \/ x = target')
  BY <1>1, TargetAssumption DEF NInv
<1>3. Neat(cfg, PendingNames(stack), UnscaledNames(stack))'
  BY <1>1 DEF NInv, Neat, Full
<1>4. \A v \in Pending(stack') : Full(v)'
  BY <1>1 DEF NInv, Full
<1>5. Visible(cfg, PendingNames(stack))'
  BY <1>1 DEF NInv
<1> QED BY <1>2, <1>3, <1>4, <1>5 DEF NInv

LEMMA VisitTensorNeat ==
  ASSUME LInv, NInv, NEW n \in Tensor, visit_IndexedTensor(n)
  PROVE  NInv'
<1> DEFINE e == [var  |-> TensorVariable(n), node |-> "IndexedTensor", val |-> meaning[n],
                 spp |-> TensorCells[n]]
           N == PendingNames(stack)
           U == UnscaledNames(stack)
           M == PendingNames(stack')
           T == UnscaledNames(stack')
           m == Len(stack)
<1>1. /\ UNCHANGED <<cfg, writable, target, simpleMemoryLayout>> /\ stack' = Append(stack, e)
  BY DEF visit_IndexedTensor
<1>2. e.var.name = n /\ Full(e.var) /\ ~ isLocal(n)
  BY TensorVariableOk, FullVariables
<1>3. PICK S : stack \in Seq(S)
  BY DEF LInv, StackOk
<1> HIDE DEF e
<1>4. m \in Nat /\ Len(stack') = m + 1 /\ stack'[m + 1] = e /\ \A k \in 1 .. m : stack'[k] = stack[k]
  <2> DEFINE R == S \cup {e}
  <2>1. stack \in Seq(R) /\ e \in R
    BY <1>3
  <2> HIDE DEF R
  <2> QED BY <1>1, <2>1
<1>5. \A k \in 1 .. Len(stack') : \/ k \in 1 .. m /\ stack'[k] = stack[k]
                                  \/ stack'[k] = e
  <2>1. \A k \in 1 .. m + 1 : k \in 1 .. m \/ k = m + 1
    BY <1>4
  <2> QED BY <1>4, <2>1
<1>6. \A v \in Pending(stack') : v \in Pending(stack) \/ v = e.var
  BY <1>5 DEF Pending
<1>7. \A x \in M : isLocal(x) => x \in N
  BY <1>2, <1>6 DEF PendingNames
<1>8. \A x \in T : isLocal(x) => x \in U
  <2> SUFFICES ASSUME NEW x \in T, isLocal(x) PROVE x \in U
    OBVIOUS
  <2>1. PICK k \in 1 .. Len(stack') : stack'[k].node # "ScalarMultiplication" /\ stack'[k].var.name = x
    BY DEF UnscaledNames
  <2>2. k \in 1 .. m /\ stack'[k] = stack[k]
    BY <1>2, <1>5, <2>1
  <2>3. x \in PendingNames(stack)
    BY <2>1, <2>2 DEF PendingNames, Pending
  <2> QED BY <2>1, <2>2, <2>3 DEF UnscaledNames
<1>9. tmp \in Nat /\ cfg \in Seq(Actions) /\ Below(cfg, tmp) /\ Neat(cfg, N, U)
  BY PendingBelowNext DEF NInv
<1>10. Neat(cfg, M, T)
  <2> HIDE DEF N, U, M, T
  <2>1. <<>> \in Seq(Computing(N, tmp)) /\ cfg \o <<>> = cfg
    BY <1>9
  <2>2. Neat(cfg \o <<>>, M, T)
    BY <1>7, <1>8, <1>9, <2>1, NeatGrows
  <2> QED BY <2>1, <2>2
<1>11. Neat(cfg, PendingNames(stack), UnscaledNames(stack))'
  BY <1>1, <1>10 DEF Neat, Full
<1>12. \A v \in Pending(stack') : Full(v)'
  BY <1>1, <1>2, <1>6 DEF NInv, Full
<1>13. \A x \in writable' : x \in Tensor /\ (x \in Written(cfg') \/ x = target')
  BY <1>1 DEF NInv
<1>14. Visible(cfg, PendingNames(stack))'
  <2>1. n \in TempTensor => \E k \in 1 .. Len(cfg) : Def(cfg[k]) = n
    <3>1. DOMAIN cfg = 1 .. Len(cfg)
      BY <1>9
    <3> QED BY <3>1 DEF visit_IndexedTensor
  <2>2. \A x \in M : x \in N \/ x = n
    BY <1>2, <1>6 DEF PendingNames
  <2>3. Visible(cfg, N)
    BY DEF NInv
  <2>4. Visible(cfg, M)
    BY <2>1, <2>2, <2>3 DEF Visible
  <2> QED BY <1>1, <2>4
<1> QED BY <1>11, <1>12, <1>13, <1>14 DEF NInv

LEMMA VisitNodeNeat ==
  ASSUME LInv, NInv, NEW n \in Arities, NEW fuse \in BOOLEAN, generic_visit(n, fuse)
  PROVE  NInv'
<1> DEFINE args == Field(Top(n), "var")
           spp  == OpSpp(Field(Top(n), "spp"))
           res  == Temporary(tmp, spp)
           t    == [op |-> "Op", args |-> args, spp |-> spp, fuse |-> fuse]
           a    == ProgramAction(res, t, FALSE, NoScalar)
           e    == [var |-> res, node |-> "Op", val |-> OpValue(Field(Top(n), "val")), spp |-> spp]
           N    == PendingNames(stack)
<1>1. /\ Len(stack) >= n
      /\ cfg' = Append(cfg, a) /\ stack' = Replaced(n, e)
      /\ UNCHANGED <<writable, target, simpleMemoryLayout>>
  BY DEF generic_visit
<1>2. n \in Nat /\ n <= Len(stack)
  <2>1. Len(stack) \in Nat
    BY DEF LInv, StackOk
  <2> QED BY <1>1, <2>1, KernelAssumption
<1>3. /\ args \in Seq(Variables) /\ Len(args) = n
      /\ \A k \in 1 .. n : args[k] \in Pending(stack)
  BY <1>2, Operands
<1>4. spp \in SUBSET Cells
  BY DEF OpSpp
<1>5. e.var = Temporary(tmp, spp) /\ e.spp = spp /\ e.node # "ScalarMultiplication"
  OBVIOUS
<1> HIDE DEF args, spp, e
<1>6. /\ tmp \in Nat /\ cfg \in Seq(Actions)
      /\ \A v \in Pending(stack) : FreshFrom(v, N, tmp)
  BY PendingBelowNext
<1>7. res \in Variables /\ res.name = tmp /\ isLocal(res.name) /\ Full(res)
  BY <1>4, <1>6, TemporaryOk, FullVariables
<1>8. FreshFrom(res, N, tmp)
  BY <1>6, <1>7 DEF FreshFrom
<1>9. a.result = res /\ a.term = t /\ t.args = args /\ a.add = FALSE /\ a.scalar = NoScalar
  BY DEF ProgramAction
<1> HIDE DEF N
<1>10. a \in Actions
  <2>1. t \in Terms
    BY <1>3, <1>4 DEF Terms, NodeOps
  <2> HIDE DEF t
  <2>2. FALSE \in BOOLEAN /\ NoScalar \in Nat
    BY DEF NoScalar
  <2> HIDE DEF res
  <2> QED BY <1>7, <2>1, <2>2 DEF ProgramAction, Actions, Scalars
<1>11. \A v \in occurrences(a) : FreshFrom(v, N, tmp)
  <2>1. DOMAIN args = 1 .. n
    BY <1>3
  <2>2. a.term.args = args
    BY <1>9
  <2> HIDE DEF a, res
  <2> QED BY <1>3, <1>6, <1>8, <1>9, <2>1, <2>2 DEF occurrences
<1>12. isLocal(Def(a)) /\ a.scalar = NoScalar
  BY <1>7, <1>9 DEF Def
<1> HIDE DEF a
<1>13. a \in Computing(N, tmp)
  BY <1>10, <1>11, <1>12 DEF Computing
<1>14. <<a>> \in Seq(Computing(PendingNames(stack), tmp)) /\ cfg' = cfg \o <<a>>
  <2>1. Append(cfg, a) = cfg \o <<a>>
    BY <1>6
  <2> QED BY <1>1, <1>13, <2>1 DEF N
<1>15. stack' = Replaced(n, e) /\ UNCHANGED <<writable, target, simpleMemoryLayout>>
  BY <1>1
<1> DEFINE code == <<a>>
<1>16. code \in Seq(Computing(PendingNames(stack), tmp)) /\ cfg' = cfg \o code
  BY <1>14
<1> HIDE DEF code
<1> QED BY <1>2, <1>4, <1>5, <1>15, <1>16, VisitNeat

LEMMA VisitAddNeat ==
  ASSUME LInv, NInv, NEW m \in AddendCounts, NEW convs \in [1 .. m -> AddendOrders], visit_Add(convs)
  PROVE  NInv'
<1> DEFINE vs  == SortedVariables(Field(Top(m), "var"))
           own == OwnSpps(m)
           spp == AddSpp(convs)
           res == Temporary(tmp, spp)
           N   == PendingNames(stack)
<1>1. /\ m \in Nat /\ m <= Len(stack)
      /\ \A k \in 1 .. m : own[k] \in SUBSET Cells
      /\ spp \in SUBSET Cells
      /\ UNCHANGED <<writable, target, simpleMemoryLayout>>
  BY VisitAddEmits
<1>2. PICK emitted, sum :
        /\ SumEmitted(emitted, convs, own, vs, tmp, spp)
        /\ (\A k \in 1 .. m : ConvertedValues(convs)[k] \in Values) =>
             SumsUp(sum, ConvertedValues(convs), m)
        /\ cfg' = cfg \o emitted[m].code
        /\ tmp' = emitted[m].next
        /\ stack' = Replaced(m, [var |-> res, node |-> "Add", val |-> sum[m], spp |-> spp])
  BY VisitAddEmits
<1> DEFINE e == [var |-> res, node |-> "Add", val |-> sum[m], spp |-> spp]
<1>3. e.var = Temporary(tmp, spp) /\ e.spp = spp /\ e.node # "ScalarMultiplication"
      /\ stack' = Replaced(m, e)
  BY <1>2
<1> HIDE DEF e
<1>4. vs \in Seq(Variables) /\ Len(vs) = m /\ \A l \in 1 .. m : vs[l] \in Pending(stack)
  BY <1>1, SortedOperands
<1>5. tmp \in Nat /\ \A v \in Pending(stack) : FreshFrom(v, N, tmp)
  BY PendingBelowNext
<1> HIDE DEF vs, own, spp, N
<1>6. \A l \in 1 .. Len(vs) : FreshFrom(vs[l], N, tmp) /\ own[l] \in SUBSET Cells
  BY <1>1, <1>4, <1>5
<1>7. m \in 0 .. Len(vs)
  BY <1>1, <1>4
<1>8. FreshCode(emitted[m], N, tmp)
  BY <1>1, <1>2, <1>4, <1>5, <1>6, <1>7, SumFresh
<1> DEFINE code == emitted[m].code
<1>9. code \in Seq(Computing(PendingNames(stack), tmp)) /\ cfg' = cfg \o code
  BY <1>2, <1>8 DEF FreshCode, N
<1> HIDE DEF code, res
<1> QED BY <1>1, <1>3, <1>9, VisitNeat

LEMMA VisitScalarNeat ==
  ASSUME LInv, NInv, NEW s \in ScalarValues, visit_ScalarMultiplication(s)
  PROVE  NInv'
<1> DEFINE child == Last(stack)
           v     == child.var
           spp   == child.spp
           res   == Temporary(tmp, spp)
           a     == ProgramAction(res, VariableTerm(v), FALSE, s)
           e     == [var |-> res, node |-> "ScalarMultiplication",
                     val |-> ScaleValue(s, child.val), spp |-> spp]
           N     == PendingNames(stack)
           U     == UnscaledNames(stack)
           M     == PendingNames(Replaced(1, e))
           T     == UnscaledNames(Replaced(1, e))
<1>1. /\ Len(stack) >= 1 /\ child.node # "ScalarMultiplication"
      /\ cfg' = Append(cfg, a) /\ stack' = Replaced(1, e)
      /\ UNCHANGED <<writable, target, simpleMemoryLayout>>
  BY DEF visit_ScalarMultiplication
<1>2. StackOk(stack) /\ Lowerable(cfg, Pending(stack))
  BY DEF LInv
<1>3. Len(stack) \in Nat /\ 1 <= Len(stack) /\ Len(stack) \in 1 .. Len(stack)
      /\ child = stack[Len(stack)]
  BY <1>1, <1>2 DEF StackOk, Last
<1>4. child.spp = v.spp /\ v \in Pending(stack)
  BY <1>2, <1>3 DEF StackOk, Pending
<1>5. v \in Variables /\ spp \in SUBSET Cells /\ s \in Nat
  <2>1. v \in Variables
    BY <1>2, <1>4 DEF Lowerable
  <2> QED BY <1>4, <2>1, KernelAssumption DEF Variables
<1>6. v.name \in U
  BY <1>1, <1>3, <1>4 DEF UnscaledNames, PendingNames
<1>7. /\ tmp \in Nat /\ isLocal(tmp) /\ cfg \in Seq(Actions) /\ Below(cfg, tmp)
      /\ v.name # tmp /\ FreshFrom(v, N, tmp) /\ Neat(cfg, N, U)
  <2>1. v.name \in N
    BY <1>4 DEF PendingNames
  <2> QED BY <1>4, <2>1, PendingBelowNext DEF NInv
<1>8. e.var = Temporary(tmp, spp) /\ e.spp = spp /\ e.node = "ScalarMultiplication"
  OBVIOUS
<1> HIDE DEF e, spp, v, child
<1>9. /\ \A x \in M : x \in N \/ x = tmp
      /\ \A x \in T : x \in U /\ x # tmp
      /\ \A w \in Pending(Replaced(1, e)) : Full(w)
  BY <1>3, <1>5, <1>8, ReturnedNames
<1>10. res.name = tmp /\ FreshFrom(res, N, tmp)
  BY <1>5, <1>7, TemporaryOk, FullVariables DEF FreshFrom
<1>11. /\ a \in Actions /\ Def(a) = res.name
       /\ \A w \in occurrences(a) : FreshFrom(w, N, tmp)
  <2> DEFINE b == FALSE
  <2>1. b \in BOOLEAN /\ a = ProgramAction(res, VariableTerm(v), b, s)
    OBVIOUS
  <2> HIDE DEF N, res, a, b
  <2> QED BY <1>5, <1>7, <1>10, <2>1, CopyFresh
<1>12. TermNames(a.term) = {v.name} /\ ~ isCompound(a)
  <2>1. a.term.args = <<v>> /\ a.add = FALSE
    BY DEF ProgramAction, VariableTerm
  <2>2. DOMAIN <<v>> = {1} /\ <<v>>[1] = v
    OBVIOUS
  <2> HIDE DEF a
  <2> QED BY <2>1, <2>2 DEF TermNames, isCompound
<1> HIDE DEF N, U, M, T, a, res
<1>13. FreshNames(a, N, tmp)
  BY <1>11, <1>12, FreshNamesIf
<1> DEFINE x == v.name
<1>14. TermNames(a.term) = {x} /\ x # tmp /\ x \in U
  BY <1>6, <1>7, <1>12
<1> HIDE DEF x
<1>15. Neat(Append(cfg, a), M, T)
  <2>1. Def(a) = tmp /\ isLocal(tmp)
    BY <1>7, <1>10, <1>11
  <2> QED BY <1>7, <1>9, <1>11, <1>13, <1>14, <2>1, NeatScales
<1>16. Written(cfg) \subseteq Written(cfg')
  BY <1>1, <1>7, <1>11, GrownOnce, GrownWritten
<1>17. Neat(cfg, PendingNames(stack), UnscaledNames(stack))'
  BY <1>1, <1>15 DEF M, T, Neat, Full
<1>18. \A w \in Pending(stack') : Full(w)'
  BY <1>1, <1>9 DEF Full
<1>19. \A y \in writable' : y \in Tensor /\ (y \in Written(cfg') \/ y = target')
  BY <1>1, <1>16 DEF NInv
<1>20. Visible(Append(cfg, a), M)
  <2>1. \A y \in variables(a) : y \in TempTensor => y \in N
    BY <1>11, FreshReads
  <2>2. \A y \in M : y \in TempTensor => y \in N
    BY <1>7, <1>9, NamesAssumption DEF Tensor
  <2>3. Visible(cfg, N)
    BY DEF NInv, N
  <2> DEFINE C == {a}
  <2>4. Grown(cfg, Append(cfg, a), C) /\ \A b \in C : b = a
    BY <1>7, <1>11, GrownOnce
  <2> HIDE DEF C
  <2> QED BY <2>1, <2>2, <2>3, <2>4, VisibleGrows
<1>21. Visible(cfg, PendingNames(stack))'
  BY <1>1, <1>20 DEF M
<1> QED BY <1>17, <1>18, <1>19, <1>21 DEF NInv

LEMMA LeaveAssignNeat ==
  ASSUME LInv, NInv, NEW conv \in TargetOrders, LeaveAssign(conv)
  PROVE  NInv'
<1> DEFINE child == stack[1]
           v     == child.var
           own   == child.spp
           left  == TensorVariable(target)
           r     == AddPermuteIfRequired(conv, own, v, tmp)
           mid   == cfg \o r.code
           a     == ProgramAction(left, VariableTerm(r.var), FALSE, NoScalar)
           N     == PendingNames(stack)
           U     == UnscaledNames(stack)
           M     == N \cup {target} \cup {n \in Nat : n >= tmp}
<1>1. /\ target # NoTarget /\ Len(stack) = 1
      /\ cfg' = mid \o <<a>> /\ stack' = <<>> /\ tmp' = r.next
      /\ UNCHANGED <<writable, simpleMemoryLayout>>
  BY DEF LeaveAssign
<1>2. /\ StackOk(stack) /\ Lowerable(cfg, Pending(stack)) /\ Below(cfg, tmp)
      /\ target \in Tensor
  BY <1>1 DEF LInv
<1>3. 1 \in 1 .. Len(stack)
  BY <1>1
<1>4. own = v.spp /\ v \in Pending(stack)
  BY <1>2, <1>3 DEF StackOk, Pending
<1>5. own \in SUBSET Cells /\ conv \in Conversions
  <2>1. v \in Variables
    BY <1>2, <1>4 DEF Lowerable
  <2> QED BY <1>4, <2>1, KernelAssumption DEF Variables
<1>6. /\ tmp \in Nat /\ cfg \in Seq(Actions) /\ Below(cfg, tmp)
      /\ FreshFrom(v, N, tmp) /\ Neat(cfg, N, U)
  BY <1>4, PendingBelowNext DEF NInv
<1>7. left.name = target /\ left \in Variables /\ ~ isLocal(left.name) /\ Full(left)
  BY <1>2, TensorVariableOk, FullVariables
<1> HIDE DEF own, v, child, left
<1>8. Below(mid, r.next) /\ mid \in Seq(Actions)
  <2>1. r.code \in Seq(Actions) /\ Below(mid, r.next)
    <3> DEFINE H == Pending(stack)
    <3>1. v \in H /\ Lowerable(cfg, H)
      BY <1>2, <1>4
    <3> HIDE DEF H
    <3> QED BY <1>2, <1>5, <3>1, AddPermuteOk
  <2> QED BY <1>6, <2>1
<1>9. r.code \in Seq(Computing(N, tmp)) /\ r.next \in Nat /\ r.next >= tmp /\ FreshFrom(r.var, N, tmp)
  <2>1. tmp >= tmp
    BY <1>6
  <2> HIDE DEF N
  <2> QED BY <1>5, <1>6, <2>1, AddPermuteFresh
<1> HIDE DEF r
<1>10. Neat(mid, M, {})
  <2>1. \A n \in M : isLocal(n) => n \in N \/ (n \in Nat /\ n >= tmp)
    BY <1>7
  <2> HIDE DEF N, U, M
  <2> QED BY <1>6, <1>9, <2>1, NeatGrows
<1>11. FreshFrom(r.var, M, tmp) /\ FreshFrom(left, M, tmp)
  BY <1>7, <1>9 DEF FreshFrom
<1>12. /\ a \in Actions /\ Def(a) = left.name /\ a.scalar = NoScalar
       /\ \A w \in occurrences(a) : FreshFrom(w, M, tmp)
  <2>1. FALSE \in BOOLEAN /\ NoScalar \in Nat
    BY DEF NoScalar
  <2> DEFINE w == r.var
             s == NoScalar
             b == FALSE
  <2>2. a = ProgramAction(left, VariableTerm(w), b, s) /\ b \in BOOLEAN /\ s \in Nat
        /\ FreshFrom(w, M, tmp)
    BY <1>11, <2>1
  <2>4. FreshFrom(left, M, tmp) /\ tmp \in Nat
    BY <1>6, <1>11
  <2> HIDE DEF M, w, s, b, a
  <2>3. /\ a \in Actions /\ Def(a) = left.name /\ a.scalar = s
        /\ \A o \in occurrences(a) : FreshFrom(o, M, tmp)
    BY <2>2, <2>4, CopyFresh
  <2> QED BY <2>3 DEF s
<1>13. ~ isCompound(a)
  BY DEF isCompound, ProgramAction
<1>13a. \A x \in variables(a) : x \in TempTensor => x \in N
  <2> SUFFICES ASSUME NEW x \in variables(a), x \in TempTensor PROVE x \in N
    OBVIOUS
  <2>1. a.term.args = <<r.var>> /\ a.add = FALSE
    BY DEF ProgramAction, VariableTerm
  <2>2. x = r.var.name
    <3> HIDE DEF a
    <3> QED BY <2>1 DEF variables, TermNames
  <2>3. x \notin Global /\ x \notin Nat
    BY NamesAssumption DEF Tensor
  <2> HIDE DEF N
  <2> QED BY <1>9, <2>2, <2>3 DEF FreshFrom
<1> HIDE DEF a, mid
<1>14. FreshNames(a, M, r.next)
  <2>1. \A w \in occurrences(a) : FreshFrom(w, M, r.next)
    <3>1. ASSUME NEW w, FreshFrom(w, M, tmp)
          PROVE  FreshFrom(w, M, r.next)
      BY <3>1 DEF FreshFrom, M
    <3> QED BY <1>12, <3>1
  <2> HIDE DEF M
  <2> QED BY <1>12, <1>13, <2>1, FreshNamesIf
<1> HIDE DEF M
<1>15. Neat(Append(mid, a), {}, {})
  <2> DEFINE k == r.next
             E == {}
  <2>1. k \in Nat /\ Below(mid, k) /\ FreshNames(a, M, k) /\ Neat(mid, M, E)
    BY <1>8, <1>9, <1>10, <1>14
  <2> HIDE DEF k, E
  <2>2. Def(a) \in Tensor
    BY <1>2, <1>7, <1>12
  <2> QED BY <1>8, <1>12, <2>1, <2>2, NeatAssigns
<1>16. cfg' = Append(mid, a)
  BY <1>1, <1>8
<1>17. Pending(stack') = {}
  <2>1. Len(stack') = 0
    BY <1>1
  <2> QED BY <2>1 DEF Pending
<1>18. PendingNames(stack') = {} /\ UnscaledNames(stack') = {}
  BY <1>17 DEF PendingNames, UnscaledNames
<1>19. Written(cfg) \subseteq Written(cfg') /\ target \in Written(cfg')
  <2>1. Written(cfg') = Written(mid) \cup ({Def(a)} \cap Tensor)
    BY <1>8, <1>12, <1>16, AppendNames
  <2>2. Written(cfg) \subseteq Written(mid)
    <3> DEFINE C == Computing(N, tmp)
    <3>1. C \subseteq Actions /\ r.code \in Seq(C)
      BY <1>9 DEF Computing
    <3> HIDE DEF C
    <3>2. Grown(cfg, mid, C)
      BY <1>6, <3>1, GrownBy DEF mid
    <3> QED BY <3>2, GrownWritten
  <2> QED BY <1>2, <1>7, <1>12, <2>1, <2>2
<1>20. Neat(cfg, PendingNames(stack), UnscaledNames(stack))'
  BY <1>1, <1>15, <1>16, <1>18 DEF Neat, Full
<1>21. \A w \in Pending(stack') : Full(w)'
  BY <1>17
<1>22. \A x \in writable' : x \in Tensor /\ (x \in Written(cfg') \/ x = target')
  BY <1>1, <1>19 DEF NInv
<1>23. Visible(Append(mid, a), {})
  <2> DEFINE C == Computing(N, tmp)
             D == {a}
             E == {}
  <2>1. C \subseteq Actions /\ \A b \in C : \A w \in occurrences(b) : FreshFrom(w, N, tmp)
    BY DEF Computing
  <2>2. \A b \in C : \A x \in variables(b) : x \in TempTensor => x \in N
    BY <2>1, FreshReads
  <2>3. Visible(cfg, N)
    BY DEF NInv
  <2>4. r.code \in Seq(C)
    BY <1>9
  <2>5. \A x \in variables(a) : x \in TempTensor => x \in N
    BY <1>13a
  <2>6. D = {a} /\ E = {}
    OBVIOUS
  <2> HIDE DEF C, D, E, N
  <2>7. Grown(cfg, mid, C)
    BY <1>6, <2>1, <2>4, GrownBy DEF mid
  <2>8. Visible(mid, N)
    BY <2>2, <2>3, <2>7, VisibleGrows
  <2>9. Grown(mid, Append(mid, a), D)
    BY <1>8, <1>12, <2>6, GrownOnce
  <2>10. Visible(Append(mid, a), E)
    BY <2>5, <2>6, <2>8, <2>9, VisibleGrows
  <2> QED BY <2>6, <2>10
<1>24. Visible(cfg, PendingNames(stack))'
  BY <1>16, <1>18, <1>23
<1> QED BY <1>20, <1>21, <1>22, <1>24 DEF NInv

LEMMA StepNInv == LInv /\ NInv /\ [LNext]_lvars => NInv'
<1> SUFFICES ASSUME LInv, NInv, [LNext]_lvars PROVE NInv'
  OBVIOUS
<1>1. CASE \E n \in Tensor : EnterAssign(n)
  BY <1>1, EnterAssignNeat
<1>2. CASE \E n \in Tensor : visit_IndexedTensor(n)
  BY <1>2, VisitTensorNeat
<1>3. CASE \E n \in Arities, fuse \in BOOLEAN : generic_visit(n, fuse)
  BY <1>3, VisitNodeNeat
<1>4. CASE \E n \in AddendCounts : \E convs \in [1 .. n -> AddendOrders] : visit_Add(convs)
  BY <1>4, VisitAddNeat
<1>5. CASE \E s \in ScalarValues : visit_ScalarMultiplication(s)
  BY <1>5, VisitScalarNeat
<1>6. CASE \E conv \in TargetOrders : LeaveAssign(conv)
  BY <1>6, LeaveAssignNeat
<1>7. CASE UNCHANGED lvars
  <2>1. UNCHANGED <<cfg, stack, writable, target, simpleMemoryLayout>>
    BY <1>7 DEF lvars
  <2>2. Neat(cfg, PendingNames(stack), UnscaledNames(stack))'
    BY <2>1 DEF NInv, Neat, Full
  <2>3. \A v \in Pending(stack') : Full(v)'
    BY <2>1 DEF NInv, Full
  <2>4. Visible(cfg, PendingNames(stack))'
    BY <2>1 DEF NInv
  <2> QED BY <2>1, <2>2, <2>3, <2>4 DEF NInv
<1> QED BY <1>1, <1>2, <1>3, <1>4, <1>5, <1>6, <1>7 DEF LNext
=============================================================================
