------------------------- MODULE KernelPipelineProofs -------------------------
(***************************************************************************)
(* Proofs about the passes (Transformer), for kernels of any size; about   *)
(* the assignment of buffers (DetermineLocalInitialization), for programs  *)
(* of any length over any number of variables and for every order in which *)
(* the dying locals are freed; about the backward walk that it starts from *)
(* (LivenessAnalysis); and about the whole way from the kernel to the      *)
(* emitted code (KernelPipeline).                                          *)
(***************************************************************************)
EXTENDS KernelPipeline, LivenessAnalysis, AST2ControlFlowProofs

-----------------------------------------------------------------------------
(* What the passes do to one action, and to the list *)

LEMMA RemoveAtOk ==
  ASSUME NEW S, NEW s \in Seq(S), NEW k \in 1 .. Len(s)
  PROVE  /\ RemoveAt(s, k) \in Seq(S)
         /\ Len(RemoveAt(s, k)) = Len(s) - 1
         /\ \A j \in 1 .. k - 1 : RemoveAt(s, k)[j] = s[j]
         /\ \A j \in k .. Len(s) - 1 : RemoveAt(s, k)[j] = s[j + 1]
<1> DEFINE n == Len(s)
           u == SubSeq(s, 1, k - 1)
           w == SubSeq(s, k + 1, n)
<1>1. n \in Nat /\ k \in Nat /\ k >= 1 /\ k <= n
  OBVIOUS
<1>2. u \in Seq(S) /\ Len(u) = k - 1 /\ \A j \in 1 .. k - 1 : u[j] = s[j]
  BY <1>1
<1>3. w \in Seq(S) /\ Len(w) = n - k /\ \A j \in 1 .. n - k : w[j] = s[k + j]
  BY <1>1
<1> HIDE DEF u, w
<1>4. /\ u \o w \in Seq(S) /\ Len(u \o w) = n - 1
      /\ \A j \in 1 .. k - 1 : (u \o w)[j] = u[j]
      /\ \A j \in k .. n - 1 : (u \o w)[j] = w[j - (k - 1)]
  BY <1>1, <1>2, <1>3
<1>5. \A j \in k .. n - 1 : (u \o w)[j] = s[j + 1]
  <2> TAKE j \in k .. n - 1
  <2>1. j - (k - 1) \in 1 .. n - k /\ k + (j - (k - 1)) = j + 1
    BY <1>1
  <2> QED BY <1>3, <1>4, <2>1
<1>6. RemoveAt(s, k) = u \o w
  BY DEF RemoveAt, u, w
<1> QED BY <1>2, <1>4, <1>5, <1>6

\* The result, and all operands or none, are replaced.
SubstitutionOk(a, b, when, by, inTerm) ==
  /\ b \in Actions
  /\ b.add = a.add /\ b.scalar = a.scalar /\ b.term.op = a.term.op
  /\ b.result = Substituted(a.result, when, by)
  /\ Def(b) = ren(Def(a), when.name, by.name)
  /\ Len(b.term.args) = Len(a.term.args)
  /\ \A v \in occurrences(b) : v \in occurrences(a) \/ v = by
  /\ ~ inTerm => \A n : n \in TermNames(b.term) <=> n \in TermNames(a.term)
  /\ inTerm => Renamed(a, b, when.name, by.name)

LEMMA SubstitutedOk ==
  ASSUME NEW a \in Actions, NEW when \in Variables, NEW by \in Variables,
         NEW inTerm \in BOOLEAN, isRHSVariable(a) => Len(a.term.args) = 1
  PROVE  SubstitutionOk(a, ActionSubstituted(a, when, by, TRUE, inTerm), when, by, inTerm)
<1> DEFINE b    == ActionSubstituted(a, when, by, TRUE, inTerm)
           args == [k \in DOMAIN a.term.args |-> Substituted(a.term.args[k], when, by)]
<1>1. /\ a.result \in Variables /\ a.term \in Terms /\ a.term.args \in Seq(Variables)
      /\ a.term.spp \in SUBSET Cells
      /\ DOMAIN a = {"result", "term", "add", "scalar"}
      /\ DOMAIN a.term = {"op", "args", "spp", "fuse"}
  BY DEF Actions, Terms
<1>2. /\ b.add = a.add /\ b.scalar = a.scalar
      /\ b.result = Substituted(a.result, when, by)
      /\ b.term = IF inTerm THEN TermSubstituted(a.term, when, by) ELSE a.term
  BY DEF ActionSubstituted, Actions
<1>3. /\ \A v \in Variables : Substituted(v, when, by) \in Variables
      /\ \A v : Substituted(v, when, by) \in {v, by}
      /\ \A v : Substituted(v, when, by).name = ren(v.name, when.name, by.name)
  BY DEF Substituted, ren
<1>4. /\ args \in Seq(Variables) /\ Len(args) = Len(a.term.args)
      /\ DOMAIN args = DOMAIN a.term.args
      /\ \A k \in DOMAIN a.term.args : args[k] = Substituted(a.term.args[k], when, by)
  <2>1. Len(a.term.args) \in Nat /\ DOMAIN a.term.args = 1 .. Len(a.term.args)
    BY <1>1
  <2>2. \A k \in DOMAIN a.term.args : Substituted(a.term.args[k], when, by) \in Variables
    BY <1>1, <1>3
  <2> QED BY <2>1, <2>2
<1> HIDE DEF b
<1>5. CASE inTerm
  <2> DEFINE t == TermSubstituted(a.term, when, by)
  <2>1. b.term = t
    BY <1>2, <1>5
  <2>2. /\ t.op = a.term.op /\ t.args = args /\ t.fuse = a.term.fuse
        /\ t.spp = IF a.term.op = "Variable" THEN args[1].spp ELSE a.term.spp
    BY DEF TermSubstituted, Terms, Actions
  <2> HIDE DEF args
  <2>3. t.spp \in SUBSET Cells
    <3>1. CASE a.term.op = "Variable"
      <4>1. Len(args) = 1
        BY <1>4, <3>1 DEF isRHSVariable
      <4>2. args[1] \in Variables
        BY <1>4, <4>1
      <4> QED BY <2>2, <3>1, <4>2 DEF Variables
    <3>2. CASE a.term.op # "Variable"
      BY <1>1, <2>2, <3>2
    <3> QED BY <3>1, <3>2
  <2>4. t \in Terms
    <3> DEFINE u == [a.term EXCEPT !.args = args, !.spp = t.spp]
    <3>1. u \in Terms
      <4> HIDE DEF t
      <4> QED BY <1>1, <1>4, <2>3 DEF Terms
    <3>2. t = u
      BY <2>2 DEF TermSubstituted, args
    <3> QED BY <3>1, <3>2
  <2> HIDE DEF t
  <2>5. b \in Actions
    <3>1. [a EXCEPT !.result = b.result, !.term = t] \in Actions
      BY <1>1, <1>2, <1>3, <2>4 DEF Actions
    <3>2. b = [a EXCEPT !.result = b.result, !.term = t]
      BY <1>2, <1>5, <2>1 DEF b, ActionSubstituted
    <3> QED BY <3>1, <3>2
  <2>6. TermNames(b.term) = {ren(n, when.name, by.name) : n \in TermNames(a.term)}
    BY <1>3, <1>4, <2>1, <2>2 DEF TermNames
  <2>7. Def(b) = ren(Def(a), when.name, by.name)
    BY <1>2, <1>3 DEF Def
  <2>8. \A v \in occurrences(b) : v \in occurrences(a) \/ v = by
    BY <1>2, <1>3, <1>4, <2>1, <2>2 DEF occurrences
  <2>9. Renamed(a, b, when.name, by.name)
    BY <1>2, <2>6, <2>7 DEF Renamed, OperandsRenamed
  <2> QED BY <1>2, <1>4, <1>5, <2>1, <2>2, <2>5, <2>7, <2>8, <2>9 DEF b, SubstitutionOk
<1>6. CASE ~ inTerm
  <2>1. b.term = a.term
    BY <1>2, <1>6
  <2>2. b \in Actions
    <3>1. [a EXCEPT !.result = b.result, !.term = a.term] \in Actions
      BY <1>1, <1>2, <1>3 DEF Actions
    <3>2. b = [a EXCEPT !.result = b.result, !.term = a.term]
      BY <1>2, <1>6, <2>1 DEF b, ActionSubstituted
    <3> QED BY <3>1, <3>2
  <2>3. Def(b) = ren(Def(a), when.name, by.name)
    BY <1>2, <1>3 DEF Def
  <2>4. \A v \in occurrences(b) : v \in occurrences(a) \/ v = by
    BY <1>2, <1>3, <2>1 DEF occurrences
  <2> QED BY <1>2, <1>6, <2>1, <2>2, <2>3, <2>4 DEF b, SubstitutionOk
<1> QED BY <1>5, <1>6

\* What maySubstitute() allows leaves a statement that is well placed.
LEMMA SubstitutedPlaced ==
  ASSUME NEW a \in Actions, NEW when \in Variables, NEW by \in Variables,
         NEW inTerm \in BOOLEAN,
         MaySubstitute(a, when, by, TRUE, inTerm),
         inTerm \/ WellPlaced(a),
         \A v \in occurrences(ActionSubstituted(a, when, by, TRUE, inTerm)) :
           isCompatible(v.lay, v.spp)
  PROVE  WellPlaced(ActionSubstituted(a, when, by, TRUE, inTerm))
<1> DEFINE b == ActionSubstituted(a, when, by, TRUE, inTerm)
           t == IF inTerm THEN TermSubstituted(a.term, when, by) ELSE a.term
<1>1. b.term = t /\ b.result = Substituted(a.result, when, by)
  BY DEF ActionSubstituted, Actions
<1>2. resultCompatible(b.term, b.result)
  BY <1>1 DEF MaySubstitute
<1>3. \A k \in DOMAIN b.term.args : isCompatible(b.term.args[k].lay, b.term.args[k].spp)
  BY DEF occurrences
<1>4. b.term.fuse => \A k \in DOMAIN b.term.args : b.term.args[k].lay.fuse
  <2>1. CASE inTerm
    <3>1. TermMaySubstitute(a.term, when, by) /\ t.fuse = a.term.fuse
          /\ t = TermSubstituted(a.term, when, by)
      BY <2>1 DEF MaySubstitute, TermSubstituted, Actions, Terms
    <3> QED BY <1>1, <3>1 DEF TermMaySubstitute
  <2>2. CASE ~ inTerm
    BY <1>1, <2>2 DEF WellPlaced
  <2> QED BY <2>1, <2>2
<1> QED BY <1>2, <1>3, <1>4 DEF WellPlaced

-----------------------------------------------------------------------------
(* The passes keep a program sound *)

Sound(prog) ==
  /\ Base(prog)
  /\ \A k \in 1 .. Len(prog) : NoAliasing(prog[k])

LEMMA PlainSound == ASSUME NEW prog, Plain(prog) PROVE Sound(prog)
BY DEF Plain, Sound, Base, NoSelf, TemporaryExpressions, NoAliasing

\* No occurrence is new.
LEMMA OldOccurrences ==
  ASSUME NEW prog, NEW new,
         \A j \in 1 .. Len(new) : \A v \in occurrences(new[j]) :
           \E l \in 1 .. Len(prog) : v \in occurrences(prog[l])
  PROVE  /\ Fit(prog) => Fit(new)
         /\ OneShape(prog) => OneShape(new)
<1>1. Fit(prog) => Fit(new)
  BY DEF Fit
<1>2. OneShape(prog) => OneShape(new)
  <2> SUFFICES ASSUME OneShape(prog), NEW j \in 1 .. Len(new), NEW l \in 1 .. Len(new),
                      NEW v \in occurrences(new[j]), NEW w \in occurrences(new[l]),
                      v.name = w.name, isLocal(v.name)
               PROVE  v = w
    BY DEF OneShape
  <2>1. PICK p \in 1 .. Len(prog) : v \in occurrences(prog[p])
    OBVIOUS
  <2>2. PICK q \in 1 .. Len(prog) : w \in occurrences(prog[q])
    OBVIOUS
  <2> QED BY <2>1, <2>2 DEF OneShape
<1> QED BY <1>1, <1>2

\* new is prog with b in the place of action k and without action found.
MergedInto(prog, new, k, found, b) ==
  /\ new \in Seq(Actions) /\ Len(new) = Len(prog) - 1 /\ k \in 1 .. Len(new)
  /\ new[k] = b
  /\ \A j \in 1 .. found - 1 : j # k => new[j] = prog[j]
  /\ \A j \in found .. Len(prog) - 1 : new[j] = prog[j + 1]
  /\ \A j \in 1 .. Len(new) :
       j = k \/ \E l \in 1 .. Len(prog) : l # k /\ l # found /\ new[j] = prog[l]

\* An action is merged into an earlier one.
LEMMA MergedList ==
  ASSUME NEW prog \in Seq(Actions), NEW k \in 1 .. Len(prog), NEW found \in k + 1 .. Len(prog),
         NEW b \in Actions
  PROVE  MergedInto(prog, RemoveAt(Replace(prog, k, b), found), k, found, b)
<1> DEFINE mid == Replace(prog, k, b)
           n   == Len(prog)
           new == RemoveAt(mid, found)
<1>1. n \in Nat /\ found \in 1 .. n /\ k < found /\ k \in Nat
  OBVIOUS
<1>2. /\ mid \in Seq(Actions) /\ Len(mid) = n /\ mid[k] = b
      /\ \A j \in 1 .. n : j # k => mid[j] = prog[j]
  BY DEF Replace
<1> HIDE DEF mid
<1>3. /\ new \in Seq(Actions) /\ Len(new) = Len(mid) - 1
      /\ \A j \in 1 .. found - 1 : new[j] = mid[j]
      /\ \A j \in found .. Len(mid) - 1 : new[j] = mid[j + 1]
  <2>1. mid \in Seq(Actions) /\ found \in 1 .. Len(mid)
    BY <1>1, <1>2
  <2> QED BY <2>1, RemoveAtOk
<1> HIDE DEF new
<1>4. \A j \in 1 .. found - 1 : j # k => new[j] = prog[j]
  BY <1>1, <1>2, <1>3
<1>5. \A j \in found .. n - 1 : new[j] = prog[j + 1]
  BY <1>1, <1>2, <1>3
<1>6. new[k] = b /\ k \in 1 .. Len(new)
  BY <1>1, <1>2, <1>3
<1>7. ASSUME NEW j \in 1 .. Len(new), j # k
      PROVE  \E l \in 1 .. n : l # k /\ l # found /\ new[j] = prog[l]
  <2>1. CASE j < found
    <3>1. j \in 1 .. n /\ j # found /\ j \in 1 .. found - 1
      BY <1>1, <1>2, <1>3, <2>1
    <3> QED BY <1>4, <1>7, <3>1
  <2>2. CASE j >= found
    <3>1. j \in found .. n - 1 /\ j + 1 \in 1 .. n /\ j + 1 # k /\ j + 1 # found
      BY <1>1, <1>2, <1>3, <2>2
    <3> QED BY <1>5, <3>1
  <2> QED BY <1>1, <2>1, <2>2
<1> QED BY <1>1, <1>2, <1>3, <1>4, <1>5, <1>6, <1>7 DEF MergedInto, new, mid

LEMMA MergeScalarOk ==
  ASSUME NEW prog, Plain(prog), NEW k \in 2 .. Len(prog), MergesScalar(prog[k], prog[k - 1])
  PROVE  LET new == RemoveAt(Replace(prog, k - 1,
                      [prog[k - 1] EXCEPT !.scalar = prog[k].scalar, !.result = prog[k].result]), k)
         IN  /\ Plain(new)
             /\ Written(new) \subseteq Written(prog)
             /\ Placed(prog) => Placed(new)
<1> DEFINE m  == k - 1
           ua == prog[k]
           va == prog[m]
           b  == [va EXCEPT !.scalar = ua.scalar, !.result = ua.result]
           t  == Def(va)
           x  == Def(ua)
           n  == Len(prog)
           new == RemoveAt(Replace(prog, m, b), k)
<1>1. /\ prog \in Seq(Actions) /\ n \in Nat /\ m \in 1 .. n /\ k \in m + 1 .. n /\ k \in 1 .. n
      /\ m # k
  BY DEF Plain, Base
<1>2. ua \in Actions /\ va \in Actions
  BY <1>1
<1>21. \A j \in m + 1 .. k - 1 : FALSE
  BY <1>1
<1>3. /\ isRHSVariable(ua) /\ ~ isCompound(ua) /\ ua.scalar # NoScalar
      /\ isRHSExpression(va) /\ ~ isCompound(va) /\ rhs(ua).name = t
  BY DEF MergesScalar
<1> HIDE DEF ua, va, m
<1>4. /\ b \in Actions /\ b.result = ua.result /\ b.term = va.term /\ b.add = va.add
      /\ b.scalar = ua.scalar /\ Def(b) = x
  BY <1>2 DEF Actions, Def
<1> HIDE DEF b
<1>5. Len(ua.term.args) = 1 /\ TermNames(ua.term) = {t}
  <2>1. Len(ua.term.args) = 1
    BY <1>1, <1>3 DEF Plain, Base, OneOperand, ua
  <2>2. ua.term.args \in Seq(Variables)
    BY <1>2 DEF Actions, Terms
  <2>3. DOMAIN ua.term.args = {1}
    BY <2>1, <2>2
  <2> QED BY <1>3, <2>1, <2>3 DEF TermNames, rhs
<1>6. isLocal(x) /\ isLocal(t)
  BY <1>1, <1>3 DEF Plain, ScalarStatements, ScalarStatement, TemporaryExpressions, ua, va
<1>7. rhs(ua) = va.result
  <2>1. rhs(ua) \in occurrences(ua) /\ va.result \in occurrences(va)
    <3>1. ua.term.args \in Seq(Variables)
      BY <1>2 DEF Actions, Terms
    <3>2. 1 \in DOMAIN ua.term.args
      BY <1>5, <3>1
    <3> QED BY <3>2 DEF occurrences, rhs
  <2>2. rhs(ua).name = va.result.name
    BY <1>3 DEF Def
  <2>3. isLocal(rhs(ua).name)
    BY <1>3, <1>6
  <2> QED BY <1>1, <2>1, <2>2, <2>3 DEF Plain, OneShape, ua, va
<1>8. ua.result.lay = va.result.lay
  BY <1>1, <1>3, <1>6, <1>7 DEF Plain, ScalarStatements, ScalarStatement, ua
<1>9. x # t /\ x \notin TermNames(va.term)
  <2>1. x # t
    BY <1>1, <1>5, <1>6 DEF Plain, NoSelf, ua
  <2>2. ASSUME x \in TermNames(va.term) PROVE FALSE
    <3>1. x \notin occurring(ua)
      BY <1>1, <1>6, <2>1, <2>2 DEF Plain, Base, Flow, ConsumedLast, ua, va
    <3> QED BY <3>1 DEF occurring
  <2> QED BY <2>1, <2>2
<1>10. /\ new \in Seq(Actions) /\ Len(new) = Len(prog) - 1 /\ m \in 1 .. Len(new)
       /\ new[m] = b
       /\ \A j \in 1 .. k - 1 : j # m => new[j] = prog[j]
       /\ \A j \in k .. Len(prog) - 1 : new[j] = prog[j + 1]
       /\ \A j \in 1 .. Len(new) :
            j = m \/ \E l \in 1 .. Len(prog) : l # m /\ l # k /\ new[j] = prog[l]
  <2>1. prog \in Seq(Actions) /\ m \in 1 .. Len(prog) /\ k \in m + 1 .. Len(prog) /\ b \in Actions
    BY <1>1, <1>4
  <2>2. MergedInto(prog, new, m, k, b)
    BY <2>1, MergedList
  <2> HIDE DEF new
  <2> QED BY <2>2 DEF MergedInto
<1> HIDE DEF new
<1>11. Flow(new)
  <2>1. Def(prog[m]) = t /\ ~ isCompound(prog[m]) /\ Def(prog[k]) = x /\ TermNames(prog[k].term) = {t}
    BY <1>3, <1>5 DEF ua, va
  <2>2. x \notin variables(prog[m])
    BY <1>2, <1>3, <1>9, OccurringNames DEF va
  <2>3. \A j \in m + 1 .. k - 1 : x \notin occurring(prog[j]) /\ t \notin occurring(prog[j])
    BY <1>21
  <2>4. new[m].add = prog[k].add
    BY <1>3, <1>4, <1>10, <1>2 DEF ua, va, isCompound, Actions
  <2>5. TermNames(new[m].term) = TermNames(prog[m].term) /\ Def(new[m]) = x
    BY <1>4, <1>10 DEF va
  <2>6. Flow(prog)
    BY DEF Plain, Base
  <2> HIDE DEF x, t
  <2> QED BY <1>1, <1>10, <2>1, <2>2, <2>3, <2>4, <2>5, <2>6, FlowMerge
<1>12. \A j \in 1 .. Len(new) : \A v \in occurrences(new[j]) :
           \E l \in 1 .. Len(prog) : v \in occurrences(prog[l])
  <2>1. \A v \in occurrences(b) : v \in occurrences(va) \/ v \in occurrences(ua)
    BY <1>4 DEF occurrences
  <2> QED BY <1>1, <1>10, <2>1 DEF ua, va
<1>13. Fit(new) /\ OneShape(new)
  BY <1>12, OldOccurrences DEF Plain, Base
<1>14. isRHSExpression(b) /\ ~ isRHSVariable(b) /\ ~ isCompound(b) /\ isLocal(Def(b))
       /\ Def(b) \notin TermNames(b.term)
  BY <1>3, <1>4, <1>6, <1>9 DEF isRHSExpression, isRHSVariable, isCompound
<1>15. OneOperand(new)
  BY <1>10, <1>14 DEF Plain, Base, OneOperand
<1>16. NoSelf(new) /\ PlainExpressions(new) /\ TemporaryExpressions(new)
  BY <1>10, <1>14 DEF Plain, NoSelf, PlainExpressions, TemporaryExpressions
<1>17. ScalarStatements(new)
  BY <1>10, <1>14 DEF Plain, ScalarStatements, ScalarStatement
<1>18. Plain(new)
  BY <1>10, <1>11, <1>13, <1>15, <1>16, <1>17 DEF Plain, Base
<1>19. Written(new) \subseteq Written(prog)
  BY <1>6, <1>10, <1>4 DEF Written, isLocal
<1>20. Placed(prog) => Placed(new)
  <2> SUFFICES ASSUME Placed(prog) PROVE Placed(new)
    OBVIOUS
  <2>1. WellPlaced(va)
    BY <1>1 DEF Placed, va
  <2>2. WellPlaced(b)
    BY <1>4, <1>8, <2>1 DEF WellPlaced, resultCompatible
  <2> QED BY <1>10, <2>2 DEF Placed
<1> QED BY <1>18, <1>19, <1>20 DEF new, b, ua, va, m

\* Statements of prog are substituted, as a whole or in their result.
SubstitutedAction(a, b, when, by) ==
  \/ b = a
  \/ b = ActionSubstituted(a, when, by, TRUE, TRUE)
  \/ b = ActionSubstituted(a, when, by, TRUE, FALSE)
SubstitutedList(prog, new, when, by) ==
  /\ new = [j \in 1 .. Len(prog) |-> new[j]]
  /\ \A j \in 1 .. Len(prog) : SubstitutedAction(prog[j], new[j], when, by)

LEMMA SubstitutedActionOk ==
  ASSUME NEW a \in Actions, NEW when \in Variables, NEW by \in Variables,
         isRHSVariable(a) => Len(a.term.args) = 1, NEW b, SubstitutedAction(a, b, when, by)
  PROVE  /\ b \in Actions
         /\ b.add = a.add /\ b.term.op = a.term.op
         /\ Len(b.term.args) = Len(a.term.args)
         /\ \A v \in occurrences(b) : v \in occurrences(a) \/ v = by
         /\ Def(b) = Def(a) \/ Def(b) = by.name
<1>1. CASE b = a
  BY <1>1
<1>2. CASE b = ActionSubstituted(a, when, by, TRUE, TRUE)
  <2>1. /\ b \in Actions
        /\ b.add = a.add /\ b.term.op = a.term.op
        /\ Len(b.term.args) = Len(a.term.args)
        /\ \A v \in occurrences(b) : v \in occurrences(a) \/ v = by
        /\ Def(b) = ren(Def(a), when.name, by.name)
    <3> DEFINE c == ActionSubstituted(a, when, by, TRUE, TRUE)
    <3>1. TRUE \in BOOLEAN
      OBVIOUS
    <3>2. SubstitutionOk(a, c, when, by, TRUE)
      BY <3>1, SubstitutedOk
    <3> HIDE DEF c
    <3>3. b = c
      BY <1>2 DEF c
    <3> QED BY <3>2, <3>3 DEF SubstitutionOk
  <2> QED BY <2>1 DEF ren
<1>3. CASE b = ActionSubstituted(a, when, by, TRUE, FALSE)
  <2>1. /\ b \in Actions
        /\ b.add = a.add /\ b.term.op = a.term.op
        /\ Len(b.term.args) = Len(a.term.args)
        /\ \A v \in occurrences(b) : v \in occurrences(a) \/ v = by
        /\ Def(b) = ren(Def(a), when.name, by.name)
    <3> DEFINE c == ActionSubstituted(a, when, by, TRUE, FALSE)
    <3>1. FALSE \in BOOLEAN
      OBVIOUS
    <3>2. SubstitutionOk(a, c, when, by, FALSE)
      BY <3>1, SubstitutedOk
    <3> HIDE DEF c
    <3>3. b = c
      BY <1>3 DEF c
    <3> QED BY <3>2, <3>3 DEF SubstitutionOk
  <2> QED BY <2>1 DEF ren
<1> QED BY <1>1, <1>2, <1>3 DEF SubstitutedAction

LEMMA SubstitutedListOk ==
  ASSUME NEW prog, Base(prog), NEW new, NEW when \in Variables,
         NEW p \in 1 .. Len(prog), NEW by \in occurrences(prog[p]),
         SubstitutedList(prog, new, when, by)
  PROVE  /\ new \in Seq(Actions) /\ Len(new) = Len(prog)
         /\ OneOperand(new) /\ Fit(new)
         /\ PlainExpressions(prog) => PlainExpressions(new)
         /\ \A n \in Written(new) : n \in Written(prog) \/ n = by.name
<1> DEFINE n == Len(prog)
<1>1. prog \in Seq(Actions) /\ n \in Nat /\ prog[p] \in Actions
  BY DEF Base
<1>2. by \in Variables
  BY <1>1, OccurringNames
<1>3. ASSUME NEW j \in 1 .. n
      PROVE  /\ new[j] \in Actions
             /\ new[j].add = prog[j].add /\ new[j].term.op = prog[j].term.op
             /\ Len(new[j].term.args) = Len(prog[j].term.args)
             /\ \A v \in occurrences(new[j]) : v \in occurrences(prog[j]) \/ v = by
             /\ Def(new[j]) = Def(prog[j]) \/ Def(new[j]) = by.name
  <2> DEFINE a == prog[j]
             b == new[j]
  <2>1. /\ a \in Actions /\ (isRHSVariable(a) => Len(a.term.args) = 1)
        /\ SubstitutedAction(a, b, when, by)
    BY <1>1 DEF Base, OneOperand, SubstitutedList
  <2> HIDE DEF a, b
  <2>2. /\ b \in Actions
        /\ b.add = a.add /\ b.term.op = a.term.op
        /\ Len(b.term.args) = Len(a.term.args)
        /\ \A v \in occurrences(b) : v \in occurrences(a) \/ v = by
        /\ Def(b) = Def(a) \/ Def(b) = by.name
    BY <1>2, <2>1, SubstitutedActionOk
  <2> QED BY <2>2 DEF a, b
<1>4. new \in Seq(Actions) /\ Len(new) = n
  <2>1. new = [j \in 1 .. n |-> new[j]]
    BY DEF SubstitutedList
  <2>2. new \in [1 .. n -> Actions]
    BY <1>3, <2>1
  <2> QED BY <1>1, <2>2
<1>5. OneOperand(new)
  BY <1>3, <1>4 DEF Base, OneOperand, isRHSVariable
<1>6. PlainExpressions(prog) => PlainExpressions(new)
  BY <1>3, <1>4 DEF PlainExpressions, isRHSVariable, isRHSExpression, isCompound
<1>7. Fit(new)
  <2>1. \A j \in 1 .. Len(new) : \A v \in occurrences(new[j]) :
           \E l \in 1 .. Len(prog) : v \in occurrences(prog[l])
    BY <1>3, <1>4
  <2> QED BY <2>1, OldOccurrences DEF Base
<1>8. \A m \in Written(new) : m \in Written(prog) \/ m = by.name
  BY <1>3, <1>4 DEF Written
<1> QED BY <1>4, <1>5, <1>6, <1>7, <1>8

\* A name that a statement both writes and reads after its variables were
\* renamed was written and read before, or results from t and x becoming one.
LEMMA RenamedAliasing ==
  ASSUME NEW a, NEW b, NEW t, NEW x, Renamed(a, b, t, x), NoAliasing(a), b.term.op = a.term.op,
         ~ NoAliasing(b)
  PROVE  /\ isRHSExpression(a)
         /\ \/ Def(a) = t /\ t \notin TermNames(a.term)
            \/ Def(a) = x /\ t \in TermNames(a.term) /\ x # t
<1>1. /\ Def(b) = ren(Def(a), t, x)
      /\ \A n : n \in TermNames(b.term) <=> \E m \in TermNames(a.term) : n = ren(m, t, x)
  BY DEF Renamed, OperandsRenamed
<1>2. isRHSExpression(a) /\ Def(b) \in TermNames(b.term) /\ Def(a) \notin TermNames(a.term)
  BY DEF NoAliasing, isRHSExpression, isRHSVariable
<1>3. PICK m \in TermNames(a.term) : ren(Def(a), t, x) = ren(m, t, x)
  BY <1>1, <1>2
<1>4. m # Def(a)
  BY <1>2
<1> QED BY <1>2, <1>3, <1>4 DEF ren

LEMMA ForwardOk ==
  ASSUME NEW prog, Sound(prog), PlainExpressions(prog), TemporaryExpressions(prog),
         NEW k \in 1 .. Len(prog),
         ~ isCompound(prog[k]), isRHSVariable(prog[k]), isLocal(Def(prog[k])),
         rhs(prog[k]).name \notin UpwardExposed(prog, k + 1),
         \A j \in k .. Len(prog) :
           MaySubstitute(prog[j], prog[k].result, rhs(prog[k]), TRUE, TRUE)
  PROVE  LET new == SubstitutedAt(prog, k .. Len(prog), prog[k].result, rhs(prog[k]))
         IN  /\ Sound(new) /\ PlainExpressions(new) /\ TemporaryExpressions(new)
             /\ \A n \in Written(new) : n \in Written(prog) \/ n = rhs(prog[k]).name
             /\ Placed(new) \/ ~ Placed(prog)
<1> DEFINE ua   == prog[k]
           when == ua.result
           by   == rhs(ua)
           t    == when.name
           x    == by.name
           n    == Len(prog)
           new  == SubstitutedAt(prog, k .. n, when, by)
<1>1. prog \in Seq(Actions) /\ n \in Nat /\ ua \in Actions /\ Base(prog) /\ Flow(prog)
  BY DEF Sound, Base
<1>2. Len(ua.term.args) = 1 /\ TermNames(ua.term) = {x} /\ by \in occurrences(ua)
  <2>1. Len(ua.term.args) = 1
    BY <1>1 DEF Base, OneOperand
  <2>2. ua.term.args \in Seq(Variables)
    BY <1>1 DEF Actions, Terms
  <2>3. DOMAIN ua.term.args = {1}
    BY <2>1, <2>2
  <2> QED BY <2>1, <2>3 DEF TermNames, rhs, occurrences
<1>3. when \in Variables /\ by \in Variables /\ Def(ua) = t /\ isLocal(t)
  BY <1>1, <1>2, OccurringNames DEF Def
<1>4. /\ DOMAIN prog = 1 .. n
      /\ \A j \in 1 .. k - 1 : j \in 1 .. n /\ new[j] = prog[j]
      /\ \A j \in k .. n : j \in 1 .. n /\ new[j] = ActionSubstituted(prog[j], when, by, TRUE, TRUE)
      /\ \A j \in 1 .. n : j \in 1 .. k - 1 \/ j \in k .. n
      /\ new = [j \in 1 .. n |-> new[j]]
  <2>1. DOMAIN prog = 1 .. n
    BY <1>1
  <2>2. \A j \in 1 .. n : j \in 1 .. k - 1 \/ j \in k .. n
    BY <1>1
  <2>3. \A j \in 1 .. k - 1 : j \in 1 .. n /\ j \notin k .. n
    BY <1>1
  <2>4. \A j \in k .. n : j \in 1 .. n
    BY <1>1
  <2> HIDE DEF when, by, n
  <2> QED BY <2>1, <2>2, <2>3, <2>4 DEF SubstitutedAt
<1> HIDE DEF new, when, by
<1>5. SubstitutedList(prog, new, when, by)
  BY <1>4 DEF SubstitutedList, SubstitutedAction
<1> HIDE DEF n
<1>6. /\ new \in Seq(Actions) /\ Len(new) = n
      /\ OneOperand(new) /\ Fit(new)
      /\ PlainExpressions(prog) => PlainExpressions(new)
      /\ \A m \in Written(new) : m \in Written(prog) \/ m = by.name
  <2>1. k \in 1 .. Len(prog) /\ by \in occurrences(prog[k]) /\ when \in Variables
    BY <1>2, <1>3
  <2> HIDE DEF ua
  <2> QED BY <1>1, <1>5, <2>1, SubstitutedListOk DEF n
<1>7. ASSUME NEW j \in k .. n
      PROVE  /\ Renamed(prog[j], new[j], t, x) /\ new[j].term.op = prog[j].term.op
             /\ new[j] \in Actions
  <2> DEFINE a == prog[j]
             b == ActionSubstituted(a, when, by, TRUE, TRUE)
  <2>1. a \in Actions /\ (isRHSVariable(a) => Len(a.term.args) = 1) /\ new[j] = b
    <3>1. j \in 1 .. Len(prog)
      BY <1>4 DEF n
    <3>2. new[j] = b
      BY <1>4
    <3> QED BY <1>1, <3>1, <3>2 DEF Base, OneOperand
  <2> HIDE DEF a
  <2>2. SubstitutionOk(a, b, when, by, TRUE)
    BY <1>3, <2>1, SubstitutedOk
  <2> QED BY <2>1, <2>2 DEF a, SubstitutionOk
<1>8. isLocal(x) => \A j \in k + 1 .. n : x \notin occurring(prog[j])
  <2> SUFFICES ASSUME isLocal(x), NEW j \in k + 1 .. n, x \in occurring(prog[j]) PROVE FALSE
    OBVIOUS
  <2>1. x \in occurring(prog[k])
    BY <1>2 DEF occurring, variables
  <2>2. k + 1 \in 1 .. n + 1 /\ k \in 1 .. (k + 1) - 1
    BY <1>1 DEF n
  <2>3. x \in UpwardExposed(prog, k + 1)
    BY <1>1, <2>1, <2>2, FlowExposed DEF Flow, n
  <2> QED BY <2>3 DEF by
<1>9. Flow(new)
  <2>1. CASE t # x
    <3>1. TermNames(prog[k].term) = {x} /\ Def(prog[k]) = t
      BY <1>2, <1>3
    <3> HIDE DEF t, x, ua
    <3> QED BY <1>1, <1>3, <1>4, <1>6, <1>7, <1>8, <2>1, <3>1, FlowForward DEF n
  <2>2. CASE t = x
    <3>1. \A j \in k .. n : /\ new[j].add = prog[j].add
                            /\ \A m : m \in TermNames(new[j].term) <=> m \in TermNames(prog[j].term)
                            /\ Def(new[j]) = Def(prog[j])
      BY <1>7, <2>2 DEF Renamed, OperandsRenamed, ren
    <3>2. \A j \in 1 .. n : /\ new[j].add = prog[j].add
                            /\ TermNames(new[j].term) = TermNames(prog[j].term)
                            /\ Def(new[j]) = Def(prog[j])
      BY <1>4, <3>1
    <3> QED BY <1>1, <1>6, <3>2, FlowSame DEF n
  <2> QED BY <2>1, <2>2
\* No expression after the copy computes t anew.
<1>10. ASSUME NEW j \in k .. n, isRHSExpression(prog[j]) PROVE Def(prog[j]) # t
  <2>1. j \in k + 1 .. n /\ j \in 1 .. n /\ k \in 1 .. j - 1 /\ prog[j] \in Actions
    BY <1>1, <1>10 DEF isRHSExpression, n
  <2> SUFFICES ASSUME Def(prog[j]) = t PROVE FALSE
    OBVIOUS
  <2>2. t \in occurring(prog[j]) /\ t \in occurring(prog[k])
    BY <1>3 DEF occurring
  <2>3. t \in variables(prog[j])
    BY <1>1, <1>3, <2>1, <2>2 DEF Flow, LocalsFlow, n
  <2>4. ~ isCompound(prog[j]) /\ NoAliasing(prog[j])
    BY <1>10, <2>1 DEF PlainExpressions, Sound, n
  <2> QED BY <1>10, <2>1, <2>3, <2>4, OccurringNames DEF NoAliasing
<1>11. ASSUME NEW j \in 1 .. n PROVE NoAliasing(new[j])
  <2>1. NoAliasing(prog[j])
    BY DEF Sound, n
  <2>2. CASE j \in 1 .. k - 1
    BY <1>4, <2>1, <2>2
  <2>3. CASE j \in k .. n
    <3> SUFFICES ASSUME ~ NoAliasing(new[j]) PROVE FALSE
      OBVIOUS
    <3>1. Renamed(prog[j], new[j], t, x) /\ new[j].term.op = prog[j].term.op
      BY <1>7, <2>3
    <3>2. /\ isRHSExpression(prog[j])
          /\ \/ Def(prog[j]) = t /\ t \notin TermNames(prog[j].term)
             \/ Def(prog[j]) = x /\ t \in TermNames(prog[j].term) /\ x # t
      BY <2>1, <3>1, RenamedAliasing
    <3>3. Def(prog[j]) = x
      BY <1>10, <2>3, <3>2
    <3>4. isLocal(x)
      BY <3>2, <3>3 DEF TemporaryExpressions, n
    <3>5. j \in k + 1 .. n
      BY <1>1, <2>3, <3>2 DEF isRHSExpression, n
    <3> QED BY <1>8, <3>3, <3>4, <3>5 DEF occurring
  <2> QED BY <1>4, <2>2, <2>3
<1>12. TemporaryExpressions(new)
  <2> SUFFICES ASSUME NEW j \in 1 .. n, isRHSExpression(new[j]) PROVE isLocal(Def(new[j]))
    BY <1>6 DEF TemporaryExpressions
  <2>1. CASE j \in 1 .. k - 1
    BY <1>4, <2>1 DEF TemporaryExpressions, n
  <2>2. CASE j \in k .. n
    <3>1. isRHSExpression(prog[j])
      BY <1>7, <2>2 DEF isRHSExpression, isRHSVariable
    <3>2. Def(new[j]) = Def(prog[j])
      BY <1>7, <1>10, <2>2, <3>1 DEF Renamed, ren
    <3> QED BY <3>1, <3>2 DEF TemporaryExpressions, n
  <2> QED BY <1>4, <2>1, <2>2
<1>13. Placed(prog) => Placed(new)
  <2> SUFFICES ASSUME Placed(prog), NEW j \in 1 .. n PROVE WellPlaced(new[j])
    BY <1>6 DEF Placed
  <2>1. CASE j \in 1 .. k - 1
    BY <1>4, <2>1 DEF Placed, n
  <2>2. CASE j \in k .. n
    <3> DEFINE a == prog[j]
    <3>1. a \in Actions /\ MaySubstitute(a, when, by, TRUE, TRUE)
      <4>1. j \in 1 .. Len(prog) /\ j \in k .. Len(prog)
        BY <1>4, <2>2 DEF n
      <4>2. MaySubstitute(prog[j], prog[k].result, rhs(prog[k]), TRUE, TRUE)
        BY <4>1
      <4>3. a \in Actions
        BY <1>1, <4>1
      <4>4. MaySubstitute(a, when, by, TRUE, TRUE)
        BY <4>2 DEF when, by
      <4> QED BY <4>3, <4>4
    <3>2. new[j] = ActionSubstituted(a, when, by, TRUE, TRUE)
      BY <1>4, <2>2
    <3>3. \A v \in occurrences(new[j]) : isCompatible(v.lay, v.spp)
      BY <1>6 DEF Fit
    <3> HIDE DEF a
    <3> QED BY <1>3, <3>1, <3>2, <3>3, SubstitutedPlaced
  <2> QED BY <1>4, <2>1, <2>2
<1>14. Sound(new)
  BY <1>6, <1>9, <1>11 DEF Sound, Base
<1> QED BY <1>6, <1>12, <1>13, <1>14 DEF new, when, by, n

LEMMA BackwardOk ==
  ASSUME NEW prog, Sound(prog), PlainExpressions(prog),
         NEW k \in 1 .. Len(prog), NEW found \in 1 .. k - 1,
         ~ isCompound(prog[k]), isRHSVariable(prog[k]), isLocal(rhs(prog[k]).name),
         Def(prog[k]) \notin UpwardExposed(prog, found),
         ~ isCompound(prog[found]), Def(prog[found]) = rhs(prog[k]).name,
         MaySubstitute(prog[found], prog[found].result, prog[k].result, TRUE, FALSE),
         \A j \in found + 1 .. k :
           MaySubstitute(prog[j], prog[found].result, prog[k].result, TRUE, TRUE)
  PROVE  LET new == Replace(SubstitutedAt(prog, found + 1 .. k, prog[found].result,
                                          prog[k].result),
                            found,
                            ActionSubstituted(prog[found], prog[found].result, prog[k].result,
                                              TRUE, FALSE))
         IN  /\ Sound(new) /\ PlainExpressions(new)
             /\ Written(new) \subseteq Written(prog)
             /\ Placed(new) \/ ~ Placed(prog)
<1> DEFINE ua   == prog[k]
           va   == prog[found]
           when == va.result
           by   == ua.result
           t    == when.name
           x    == by.name
           n    == Len(prog)
           b    == ActionSubstituted(va, when, by, TRUE, FALSE)
           new  == Replace(SubstitutedAt(prog, found + 1 .. k, when, by), found, b)
<1>1. /\ prog \in Seq(Actions) /\ n \in Nat /\ k \in 1 .. n /\ found \in 1 .. n
      /\ ua \in Actions /\ va \in Actions /\ Base(prog) /\ Flow(prog)
  BY DEF Sound, Base
<1>2. Len(ua.term.args) = 1 /\ TermNames(ua.term) = {t}
  <2>1. Len(ua.term.args) = 1
    BY <1>1 DEF Base, OneOperand
  <2>2. ua.term.args \in Seq(Variables)
    BY <1>1 DEF Actions, Terms
  <2>3. DOMAIN ua.term.args = {1}
    BY <2>1, <2>2
  <2> QED BY <2>1, <2>3 DEF TermNames, rhs, Def
<1>3. /\ when \in Variables /\ by \in Variables /\ Def(ua) = x /\ Def(va) = t /\ isLocal(t)
      /\ by \in occurrences(ua) /\ ~ isCompound(ua) /\ ~ isCompound(va)
      /\ isRHSVariable(ua) /\ x \notin UpwardExposed(prog, found)
      /\ t \in TermNames(ua.term)
  BY <1>1, <1>2 DEF Def, Actions, occurrences
<1>4. /\ DOMAIN prog = 1 .. n
      /\ \A j \in 1 .. found - 1 : j \in 1 .. n /\ new[j] = prog[j]
      /\ \A j \in k + 1 .. n : j \in 1 .. n /\ new[j] = prog[j]
      /\ new[found] = b
      /\ \A j \in found + 1 .. k :
           j \in 1 .. n /\ new[j] = ActionSubstituted(prog[j], when, by, TRUE, TRUE)
      /\ \A j \in 1 .. n : \/ j \in 1 .. found - 1 \/ j = found
                           \/ j \in found + 1 .. k \/ j \in k + 1 .. n
      /\ new = [j \in 1 .. n |-> new[j]]
  <2>1. DOMAIN prog = 1 .. n
    BY <1>1
  <2>2. \A j \in 1 .. n : \/ j \in 1 .. found - 1 \/ j = found
                          \/ j \in found + 1 .. k \/ j \in k + 1 .. n
    BY <1>1
  <2>3. \A j \in 1 .. found - 1 : j \in 1 .. n /\ j \notin found + 1 .. k /\ j # found
    BY <1>1
  <2>4. \A j \in found + 1 .. k : j \in 1 .. n /\ j # found
    BY <1>1
  <2>5. \A j \in k + 1 .. n : j \in 1 .. n /\ j \notin found + 1 .. k /\ j # found
    BY <1>1
  <2>6. found \in 1 .. n
    BY <1>1
  <2> HIDE DEF when, by, n, b
  <2> DEFINE mid == SubstitutedAt(prog, found + 1 .. k, when, by)
  <2>7. /\ DOMAIN mid = 1 .. n
        /\ mid = [j \in 1 .. n |-> mid[j]]
        /\ \A j \in 1 .. n : mid[j] = IF j \in found + 1 .. k
                                     THEN ActionSubstituted(prog[j], when, by, TRUE, TRUE)
                                     ELSE prog[j]
    BY <2>1 DEF SubstitutedAt
  <2> HIDE DEF mid
  <2>8. new = [mid EXCEPT ![found] = b]
    BY DEF Replace, mid
  <2>9. new = [j \in 1 .. n |-> new[j]] /\ new[found] = b
        /\ \A j \in 1 .. n : j # found => new[j] = mid[j]
    BY <2>6, <2>7, <2>8
  <2> HIDE DEF new
  <2>10. \A j \in 1 .. n : j # found => new[j] = IF j \in found + 1 .. k
                                     THEN ActionSubstituted(prog[j], when, by, TRUE, TRUE)
                                     ELSE prog[j]
    BY <2>7, <2>9
  <2> QED BY <2>1, <2>2, <2>3, <2>4, <2>5, <2>6, <2>9, <2>10
<1> HIDE DEF new, when, by
<1>5. SubstitutedList(prog, new, when, by)
  <2>1. \A j \in 1 .. n : SubstitutedAction(prog[j], new[j], when, by)
    BY <1>4 DEF SubstitutedAction
  <2> QED BY <1>4, <2>1 DEF SubstitutedList
<1> HIDE DEF n
<1>6. /\ new \in Seq(Actions) /\ Len(new) = n
      /\ OneOperand(new) /\ Fit(new)
      /\ PlainExpressions(prog) => PlainExpressions(new)
      /\ \A m \in Written(new) : m \in Written(prog) \/ m = by.name
  <2>1. k \in 1 .. Len(prog) /\ by \in occurrences(prog[k]) /\ when \in Variables
    BY <1>3
  <2> HIDE DEF ua
  <2> QED BY <1>1, <1>5, <2>1, SubstitutedListOk DEF n
<1>7. ASSUME NEW j \in found + 1 .. k
      PROVE  /\ Renamed(prog[j], new[j], t, x) /\ new[j].term.op = prog[j].term.op
             /\ new[j] \in Actions
  <2> DEFINE a == prog[j]
             c == ActionSubstituted(a, when, by, TRUE, TRUE)
  <2>1. a \in Actions /\ (isRHSVariable(a) => Len(a.term.args) = 1) /\ new[j] = c
    <3>1. j \in 1 .. Len(prog)
      BY <1>4 DEF n
    <3>2. new[j] = c
      BY <1>4
    <3> QED BY <1>1, <3>1, <3>2 DEF Base, OneOperand
  <2> HIDE DEF a
  <2>2. SubstitutionOk(a, c, when, by, TRUE)
    BY <1>3, <2>1, SubstitutedOk
  <2> QED BY <2>1, <2>2 DEF a, SubstitutionOk
<1>8. /\ new[found].add = va.add /\ TermNames(new[found].term) = TermNames(va.term)
      /\ Def(new[found]) = x /\ new[found].term.op = va.term.op
  <2>1. isRHSVariable(va) => Len(va.term.args) = 1
    BY <1>1 DEF Base, OneOperand, n
  <2> HIDE DEF va, b
  <2>2. SubstitutionOk(va, ActionSubstituted(va, when, by, TRUE, FALSE), when, by, FALSE)
    BY <1>1, <1>3, <2>1, SubstitutedOk
  <2>3. SubstitutionOk(va, new[found], when, by, FALSE)
    BY <1>4, <2>2 DEF b
  <2> QED BY <1>3, <2>3 DEF SubstitutionOk, ren
<1>9. Flow(new)
  <2>1. CASE t # x
    <3>1. /\ TermNames(prog[k].term) = {t} /\ Def(prog[k]) = x /\ ~ isCompound(prog[k])
          /\ Def(prog[found]) = t /\ ~ isCompound(prog[found])
          /\ new[found].add = prog[found].add
          /\ TermNames(new[found].term) = TermNames(prog[found].term)
      BY <1>2, <1>3, <1>8
    <3>2. /\ \A j \in 1 .. found - 1 : new[j] = prog[j]
          /\ \A j \in k + 1 .. Len(prog) : new[j] = prog[j]
          /\ \A j \in found + 1 .. k : Renamed(prog[j], new[j], t, x)
      BY <1>4, <1>7 DEF n
    <3> HIDE DEF t, x, ua, va
    <3> QED BY <1>1, <1>3, <1>6, <1>8, <2>1, <3>1, <3>2, FlowBackward DEF n
  <2>2. CASE t = x
    <3>1. \A m : ren(m, t, x) = m
      BY <2>2 DEF ren
    <3>2. ASSUME NEW j \in 1 .. n
          PROVE  /\ new[j].add = prog[j].add
                 /\ TermNames(new[j].term) = TermNames(prog[j].term)
                 /\ Def(new[j]) = Def(prog[j])
      <4>1. CASE j \in found + 1 .. k
        <5>1. Renamed(prog[j], new[j], t, x)
          BY <1>7, <4>1
        <5> HIDE DEF t, x
        <5> QED BY <3>1, <5>1 DEF Renamed, OperandsRenamed
      <4>2. CASE j = found
        BY <1>3, <1>8, <2>2, <4>2
      <4>3. CASE j \in 1 .. found - 1 \/ j \in k + 1 .. n
        BY <1>4, <4>3
      <4> QED BY <1>4, <4>1, <4>2, <4>3
    <3> QED BY <1>1, <1>6, <3>2, FlowSame DEF n
  <2> QED BY <2>1, <2>2
<1>10. NoAliasing(new[found])
  <2> SUFFICES ASSUME x \in TermNames(va.term) PROVE FALSE
    BY <1>8 DEF NoAliasing
  <2>1. x \in variables(prog[found]) /\ found \in DOMAIN prog /\ found \in found .. Len(prog)
    BY <1>1, <1>4 DEF variables, n
  <2>2. \A m \in found .. found - 1 : FALSE
    BY <1>1
  <2>3. x \in UpwardExposed(prog, found)
    BY <2>1, <2>2 DEF UpwardExposed
  <2> QED BY <1>3, <2>3
<1>11. ASSUME NEW j \in found + 1 .. k PROVE NoAliasing(new[j])
  <2> SUFFICES ASSUME ~ NoAliasing(new[j]) PROVE FALSE
    OBVIOUS
  <2>1. j \in 1 .. n /\ NoAliasing(prog[j]) /\ found \in 1 .. j - 1 /\ prog[j] \in Actions
    <3>1. j \in 1 .. n
      BY <1>4
    <3> QED BY <1>1, <3>1 DEF Sound, n
  <2>2. Renamed(prog[j], new[j], t, x) /\ new[j].term.op = prog[j].term.op
    BY <1>7
  <2>3. /\ isRHSExpression(prog[j])
        /\ \/ Def(prog[j]) = t /\ t \notin TermNames(prog[j].term)
           \/ Def(prog[j]) = x /\ t \in TermNames(prog[j].term) /\ x # t
    BY <2>1, <2>2, RenamedAliasing
  <2>4. j # k /\ k \in j + 1 .. n
    BY <1>1, <1>3, <2>1, <2>3 DEF isRHSExpression, n
  <2>5. t \in occurring(prog[found]) /\ t \in occurring(prog[k])
    BY <1>3 DEF occurring, variables
  <2>6. CASE Def(prog[j]) = t /\ t \notin TermNames(prog[j].term)
    <3>1. t \in variables(prog[j])
      BY <1>1, <1>3, <2>1, <2>5, <2>6 DEF Flow, LocalsFlow, occurring, n
    <3>2. ~ isCompound(prog[j])
      BY <2>1, <2>3 DEF PlainExpressions, n
    <3> QED BY <2>6, <3>1, <3>2 DEF variables, isCompound
  <2>7. CASE Def(prog[j]) = x /\ t \in TermNames(prog[j].term) /\ x # t
    BY <1>1, <1>3, <2>1, <2>4, <2>5, <2>7 DEF Flow, ConsumedLast, n
  <2> QED BY <2>3, <2>6, <2>7
<1>12. \A j \in 1 .. n : NoAliasing(new[j])
  <2>1. \A j \in 1 .. n : NoAliasing(prog[j])
    BY DEF Sound, n
  <2> QED BY <1>4, <1>10, <1>11, <2>1
<1>13. Sound(new)
  BY <1>6, <1>9, <1>12 DEF Sound, Base
<1>14. Written(new) \subseteq Written(prog)
  <2> SUFFICES ASSUME NEW m \in Written(new), m = x PROVE m \in Written(prog)
    BY <1>6
  <2> QED BY <1>1, <1>3 DEF Written, n
<1>15. Placed(prog) => Placed(new)
  <2> SUFFICES ASSUME Placed(prog), NEW j \in 1 .. n PROVE WellPlaced(new[j])
    BY <1>6 DEF Placed
  <2>1. WellPlaced(prog[j]) /\ \A v \in occurrences(new[j]) : isCompatible(v.lay, v.spp)
    BY <1>6 DEF Placed, Fit, n
  <2>2. CASE j = found
    <3>1. MaySubstitute(va, when, by, TRUE, FALSE)
      BY DEF when, by
    <3>2. new[j] = ActionSubstituted(va, when, by, TRUE, FALSE) /\ WellPlaced(va)
      BY <1>4, <2>1, <2>2
    <3> HIDE DEF va
    <3> QED BY <1>1, <1>3, <2>1, <3>1, <3>2, SubstitutedPlaced
  <2>3. CASE j \in found + 1 .. k
    <3> DEFINE a == prog[j]
    <3>1. a \in Actions /\ MaySubstitute(a, when, by, TRUE, TRUE)
      <4>1. MaySubstitute(prog[j], prog[found].result, prog[k].result, TRUE, TRUE)
        BY <2>3
      <4>2. a \in Actions
        BY <1>1 DEF n
      <4> QED BY <4>1, <4>2 DEF when, by
    <3>2. new[j] = ActionSubstituted(a, when, by, TRUE, TRUE)
      BY <1>4, <2>3
    <3> HIDE DEF a
    <3> QED BY <1>3, <2>1, <3>1, <3>2, SubstitutedPlaced
  <2> QED BY <1>4, <2>1, <2>2, <2>3
<1> QED BY <1>6, <1>13, <1>14, <1>15 DEF new, when, by, n, b

LEMMA RemoveOk ==
  ASSUME NEW prog, Sound(prog), NEW k \in 1 .. Len(prog), IsEmptyStatement(prog[k])
  PROVE  LET new == RemoveAt(prog, k)
         IN  /\ Sound(new)
             /\ Written(new) \subseteq Written(prog)
             /\ Placed(new) \/ ~ Placed(prog)
<1> DEFINE n   == Len(prog)
           x   == Def(prog[k])
           new == RemoveAt(prog, k)
<1>1. /\ prog \in Seq(Actions) /\ n \in Nat /\ k \in 1 .. n /\ Base(prog) /\ Flow(prog)
      /\ prog[k] \in Actions
  BY DEF Sound, Base
<1>2. TermNames(prog[k].term) = {x}
  <2>1. Len(prog[k].term.args) = 1
    BY <1>1 DEF Base, OneOperand, IsEmptyStatement
  <2>2. prog[k].term.args \in Seq(Variables)
    BY <1>1 DEF Actions, Terms
  <2>3. DOMAIN prog[k].term.args = {1}
    BY <2>1, <2>2
  <2> QED BY <2>1, <2>3 DEF TermNames, rhs, IsEmptyStatement
<1>3. /\ new \in Seq(Actions) /\ Len(new) = n - 1
      /\ \A j \in 1 .. k - 1 : new[j] = prog[j]
      /\ \A j \in k .. n - 1 : new[j] = prog[j + 1]
  BY <1>1, RemoveAtOk
<1> HIDE DEF new
<1>4. Flow(new)
  <2>1. ~ isCompound(prog[k]) /\ Def(prog[k]) = x
    BY DEF IsEmptyStatement
  <2> HIDE DEF x
  <2> QED BY <1>1, <1>2, <1>3, <2>1, FlowRemove
<1>5. \A j \in 1 .. Len(new) : \E l \in 1 .. n : new[j] = prog[l]
  <2> SUFFICES ASSUME NEW j \in 1 .. n - 1 PROVE \E l \in 1 .. n : new[j] = prog[l]
    BY <1>3
  <2>1. CASE j \in 1 .. k - 1
    <3>1. j \in 1 .. n
      BY <1>1
    <3> QED BY <1>3, <2>1, <3>1
  <2>2. CASE j \in k .. n - 1
    <3>1. j + 1 \in 1 .. n
      BY <1>1
    <3> QED BY <1>3, <2>2, <3>1
  <2> QED BY <1>1, <2>1, <2>2
<1>6. Fit(new) /\ OneOperand(new)
  BY <1>1, <1>5 DEF Base, Fit, OneOperand
<1>7. Sound(new)
  BY <1>3, <1>4, <1>5, <1>6 DEF Sound, Base
<1>8. Written(new) \subseteq Written(prog)
  BY <1>5 DEF Written
<1>9. Placed(prog) => Placed(new)
  BY <1>5 DEF Placed
<1> QED BY <1>7, <1>8, <1>9 DEF new

\* The later statement is the first that reads or assigns t.
LEMMA MergeOk ==
  ASSUME NEW prog, Sound(prog), NEW k \in 1 .. Len(prog), NEW found \in k + 1 .. Len(prog),
         ~ isCompound(prog[k]), isRHSVariable(prog[found]),
         rhs(prog[found]).name = Def(prog[k]),
         Def(prog[found]) \notin variables(prog[k]),
         \A j \in k + 1 .. found - 1 :
           /\ Def(prog[found]) \notin occurring(prog[j])
           /\ Def(prog[k]) \notin occurring(prog[j]),
         MaySubstitute(prog[k], prog[k].result, prog[found].result, TRUE, FALSE)
  PROVE  LET new == RemoveAt(Replace(prog, k, Merged(prog[k], prog[found])), found)
         IN  /\ Sound(new)
             /\ Written(new) \subseteq Written(prog)
             /\ Placed(new) \/ ~ Placed(prog)
<1> DEFINE ua  == prog[k]
           va  == prog[found]
           b   == Merged(ua, va)
           t   == Def(ua)
           x   == Def(va)
           n   == Len(prog)
           new == RemoveAt(Replace(prog, k, b), found)
<1>1. /\ prog \in Seq(Actions) /\ n \in Nat /\ k \in 1 .. n /\ found \in 1 .. n
      /\ ua \in Actions /\ va \in Actions /\ Base(prog) /\ Flow(prog)
  BY DEF Sound, Base
<1>2. TermNames(va.term) = {t}
  <2>1. Len(va.term.args) = 1
    BY <1>1 DEF Base, OneOperand
  <2>2. va.term.args \in Seq(Variables)
    BY <1>1 DEF Actions, Terms
  <2>3. DOMAIN va.term.args = {1}
    BY <2>1, <2>2
  <2> QED BY <2>1, <2>3 DEF TermNames, rhs
<1>3. /\ b \in Actions /\ b.result = va.result /\ b.term = ua.term /\ b.add = va.add
      /\ Def(b) = x
  <2>1. b = [ua EXCEPT !.result = va.result, !.add = va.add,
                       !.scalar = IF hasTrivialScalar(va) THEN @ ELSE va.scalar]
    <3> DEFINE c == ActionSubstituted(ua, ua.result, va.result, TRUE, FALSE)
    <3>1. c = [ua EXCEPT !.result = va.result]
      <4>1. c = [ua EXCEPT !.result = Substituted(@, ua.result, va.result), !.term = ua.term]
        BY DEF ActionSubstituted
      <4>2. Substituted(ua.result, ua.result, va.result) = va.result
        BY DEF Substituted
      <4> HIDE DEF ua, va, c
      <4> QED BY <1>1, <4>1, <4>2 DEF Actions
    <3> HIDE DEF c, ua, va
    <3> QED BY <1>1, <3>1 DEF Merged, c, Actions
  <2> HIDE DEF ua, va, b
  <2> QED BY <1>1, <2>1 DEF Actions, Def
<1> HIDE DEF b
<1>4. MergedInto(prog, new, k, found, b)
  BY <1>1, <1>3, MergedList
<1> HIDE DEF new
<1>5. /\ new \in Seq(Actions) /\ Len(new) = n - 1 /\ k \in 1 .. Len(new) /\ new[k] = b
      /\ \A j \in 1 .. found - 1 : j # k => new[j] = prog[j]
      /\ \A j \in found .. n - 1 : new[j] = prog[j + 1]
      /\ \A j \in 1 .. Len(new) :
           j = k \/ \E l \in 1 .. n : l # k /\ l # found /\ new[j] = prog[l]
  BY <1>4 DEF MergedInto
<1>6. Flow(new)
  <2>1. /\ Def(prog[k]) = t /\ ~ isCompound(prog[k]) /\ Def(prog[found]) = x
        /\ TermNames(prog[found].term) = {t} /\ x \notin variables(prog[k])
        /\ \A j \in k + 1 .. found - 1 : x \notin occurring(prog[j]) /\ t \notin occurring(prog[j])
    BY <1>2
  <2>2. /\ new[k].add = prog[found].add /\ TermNames(new[k].term) = TermNames(prog[k].term)
        /\ Def(new[k]) = x
    BY <1>3, <1>5
  <2> HIDE DEF x, t, ua, va
  <2> QED BY <1>1, <1>5, <2>1, <2>2, FlowMerge
<1>7. \A j \in 1 .. Len(new) : \A v \in occurrences(new[j]) :
           \E l \in 1 .. Len(prog) : v \in occurrences(prog[l])
  <2>1. \A v \in occurrences(b) : v \in occurrences(va) \/ v \in occurrences(ua)
    BY <1>3 DEF occurrences
  <2> QED BY <1>1, <1>5, <2>1
<1>8. Fit(new)
  BY <1>1, <1>7, OldOccurrences DEF Base
<1>9. OneOperand(new)
  <2>1. isRHSVariable(b) => Len(b.term.args) = 1
    BY <1>1, <1>3 DEF Base, OneOperand, isRHSVariable
  <2> QED BY <1>1, <1>5, <2>1 DEF Base, OneOperand
<1>10. \A j \in 1 .. Len(new) : NoAliasing(new[j])
  <2>1. NoAliasing(b)
    BY <1>3 DEF NoAliasing, variables
  <2> QED BY <1>5, <2>1 DEF Sound
<1>11. Sound(new)
  BY <1>5, <1>6, <1>8, <1>9, <1>10 DEF Sound, Base
<1>12. Written(new) \subseteq Written(prog)
  <2>1. \A j \in 1 .. Len(new) : \E l \in 1 .. n : Def(new[j]) = Def(prog[l])
    BY <1>1, <1>3, <1>5
  <2> QED BY <2>1 DEF Written
<1>13. Placed(prog) => Placed(new)
  <2> SUFFICES ASSUME Placed(prog) PROVE Placed(new)
    OBVIOUS
  <2>1. resultCompatible(b.term, b.result)
    BY <1>3 DEF MaySubstitute, Substituted
  <2>2. WellPlaced(ua)
    BY <1>1 DEF Placed
  <2>3. WellPlaced(b)
    BY <1>3, <2>1, <2>2 DEF WellPlaced
  <2> QED BY <1>5, <2>3 DEF Placed
<1> QED BY <1>11, <1>12, <1>13 DEF new, b

-----------------------------------------------------------------------------
(* The invariant of the passes *)

Sums == {"SubstituteForward", "SubstituteBackward"}  \* no sum is an expression yet

CodeSound ==
  /\ Sound(cfg)
  /\ Written(cfg) \subseteq writable
  /\ ~ misplaced => Placed(cfg)

TInv ==
  /\ misplaced \in BOOLEAN
  /\ phase = "Lowering" => LInv
  /\ phase # "Lowering" => CodeSound
  /\ phase = "MergeScalarMultiplications" => Plain(cfg) /\ i \in Nat /\ i >= 2
  /\ phase \in Sums => PlainExpressions(cfg)
  /\ phase = "SubstituteForward" => TemporaryExpressions(cfg)
  /\ phase \in Sums \cup {"Optimised"} => live = Liveness(cfg)

LEMMA LoweredSound == LInv => CodeSound
BY PlainSound DEF LInv, Lowerable, CodeSound

\* A step of a pass leaves what it does not change.
LEMMA PassKeeps ==
  ASSUME CodeSound, UnchangedLowering,
         Sound(cfg'), Written(cfg') \subseteq writable, Placed(cfg') \/ ~ Placed(cfg)
  PROVE  CodeSound' /\ misplaced' = misplaced
BY DEF CodeSound, UnchangedLowering

LEMMA UnchangedCode ==
  ASSUME CodeSound, UnchangedLowering, cfg' = cfg
  PROVE  CodeSound' /\ misplaced' = misplaced
BY DEF CodeSound, UnchangedLowering

LEMMA LiveSet ==
  ASSUME Sound(cfg), live = Liveness(cfg), NEW k \in 1 .. Len(cfg) + 1
  PROVE  live[k] = UpwardExposed(cfg, k)
<1>1. cfg \in Seq(Actions)
  BY DEF Sound, Base
<1> QED BY <1>1, LivenessExact

LEMMA LowerKeeps == TInv /\ Lower => TInv'
<1> SUFFICES ASSUME TInv, Lower PROVE TInv'
  OBVIOUS
<1>1. phase = "Lowering" /\ phase' = "Lowering" /\ LInv
  BY DEF Lower, TInv, tvars
<1>2. LInv'
  BY <1>1, StepLInv DEF Lower
<1>3. misplaced' \in BOOLEAN
  BY <1>2 DEF LInv
<1> QED BY <1>1, <1>2, <1>3 DEF TInv, Sums

LEMMA StartKeeps == TInv /\ StartPasses => TInv'
<1> SUFFICES ASSUME TInv, StartPasses PROVE TInv'
  OBVIOUS
<1>1. /\ LInv /\ phase' = "MergeScalarMultiplications" /\ i' = 2
      /\ UNCHANGED <<cfg, writable, misplaced>>
  BY DEF StartPasses, TInv, lvars
<1>2. CodeSound'
  BY <1>1, LoweredSound DEF CodeSound
<1>3. Plain(cfg')
  BY <1>1 DEF LInv, Lowerable
<1>4. misplaced' \in BOOLEAN
  BY <1>1 DEF LInv
<1> QED BY <1>1, <1>2, <1>3, <1>4 DEF TInv, Sums

LEMMA MergeScalarKeeps == TInv /\ MergeScalarStep => TInv'
<1> SUFFICES ASSUME TInv, MergeScalarStep PROVE TInv'
  OBVIOUS
<1>1. /\ phase = "MergeScalarMultiplications" /\ phase' = phase /\ i \in DOMAIN cfg
      /\ UnchangedLowering /\ Plain(cfg) /\ CodeSound /\ i \in Nat /\ i >= 2
      /\ misplaced \in BOOLEAN
  BY DEF MergeScalarStep, Unfinished, Advance, TInv
<1>2. cfg \in Seq(Actions) /\ i \in 2 .. Len(cfg)
  BY <1>1 DEF Plain, Base
<1>3. CASE MergesScalar(cfg[i], cfg[i - 1])
  <2> DEFINE new == RemoveAt(Replace(cfg, i - 1,
                      [cfg[i - 1] EXCEPT !.scalar = cfg[i].scalar, !.result = cfg[i].result]), i)
  <2>1. Plain(new) /\ Written(new) \subseteq Written(cfg) /\ (Placed(cfg) => Placed(new))
    BY <1>1, <1>2, <1>3, MergeScalarOk
  <2>2. cfg' = new /\ i' = i
    BY <1>3 DEF MergeScalarStep, Advance
  <2> HIDE DEF new
  <2>3. Plain(cfg') /\ Written(cfg') \subseteq writable /\ (Placed(cfg') \/ ~ Placed(cfg))
    BY <1>1, <2>1, <2>2 DEF CodeSound
  <2>4. CodeSound' /\ misplaced' = misplaced
    BY <1>1, <2>3, PlainSound, PassKeeps
  <2> QED BY <1>1, <2>2, <2>3, <2>4 DEF TInv, Sums
<1>4. CASE ~ MergesScalar(cfg[i], cfg[i - 1])
  <2>1. cfg' = cfg /\ i' = i + 1
    BY <1>4 DEF MergeScalarStep, Advance
  <2>2. CodeSound' /\ misplaced' = misplaced
    BY <1>1, <2>1, UnchangedCode
  <2>3. Plain(cfg') /\ i' \in Nat /\ i' >= 2
    BY <1>1, <2>1
  <2> QED BY <1>1, <2>2, <2>3 DEF TInv, Sums
<1> QED BY <1>3, <1>4

LEMMA AnalyseLivenessKeeps == TInv /\ AnalyseLiveness => TInv'
<1> SUFFICES ASSUME TInv, AnalyseLiveness PROVE TInv'
  OBVIOUS
<1>1. /\ phase' = "SubstituteForward" /\ cfg' = cfg /\ live' = Liveness(cfg)
      /\ UnchangedLowering /\ Plain(cfg) /\ CodeSound /\ misplaced \in BOOLEAN
  BY DEF AnalyseLiveness, TInv
<1>2. CodeSound' /\ misplaced' = misplaced
  BY <1>1, UnchangedCode
<1>3. PlainExpressions(cfg') /\ TemporaryExpressions(cfg') /\ live' = Liveness(cfg')
  BY <1>1 DEF Plain
<1> QED BY <1>1, <1>2, <1>3 DEF TInv, Sums

LEMMA ForwardKeeps == TInv /\ SubstituteForwardStep => TInv'
<1> SUFFICES ASSUME TInv, SubstituteForwardStep PROVE TInv'
  OBVIOUS
<1>1. /\ phase = "SubstituteForward" /\ phase' = phase /\ i \in DOMAIN cfg
      /\ UnchangedLowering /\ CodeSound /\ misplaced \in BOOLEAN /\ live = Liveness(cfg)
      /\ PlainExpressions(cfg) /\ TemporaryExpressions(cfg)
  BY DEF SubstituteForwardStep, Unfinished, Advance, TInv, Sums
<1>2. Sound(cfg) /\ cfg \in Seq(Actions) /\ i \in 1 .. Len(cfg) /\ i + 1 \in 1 .. Len(cfg) + 1
  BY <1>1 DEF CodeSound, Sound, Base
<1>3. CASE SubstitutesForward(i)
  <2> DEFINE new == SubstitutedAt(cfg, i .. Len(cfg), cfg[i].result, rhs(cfg[i]))
  <2>1. rhs(cfg[i]).name \notin UpwardExposed(cfg, i + 1)
    BY <1>1, <1>2, <1>3, LiveSet DEF SubstitutesForward
  <2>2. /\ ~ isCompound(cfg[i]) /\ isRHSVariable(cfg[i]) /\ isLocal(Def(cfg[i]))
        /\ \A j \in i .. Len(cfg) :
             MaySubstitute(cfg[j], cfg[i].result, rhs(cfg[i]), TRUE, TRUE)
    BY <1>3 DEF SubstitutesForward, Def
  <2>3. /\ Sound(new) /\ PlainExpressions(new) /\ TemporaryExpressions(new)
        /\ \A n \in Written(new) : n \in Written(cfg) \/ n = rhs(cfg[i]).name
        /\ Placed(new) \/ ~ Placed(cfg)
    BY <1>1, <1>2, <2>1, <2>2, ForwardOk
  <2>4. IsWritten(rhs(cfg[i]).name)
    BY <1>3 DEF SubstitutesForward
  <2>5. cfg' = new /\ live' = Liveness(cfg')
    BY <1>3 DEF SubstituteForwardStep
  <2> HIDE DEF new
  <2>6. Written(new) \subseteq writable
    <3> SUFFICES ASSUME NEW n \in Written(new) PROVE n \in writable
      OBVIOUS
    <3>1. CASE n \in Written(cfg)
      BY <1>1, <3>1 DEF CodeSound
    <3>2. CASE n = rhs(cfg[i]).name
      BY <2>4, <3>2 DEF Written, IsWritten
    <3> QED BY <2>3, <3>1, <3>2
  <2>7. CodeSound' /\ misplaced' = misplaced
    BY <1>1, <2>3, <2>5, <2>6, PassKeeps
  <2> QED BY <1>1, <2>3, <2>5, <2>7 DEF TInv, Sums
<1>4. CASE ~ SubstitutesForward(i)
  <2>1. cfg' = cfg /\ live' = live
    BY <1>4 DEF SubstituteForwardStep
  <2>2. CodeSound' /\ misplaced' = misplaced
    BY <1>1, <2>1, UnchangedCode
  <2> QED BY <1>1, <2>1, <2>2 DEF TInv, Sums
<1> QED BY <1>3, <1>4

LEMMA BackwardKeeps == TInv /\ SubstituteBackwardStep => TInv'
<1> SUFFICES ASSUME TInv, SubstituteBackwardStep PROVE TInv'
  OBVIOUS
<1>1. /\ phase = "SubstituteBackward" /\ phase' = phase /\ i \in DOMAIN cfg
      /\ UnchangedLowering /\ CodeSound /\ misplaced \in BOOLEAN /\ live = Liveness(cfg)
      /\ PlainExpressions(cfg)
  BY DEF SubstituteBackwardStep, Unfinished, Advance, TInv, Sums
<1>2. Sound(cfg) /\ cfg \in Seq(Actions) /\ i \in 1 .. Len(cfg)
  BY <1>1 DEF CodeSound, Sound, Base
<1> DEFINE found == Min(Definitions(i))
           when  == cfg[found].result
           by    == cfg[i].result
           substitutes == /\ ~ isCompound(cfg[i]) /\ isRHSVariable(cfg[i])
                          /\ isLocal(rhs(cfg[i]).name) /\ Definitions(i) # {}
                          /\ SubstitutesBackward(i, found)
           new == Replace(SubstitutedAt(cfg, found + 1 .. i, when, by), found,
                          ActionSubstituted(cfg[found], when, by, TRUE, FALSE))
<1>3. \/ substitutes /\ cfg' = new /\ live' = Liveness(cfg')
      \/ cfg' = cfg /\ live' = live
  BY DEF SubstituteBackwardStep
<1>4. CASE substitutes /\ cfg' = new /\ live' = Liveness(cfg')
  <2>1. found \in Definitions(i)
    <3>1. Definitions(i) \subseteq Nat /\ Definitions(i) # {}
      BY <1>2, <1>4 DEF Definitions
    <3>2. \E x \in Definitions(i) : \A y \in Definitions(i) : x <= y
      BY <3>1, LeastNumber
    <3> QED BY <3>2 DEF Min
  <2> HIDE DEF found
  <2>2. /\ found \in 1 .. i - 1 /\ Def(cfg[i]) \notin live[found]
        /\ ~ isCompound(cfg[found]) /\ Def(cfg[found]) = rhs(cfg[i]).name
    BY <2>1 DEF Definitions
  <2>3. found \in 1 .. Len(cfg) + 1
    BY <1>2, <2>2
  <2>4. Def(cfg[i]) \notin UpwardExposed(cfg, found)
    BY <1>1, <1>2, <2>2, <2>3, LiveSet
  <2>5. /\ MaySubstitute(cfg[found], cfg[found].result, cfg[i].result, TRUE, FALSE)
        /\ \A j \in found + 1 .. i :
             MaySubstitute(cfg[j], cfg[found].result, cfg[i].result, TRUE, TRUE)
    BY <1>4 DEF SubstitutesBackward
  <2>6. /\ Sound(new) /\ PlainExpressions(new) /\ Written(new) \subseteq Written(cfg)
        /\ Placed(new) \/ ~ Placed(cfg)
    BY <1>1, <1>2, <1>4, <2>2, <2>4, <2>5, BackwardOk
  <2> HIDE DEF new
  <2>7. CodeSound' /\ misplaced' = misplaced
    <3>1. Written(new) \subseteq writable
      BY <1>1, <2>6 DEF CodeSound
    <3> QED BY <1>1, <1>4, <2>6, <3>1, PassKeeps
  <2> QED BY <1>1, <1>4, <2>6, <2>7 DEF TInv, Sums
<1>5. CASE cfg' = cfg /\ live' = live
  <2>1. CodeSound' /\ misplaced' = misplaced
    BY <1>1, <1>5, UnchangedCode
  <2> QED BY <1>1, <1>5, <2>1 DEF TInv, Sums
<1> QED BY <1>3, <1>4, <1>5

LEMMA RemoveEmptyKeeps == TInv /\ RemoveEmptyStatementsStep => TInv'
<1> SUFFICES ASSUME TInv, RemoveEmptyStatementsStep PROVE TInv'
  OBVIOUS
<1>1. /\ phase = "RemoveEmptyStatements" /\ phase' = phase /\ i \in DOMAIN cfg
      /\ UnchangedLowering /\ CodeSound /\ misplaced \in BOOLEAN
  BY DEF RemoveEmptyStatementsStep, Unfinished, Advance, TInv, Sums
<1>2. Sound(cfg) /\ cfg \in Seq(Actions) /\ i \in 1 .. Len(cfg)
  BY <1>1 DEF CodeSound, Sound, Base
<1>3. CASE IsEmptyStatement(cfg[i])
  <2> DEFINE new == RemoveAt(cfg, i)
  <2>1. /\ Sound(new) /\ Written(new) \subseteq Written(cfg)
        /\ Placed(new) \/ ~ Placed(cfg)
    BY <1>2, <1>3, RemoveOk
  <2>2. cfg' = new
    BY <1>3 DEF RemoveEmptyStatementsStep
  <2> HIDE DEF new
  <2>3. Written(new) \subseteq writable
    BY <1>1, <2>1 DEF CodeSound
  <2>4. CodeSound' /\ misplaced' = misplaced
    BY <1>1, <2>1, <2>2, <2>3, PassKeeps
  <2> QED BY <1>1, <2>4 DEF TInv, Sums
<1>4. CASE ~ IsEmptyStatement(cfg[i])
  <2>1. cfg' = cfg
    BY <1>4 DEF RemoveEmptyStatementsStep
  <2>2. CodeSound' /\ misplaced' = misplaced
    BY <1>1, <2>1, UnchangedCode
  <2> QED BY <1>1, <2>2 DEF TInv, Sums
<1> QED BY <1>3, <1>4

LEMMA MergeActionsKeeps == TInv /\ MergeActionsStep => TInv'
<1> SUFFICES ASSUME TInv, MergeActionsStep PROVE TInv'
  OBVIOUS
<1>1. /\ phase = "MergeActions" /\ phase' = phase /\ i \in DOMAIN cfg
      /\ UnchangedLowering /\ CodeSound /\ misplaced \in BOOLEAN
  BY DEF MergeActionsStep, Unfinished, Advance, TInv, Sums
<1>2. Sound(cfg) /\ cfg \in Seq(Actions) /\ i \in 1 .. Len(cfg)
  BY <1>1 DEF CodeSound, Sound, Base
<1> DEFINE stops == {j \in i + 1 .. Len(cfg) : StopsScan(i, j)}
           found == Min(stops)
           merge == /\ ~ isCompound(cfg[i])
                    /\ stops # {}
                    /\ Merges(i, found)
                    /\ MaySubstitute(cfg[i], cfg[i].result, cfg[found].result, TRUE, FALSE)
           new == RemoveAt(Replace(cfg, i, Merged(cfg[i], cfg[found])), found)
<1>3. \/ merge /\ cfg' = new
      \/ cfg' = cfg
  BY DEF MergeActionsStep
<1>4. CASE merge /\ cfg' = new
  <2>1. found \in stops /\ \A j \in stops : found <= j
    <3>1. stops \subseteq Nat /\ stops # {}
      BY <1>2, <1>4
    <3> HIDE DEF stops
    <3>2. \E x \in stops : \A y \in stops : x <= y
      BY <3>1, LeastNumber
    <3> QED BY <3>2 DEF Min
  <2> HIDE DEF found
  <2>2. found \in i + 1 .. Len(cfg) /\ \A j \in i + 1 .. found - 1 : ~ StopsScan(i, j)
    <3>1. found \in i + 1 .. Len(cfg)
      BY <2>1
    <3>2. ASSUME NEW j \in i + 1 .. found - 1 PROVE ~ StopsScan(i, j)
      <4>1. j \in i + 1 .. Len(cfg) /\ ~ (found <= j)
        BY <1>2, <3>1
      <4> QED BY <2>1, <4>1
    <3> QED BY <3>1, <3>2
  <2>3. /\ isRHSVariable(cfg[found]) /\ rhs(cfg[found]).name = Def(cfg[i])
        /\ Def(cfg[found]) \notin TouchedBetween(i, found)
    BY <1>4 DEF Merges
  <2>4. /\ Def(cfg[found]) \notin variables(cfg[i])
        /\ \A j \in i + 1 .. found - 1 : Def(cfg[found]) \notin occurring(cfg[j])
    BY <2>3 DEF TouchedBetween, occurring
  <2>5. \A j \in i + 1 .. found - 1 : Def(cfg[i]) \notin occurring(cfg[j])
    BY <2>2 DEF StopsScan, occurring
  <2>6. /\ Sound(new) /\ Written(new) \subseteq Written(cfg)
        /\ Placed(new) \/ ~ Placed(cfg)
    BY <1>2, <1>4, <2>2, <2>3, <2>4, <2>5, MergeOk
  <2> HIDE DEF new
  <2>7. CodeSound' /\ misplaced' = misplaced
    <3>1. Written(new) \subseteq writable
      BY <1>1, <2>6 DEF CodeSound
    <3> QED BY <1>1, <1>4, <2>6, <3>1, PassKeeps
  <2> QED BY <1>1, <2>7 DEF TInv, Sums
<1>5. CASE cfg' = cfg
  <2>1. CodeSound' /\ misplaced' = misplaced
    BY <1>1, <1>5, UnchangedCode
  <2> QED BY <1>1, <2>1 DEF TInv, Sums
<1> QED BY <1>3, <1>4, <1>5

LEMMA EndKeeps ==
  ASSUME TInv, EndSubstituteForward \/ EndSubstituteBackward \/ EndRemoveEmptyStatements
               \/ EndMergeActions
  PROVE  TInv'
<1>1. /\ CodeSound /\ cfg' = cfg /\ UnchangedLowering /\ misplaced \in BOOLEAN
  BY DEF EndSubstituteForward, EndSubstituteBackward, EndRemoveEmptyStatements, EndMergeActions,
         TInv
<1>2. CodeSound' /\ misplaced' = misplaced
  BY <1>1, UnchangedCode
<1>3. CASE EndSubstituteForward
  BY <1>1, <1>2, <1>3 DEF EndSubstituteForward, TInv, Sums
<1>4. CASE EndSubstituteBackward
  BY <1>1, <1>2, <1>4 DEF EndSubstituteBackward, TInv, Sums
<1>5. CASE EndRemoveEmptyStatements
  BY <1>1, <1>2, <1>5 DEF EndRemoveEmptyStatements, TInv, Sums
<1>6. CASE EndMergeActions
  BY <1>1, <1>2, <1>6 DEF EndMergeActions, TInv, Sums
<1> QED BY <1>3, <1>4, <1>5, <1>6

LEMMA StutterKeeps == TInv /\ UNCHANGED vars => TInv'
<1> SUFFICES ASSUME TInv, UNCHANGED vars PROVE TInv'
  OBVIOUS
<1>1. UNCHANGED <<cfg, writable, misplaced, phase, i, live>> /\ UNCHANGED lvars
  BY DEF vars, lvars, tvars
<1>2. LInv => LInv'
  BY <1>1, StepLInv
<1>3. CodeSound => CodeSound'
  BY <1>1 DEF CodeSound
<1> QED BY <1>1, <1>2, <1>3 DEF TInv, Sums

-----------------------------------------------------------------------------
(* The theorems about the passes *)

LEMMA InitTInv == TInit => TInv
<1> SUFFICES ASSUME TInit PROVE TInv
  OBVIOUS
<1>1. LInv /\ phase = "Lowering"
  BY InitLInv DEF TInit
<1>2. misplaced \in BOOLEAN
  BY <1>1 DEF LInv
<1> QED BY <1>1, <1>2 DEF TInv, Sums

LEMMA StepTInv == TInv /\ [TNext]_vars => TInv'
BY LowerKeeps, StartKeeps, MergeScalarKeeps, AnalyseLivenessKeeps, ForwardKeeps, BackwardKeeps,
   RemoveEmptyKeeps, MergeActionsKeeps, EndKeeps, StutterKeeps DEF TNext, Passes

LEMMA TInvariant == TSpec => []TInv
BY InitTInv, StepTInv, PTL DEF TSpec

\* No pass makes the kernel write an argument that it does not assign, or read
\* a temporary that it has not written, whatever the kernel is (the conditions
\* of SubstituteForward, SubstituteBackward and MergeActions,
\* controlflow/transformer.py).
THEOREM PassesRespectInterface == TSpec => []PassesKeepInterface
<1>1. TInv => PassesKeepInterface
  <2> SUFFICES ASSUME TInv, phase # "Lowering"
               PROVE  /\ \A k \in DOMAIN cfg : Def(cfg[k]) \in Tensor => Def(cfg[k]) \in writable
                      /\ UpwardExposed(cfg, 1) \subseteq Tensor
    BY DEF PassesKeepInterface, Optimising
  <2>1. cfg \in Seq(Actions) /\ LocalsFlow(cfg) /\ Written(cfg) \subseteq writable
    BY DEF TInv, CodeSound, Sound, Base, Flow
  <2>2. DOMAIN cfg = 1 .. Len(cfg)
    BY <2>1
  <2>3. UpwardExposed(cfg, 1) \subseteq Tensor
    BY <2>1, FlowInitialised
  <2> QED BY <2>1, <2>2, <2>3 DEF Written
<1> QED BY <1>1, TInvariant, PTL

\* No statement of a kernel reads, through an expression, the variable that it
\* writes, and every statement finds and leaves its variables in layouts that
\* it can work on, after the lowering as after every step of a pass
\* (maySubstitute, controlflow/graph.py).
THEOREM StatementsStaySound == TSpec => []StatementsSound
<1>1. TInv => StatementsSound
  <2> SUFFICES ASSUME TInv, NEW k \in DOMAIN cfg
               PROVE  NoAliasing(cfg[k]) /\ (~ misplaced => WellPlaced(cfg[k]))
    BY DEF StatementsSound
  <2>1. CodeSound
    BY LoweredSound DEF TInv
  <2>2. cfg \in Seq(Actions)
    BY <2>1 DEF CodeSound, Sound, Base
  <2>3. k \in 1 .. Len(cfg)
    BY <2>2
  <2> QED BY <2>1, <2>3 DEF CodeSound, Sound, Placed
<1> QED BY <1>1, TInvariant, PTL

\* The live sets that the passes decide by are exact at every step that reads
\* them (LivenessAnalysis, controlflow/transformer.py).
THEOREM LiveSetsStayCurrent == TSpec => []LiveSetsCurrent
<1>1. TInv => LiveSetsCurrent
  <2> SUFFICES ASSUME TInv, phase \in Sums \cup {"Optimised"}
               PROVE  /\ Len(live) = Len(cfg) + 1
                      /\ \A k \in 1 .. Len(cfg) + 1 : live[k] = UpwardExposed(cfg, k)
    BY DEF LiveSetsCurrent, Sums
  <2>1. Sound(cfg) /\ live = Liveness(cfg)
    BY DEF TInv, CodeSound, Sums
  <2>2. cfg \in Seq(Actions)
    BY <2>1 DEF Sound, Base
  <2>3. live = [k \in 1 .. Len(cfg) + 1 |-> UpwardExposed(cfg, k)]
    BY <2>1, <2>2, LivenessExact
  <2>4. Len(cfg) + 1 \in Nat
    BY <2>2
  <2> HIDE DEF TInv
  <2>5. Len(live) = Len(cfg) + 1
    BY <2>3, <2>4
  <2> QED BY <2>3, <2>5
<1> QED BY <1>1, TInvariant, PTL

-----------------------------------------------------------------------------
(* What the passes keep, besides soundness *)

\* An occurrence of a variable needs all that its layout stores.
Dense(prog) == \A k \in 1 .. Len(prog) : \A v \in occurrences(prog[k]) : v.spp = v.lay.cells

\* new is made of the variables of prog, and its statements are as unary.
Rearranges(prog, new) ==
  /\ new \in Seq(Actions)
  /\ \A j \in 1 .. Len(new) : \A v \in occurrences(new[j]) :
       \E l \in 1 .. Len(prog) : v \in occurrences(prog[l])

LEMMA RearrangedOk ==
  ASSUME NEW prog \in Seq(Actions), NEW new, Rearranges(prog, new)
  PROVE  /\ Dense(prog) => Dense(new)
         /\ Familiar(prog, new)
<1>1. /\ new \in Seq(Actions)
      /\ \A j \in 1 .. Len(new) : \A v \in occurrences(new[j]) :
           \E l \in 1 .. Len(prog) : v \in occurrences(prog[l])
  BY DEF Rearranges
<1>2. Dense(prog) => Dense(new)
  BY <1>1 DEF Dense
<1>3. ASSUME NEW n \in InMemory(new) PROVE n \in InMemory(prog)
  <2>1. CASE n \in Tensor
    BY <2>1, MemoryIs
  <2>2. CASE n \notin Tensor
    <3>1. PICK j \in 1 .. Len(new) : n \in occurring(new[j])
      BY <1>1, <1>3, <2>2, MemoryIs
    <3>2. new[j] \in Actions
      BY <1>1
    <3>3. PICK v \in occurrences(new[j]) : n = v.name
      BY <3>1, <3>2, OccurringNames
    <3>4. PICK l \in 1 .. Len(prog) : v \in occurrences(prog[l])
      BY <1>1
    <3>5. prog[l] \in Actions
      OBVIOUS
    <3>6. n \in occurring(prog[l])
      BY <3>3, <3>4, <3>5, OccurringNames
    <3> QED BY <3>6, MemoryIs
  <2> QED BY <2>1, <2>2
<1> QED BY <1>2, <1>3 DEF Familiar

\* A statement that may be substituted computes the same in the place of another
\* variable.
LEMMA SubstitutedMoves ==
  ASSUME NEW a \in Actions, NEW when \in Variables, NEW by \in Variables,
         isRHSVariable(a) => Len(a.term.args) = 1,
         MaySubstitute(a, when, by, TRUE, TRUE), a.result.spp = a.result.lay.cells
  PROVE  LET b == ActionSubstituted(a, when, by, TRUE, TRUE)
         IN  /\ Moved(a, b, when.name, by.name)
             /\ b \in Actions
             /\ \A v \in occurrences(b) : v \in occurrences(a) \/ v = by
             /\ isRHSVariable(b) <=> isRHSVariable(a)
<1> DEFINE b == ActionSubstituted(a, when, by, TRUE, TRUE)
<1>1. SubstitutionOk(a, b, when, by, TRUE)
  <2>1. TRUE \in BOOLEAN
    OBVIOUS
  <2> QED BY <2>1, SubstitutedOk
<1>2. b.term = TermSubstituted(a.term, when, by)
  BY DEF ActionSubstituted, Actions
<1>3. /\ DOMAIN a.term = {"op", "args", "spp", "fuse"}
      /\ b.term.args = [l \in DOMAIN a.term.args |-> Substituted(a.term.args[l], when, by)]
  <2>1. a.term \in Terms
    BY DEF Actions
  <2> QED BY <1>2, <2>1 DEF TermSubstituted, Terms
<1>4. \A l \in DOMAIN a.term.args :
        b.term.args[l].name = ren(a.term.args[l].name, when.name, by.name)
  BY <1>3 DEF Substituted, ren
<1>5. a.result.lay.cells \subseteq b.result.lay.cells
  <2>1. b.result = Substituted(a.result, when, by)
    BY <1>1 DEF SubstitutionOk
  <2>2. a.result.spp \subseteq Substituted(a.result, when, by).lay.cells
    BY DEF MaySubstitute, isCompatible
  <2> QED BY <2>1, <2>2
<1> HIDE DEF b
<1>6. Moved(a, b, when.name, by.name)
  BY <1>1, <1>4, <1>5 DEF SubstitutionOk, Moved
<1> QED BY <1>1, <1>6 DEF SubstitutionOk, isRHSVariable, b

\* Renamed names.
LEMMA RenamedOccurring ==
  ASSUME NEW a \in Actions, NEW b \in Actions, NEW t, NEW x, Renamed(a, b, t, x)
  PROVE  /\ \A n \in occurring(a) : ren(n, t, x) \in occurring(b)
         /\ isCompound(b) <=> isCompound(a)
         /\ t = x => /\ TermNames(b.term) = TermNames(a.term) /\ Def(b) = Def(a)
                     /\ variables(b) = variables(a) /\ occurring(b) = occurring(a)
<1>1. /\ Def(b) = ren(Def(a), t, x) /\ b.add = a.add
      /\ TermNames(b.term) = {ren(n, t, x) : n \in TermNames(a.term)}
  BY DEF Renamed, OperandsRenamed
<1>2. /\ occurring(a) = TermNames(a.term) \cup {Def(a)}
      /\ occurring(b) = TermNames(b.term) \cup {Def(b)}
      /\ \A n : n \in variables(a) <=> n \in TermNames(a.term) \/ (isCompound(a) /\ n = Def(a))
      /\ \A n : n \in variables(b) <=> n \in TermNames(b.term) \/ (isCompound(b) /\ n = Def(b))
  BY OccurringNames
<1>3. ASSUME t = x
      PROVE  /\ TermNames(b.term) = TermNames(a.term) /\ Def(b) = Def(a)
             /\ variables(b) = variables(a) /\ occurring(b) = occurring(a)
  <2>1. \A n : ren(n, t, x) = n
    BY <1>3 DEF ren
  <2>2. TermNames(b.term) = TermNames(a.term) /\ Def(b) = Def(a)
    BY <1>1, <2>1
  <2>3. variables(b) = variables(a)
    BY <1>1, <2>2 DEF variables, Def
  <2> QED BY <1>2, <2>2, <2>3
<1>4. \A n \in occurring(a) : ren(n, t, x) \in occurring(b)
  BY <1>1, <1>2
<1> QED BY <1>1, <1>3, <1>4 DEF isCompound

\* What holds of a program while it is optimised, besides Sound.
Tidy(prog) == Unary(prog) /\ Expired(prog) /\ NoneAddedToItself(prog) /\ TempsFlow(prog)

\* The program can be run without dropping a value.
Runs(prog, tensors) == tensors \in [Tensor -> Values] /\ \E f : Clean(prog, tensors, f)

CanForward(prog, W, k) ==
  /\ k \in 1 .. Len(prog)
  /\ ~ isCompound(prog[k]) /\ isRHSVariable(prog[k]) /\ isLocal(Def(prog[k]))
  /\ rhs(prog[k]).name \in W \/ isLocal(rhs(prog[k]).name)
  /\ rhs(prog[k]).name \notin UpwardExposed(prog, k + 1)
  /\ \A j \in k .. Len(prog) : MaySubstitute(prog[j], prog[k].result, rhs(prog[k]), TRUE, TRUE)

LEMMA ForwardMeans ==
  ASSUME NEW prog, Sound(prog), Tidy(prog), Dense(prog), NEW W, Barriers(prog), Rewritten(prog, W),
         NEW k, CanForward(prog, W, k), NEW tensors, Runs(prog, tensors)
  PROVE  LET new == SubstitutedAt(prog, k .. Len(prog), prog[k].result, rhs(prog[k]))
         IN  /\ Tidy(new) /\ Dense(new) /\ Barriers(new) /\ Rewritten(new, W)
             /\ KeepsResults(prog, new, tensors)
<1> DEFINE ua   == prog[k]
           when == ua.result
           by   == rhs(ua)
           t    == when.name
           x    == by.name
           n    == Len(prog)
           new  == SubstitutedAt(prog, k .. n, when, by)
<1>1. /\ prog \in Seq(Actions) /\ n \in Nat /\ k \in 1 .. n /\ k \in Nat /\ ua \in Actions /\ Base(prog)
      /\ Flow(prog) /\ Unary(prog) /\ Expired(prog) /\ NoneAddedToItself(prog) /\ TempsFlow(prog)
  BY DEF Sound, Base, CanForward, Tidy
<1>2. /\ Len(ua.term.args) = 1 /\ TermNames(ua.term) = {x} /\ by \in occurrences(ua)
      /\ ~ isCompound(ua) /\ isRHSVariable(ua)
  <2>1. Len(ua.term.args) = 1
    BY <1>1 DEF Base, OneOperand, CanForward
  <2>2. ua.term.args \in Seq(Variables)
    BY <1>1 DEF Actions, Terms
  <2>3. DOMAIN ua.term.args = {1}
    BY <2>1, <2>2
  <2> QED BY <2>1, <2>3 DEF TermNames, rhs, occurrences, CanForward
<1>3. /\ when \in Variables /\ by \in Variables /\ Def(ua) = t /\ isLocal(t)
      /\ x \in W \/ isLocal(x)
      /\ x \notin UpwardExposed(prog, k + 1)
      /\ \A j \in k .. n : MaySubstitute(prog[j], when, by, TRUE, TRUE)
  BY <1>1, <1>2, OccurringNames DEF Def, CanForward
<1>4. /\ DOMAIN prog = 1 .. n
      /\ \A j \in 1 .. k - 1 : j \in 1 .. n /\ new[j] = prog[j]
      /\ \A j \in k .. n : j \in 1 .. n /\ new[j] = ActionSubstituted(prog[j], when, by, TRUE, TRUE)
      /\ \A j \in 1 .. n : j \in 1 .. k - 1 \/ j \in k .. n
      /\ new = [j \in 1 .. n |-> new[j]]
  <2>1. DOMAIN prog = 1 .. n
    BY <1>1
  <2>2. \A j \in 1 .. n : j \in 1 .. k - 1 \/ j \in k .. n
    BY <1>1
  <2>3. \A j \in 1 .. k - 1 : j \in 1 .. n /\ j \notin k .. n
    BY <1>1
  <2>4. \A j \in k .. n : j \in 1 .. n
    BY <1>1
  <2> HIDE DEF when, by, n
  <2> QED BY <2>1, <2>2, <2>3, <2>4 DEF SubstitutedAt
<1> HIDE DEF new, when, by
<1>5. ASSUME NEW j \in k .. n
      PROVE  /\ Moved(prog[j], new[j], t, x) /\ new[j] \in Actions /\ prog[j] \in Actions
             /\ \A v \in occurrences(new[j]) : v \in occurrences(prog[j]) \/ v = by
             /\ isRHSVariable(new[j]) <=> isRHSVariable(prog[j])
  <2> DEFINE a == prog[j]
  <2>1. /\ j \in 1 .. n /\ new[j] = ActionSubstituted(prog[j], when, by, TRUE, TRUE)
        /\ MaySubstitute(prog[j], when, by, TRUE, TRUE)
    BY <1>3, <1>4
  <2>2. a \in Actions /\ (isRHSVariable(a) => Len(a.term.args) = 1)
    BY <1>1, <2>1 DEF Base, OneOperand
  <2>3. a.result.spp = a.result.lay.cells
    BY <2>1 DEF Dense, occurrences
  <2>4. new[j] = ActionSubstituted(a, when, by, TRUE, TRUE) /\ MaySubstitute(a, when, by, TRUE, TRUE)
    BY <2>1
  <2> HIDE DEF a
  <2>5. LET b == ActionSubstituted(a, when, by, TRUE, TRUE)
         IN  /\ Moved(a, b, when.name, by.name)
             /\ b \in Actions
             /\ \A v \in occurrences(b) : v \in occurrences(a) \/ v = by
             /\ isRHSVariable(b) <=> isRHSVariable(a)
    BY <1>3, <2>2, <2>3, <2>4, SubstitutedMoves
  <2> QED BY <2>2, <2>4, <2>5 DEF a
<1>6. /\ new \in Seq(Actions) /\ Len(new) = n
      /\ \A j \in 1 .. n : prog[j] \in Actions /\ new[j] \in Actions
  <2>1. ASSUME NEW j \in 1 .. n PROVE prog[j] \in Actions /\ new[j] \in Actions
    <3>1. prog[j] \in Actions
      BY <1>1
    <3>2. new[j] \in Actions
      BY <1>4, <1>5, <3>1
    <3> QED BY <3>1, <3>2
  <2>2. new \in [1 .. n -> Actions]
    BY <1>4, <2>1
  <2> QED BY <1>1, <2>1, <2>2
<1>7. Rearranges(prog, new)
  <2> SUFFICES ASSUME NEW j \in 1 .. n, NEW v \in occurrences(new[j])
               PROVE  \E l \in 1 .. Len(prog) : v \in occurrences(prog[l])
    BY <1>6 DEF Rearranges
  <2> QED BY <1>1, <1>2, <1>4, <1>5
<1>8. Dense(new) /\ Familiar(prog, new)
  BY <1>1, <1>7, RearrangedOk
<1>9. Unary(new)
  <2> SUFFICES ASSUME NEW j \in 1 .. n, new[j].term.op # "Op" PROVE Len(new[j].term.args) = 1
    BY <1>6 DEF Unary
  <2> QED BY <1>1, <1>4, <1>5 DEF Unary, Moved
<1>10. \A j \in k .. n : Renamed(prog[j], new[j], t, x)
  BY <1>5, MovedRenamed
<1>11. PICK f : tensors \in [Tensor -> Values] /\ Clean(prog, tensors, f)
  BY DEF Runs
<1> HIDE DEF t, x, ua, n
<1>12. ASSUME t # x
       PROVE  /\ Tidy(new) /\ Dense(new) /\ Barriers(new) /\ Rewritten(new, W)
             /\ KeepsResults(prog, new, tensors)
  <2>1. ForwardShape(prog, new, k, t, x)
    BY <1>1, <1>2, <1>3, <1>4, <1>5, <1>6, <1>10, <1>12 DEF ForwardShape, ua, n
  <2>2. /\ \A j \in k + 1 .. Len(prog) :
              x \in variables(prog[j]) => \E d \in k + 1 .. j - 1 : Def(prog[d]) = x
        /\ \A d \in k + 1 .. Len(prog) : Def(prog[d]) = x =>
              \A j \in d + 1 .. Len(prog) : t \notin occurring(prog[j])
    BY <1>1, <2>1, ForwardEnds
  <2>3. Dead(prog, x, k)
    <3>1. x \in Global => \E d \in k + 1 .. Len(prog) : Def(prog[d]) = x
      <4> SUFFICES ASSUME x \in Global PROVE \E d \in k + 1 .. Len(prog) : Def(prog[d]) = x
        OBVIOUS
      <4>1. x \in Global \cap W
        BY <1>3 DEF isLocal, Tensor
      <4>2. Copies(prog[k], x) /\ Def(prog[k]) # x
        BY <1>2, <1>3, <1>12 DEF Copies, ua
      <4> QED BY <1>1, <4>1, <4>2 DEF Rewritten, n
    <3>2. k \in 0 .. Len(prog)
      BY <1>1 DEF n
    <3> QED BY <1>1, <2>2, <3>1, <3>2, DeadMeans
  <2>4. /\ Expired(new) /\ Barriers(new) /\ Rewritten(new, W) /\ NoneAddedToItself(new)
        /\ TempsFlow(new)
    <3>1. Expired(new)
      BY <1>1, <2>1, <2>3, ExpiredForward
    <3>2. Barriers(new)
      BY <1>1, <2>1, BarriersForward
    <3>3. Rewritten(new, W)
      BY <1>1, <2>1, <2>3, RewrittenForward
    <3>4. NoneAddedToItself(new)
      BY <1>1, <2>1, SumsForward
    <3>5. TempsFlow(new)
      BY <1>1, <2>1, TempsForward
    <3> QED BY <3>1, <3>2, <3>3, <3>4, <3>5
  <2>5. KeepsResults(prog, new, tensors)
    <3>1. \A j \in k .. Len(prog) : \A m \in occurring(prog[j]) : ren(m, t, x) \in occurring(new[j])
      BY <1>5, <1>10, RenamedOccurring DEF n
    <3>2. variables(prog[k]) = {x} /\ Def(prog[k]) = t
      BY <1>2, <1>3 DEF variables, isCompound, ua
    <3>3. k \in 1 .. Len(prog) /\ Len(new) = Len(prog)
      BY <1>1, <1>6 DEF n
    <3>4. /\ \A j \in 1 .. k - 1 : new[j] = prog[j]
          /\ \A j \in k .. Len(prog) : Moved(prog[j], new[j], t, x)
      BY <1>4, <1>5 DEF n
    <3> QED BY <1>1, <1>3, <1>6, <1>8, <1>9, <1>11, <1>12, <2>2, <2>3, <3>1, <3>2, <3>3, <3>4, ForwardRuns
  <2> QED BY <1>8, <1>9, <2>4, <2>5 DEF Tidy
<1>13. ASSUME t = x
       PROVE  /\ Tidy(new) /\ Dense(new) /\ Barriers(new) /\ Rewritten(new, W)
             /\ KeepsResults(prog, new, tensors)
  <2>1. \A j \in 1 .. n : Moved(prog[j], new[j], 0, 0)
    <3> SUFFICES ASSUME NEW j \in 1 .. n PROVE Moved(prog[j], new[j], 0, 0)
      OBVIOUS
    <3>1. CASE j \in 1 .. k - 1
      BY <1>4, <3>1, NotMoved
    <3>2. CASE j \in k .. n
      BY <1>5, <1>13, <3>2 DEF Moved, ren
    <3> QED BY <1>4, <3>1, <3>2
  <2>2. SameNames(prog, new)
    <3> SUFFICES ASSUME NEW j \in 1 .. n
                 PROVE  /\ TermNames(new[j].term) = TermNames(prog[j].term) /\ Def(new[j]) = Def(prog[j])
                        /\ variables(new[j]) = variables(prog[j]) /\ occurring(new[j]) = occurring(prog[j])
                        /\ isCompound(new[j]) <=> isCompound(prog[j])
                        /\ isRHSVariable(new[j]) <=> isRHSVariable(prog[j])
      BY <1>1, <1>6 DEF SameNames, n
    <3>1. CASE j \in 1 .. k - 1
      BY <1>4, <3>1
    <3>2. CASE j \in k .. n
      BY <1>5, <1>10, <1>13, <3>2, RenamedOccurring
    <3> QED BY <1>4, <3>1, <3>2
  <2>3. /\ Expired(new) /\ Barriers(new) /\ Rewritten(new, W) /\ NoneAddedToItself(new)
        /\ TempsFlow(new)
    BY <1>1, <2>2, ExpiredSame, NamesSame
  <2>4. KeepsResults(prog, new, tensors)
    BY <1>1, <1>6, <1>8, <1>9, <1>11, <2>1, SameRuns DEF n
  <2> QED BY <1>8, <1>9, <2>3, <2>4 DEF Tidy
<1> QED BY <1>12, <1>13 DEF new, when, by, n, ua

CanBackward(prog, k, l) ==
  /\ k \in 1 .. Len(prog) /\ l \in 1 .. k - 1
  /\ ~ isCompound(prog[k]) /\ isRHSVariable(prog[k]) /\ isLocal(rhs(prog[k]).name)
  /\ Def(prog[k]) \notin UpwardExposed(prog, l)
  /\ ~ isCompound(prog[l]) /\ Def(prog[l]) = rhs(prog[k]).name
  /\ MaySubstitute(prog[l], prog[l].result, prog[k].result, TRUE, FALSE)
  /\ \A j \in l + 1 .. k : MaySubstitute(prog[j], prog[l].result, prog[k].result, TRUE, TRUE)

LEMMA OneReadOk ==
  ASSUME NEW prog \in Seq(Actions), OneOperand(prog)
  PROVE  OneRead(prog)
<1> SUFFICES ASSUME NEW j \in 1 .. Len(prog), isRHSVariable(prog[j]),
                    NEW n \in TermNames(prog[j].term), NEW o \in TermNames(prog[j].term)
             PROVE  n = o
  BY DEF OneRead
<1>1. Len(prog[j].term.args) = 1 /\ prog[j].term.args \in Seq(Variables)
  <2>1. prog[j] \in Actions
    OBVIOUS
  <2> QED BY <2>1 DEF OneOperand, Actions, Terms
<1>2. DOMAIN prog[j].term.args = {1}
  BY <1>1
<1> QED BY <1>2 DEF TermNames

\* A statement whose result alone is substituted.
LEMMA ResultMoves ==
  ASSUME NEW a \in Actions, NEW by \in Variables,
         MaySubstitute(a, a.result, by, TRUE, FALSE), a.result.spp = a.result.lay.cells
  PROVE  LET b == ActionSubstituted(a, a.result, by, TRUE, FALSE)
         IN  /\ b \in Actions /\ b.result = by /\ Def(b) = by.name
             /\ b.term = a.term /\ b.add = a.add /\ b.scalar = a.scalar
             /\ a.result.lay.cells \subseteq b.result.lay.cells
             /\ \A v \in occurrences(b) : v \in occurrences(a) \/ v = by
<1> DEFINE b == ActionSubstituted(a, a.result, by, TRUE, FALSE)
<1>1. /\ b.result = Substituted(a.result, a.result, by)
      /\ b.term = a.term /\ b.add = a.add /\ b.scalar = a.scalar
  BY DEF ActionSubstituted, Actions
<1>2. b.result = by
  BY <1>1 DEF Substituted
<1>3. a.result.spp \subseteq by.lay.cells
  BY DEF MaySubstitute, isCompatible, Substituted
<1>4. b \in Actions
  <2>1. b = [a EXCEPT !.result = by, !.term = a.term]
    BY DEF ActionSubstituted, Substituted
  <2>2. [a EXCEPT !.result = by, !.term = a.term] \in Actions
    BY DEF Actions
  <2> QED BY <2>1, <2>2
<1> HIDE DEF b
<1>5. \A v \in occurrences(b) : v \in occurrences(a) \/ v = by
  BY <1>1, <1>2 DEF occurrences
<1> QED BY <1>1, <1>2, <1>3, <1>4, <1>5 DEF Def, b

LEMMA BackwardMeans ==
  ASSUME NEW prog, Sound(prog), Tidy(prog), Dense(prog),
         NEW k, NEW l, CanBackward(prog, k, l), BarriersBelow(prog, k),
         NEW tensors, Runs(prog, tensors)
  PROVE  LET new == Replace(SubstitutedAt(prog, l + 1 .. k, prog[l].result, prog[k].result), l,
                            ActionSubstituted(prog[l], prog[l].result, prog[k].result, TRUE, FALSE))
         IN  /\ Tidy(new) /\ Dense(new) /\ BarriersBelow(new, k - 1)
             /\ KeepsResults(prog, new, tensors)
<1> DEFINE ua   == prog[k]
           va   == prog[l]
           when == va.result
           by   == ua.result
           t    == when.name
           x    == by.name
           n    == Len(prog)
           b    == ActionSubstituted(va, when, by, TRUE, FALSE)
           new  == Replace(SubstitutedAt(prog, l + 1 .. k, when, by), l, b)
<1>1. /\ prog \in Seq(Actions) /\ n \in Nat /\ k \in 1 .. n /\ l \in 1 .. k - 1 /\ l \in 1 .. n
      /\ k \in Nat /\ l \in Nat
      /\ ua \in Actions /\ va \in Actions /\ Base(prog) /\ Flow(prog)
      /\ Unary(prog) /\ Expired(prog) /\ NoneAddedToItself(prog) /\ TempsFlow(prog)
  BY DEF Sound, Base, CanBackward, Tidy
<1>2. Len(ua.term.args) = 1 /\ TermNames(ua.term) = {t}
  <2>1. Len(ua.term.args) = 1
    BY <1>1 DEF Base, OneOperand, CanBackward
  <2>2. ua.term.args \in Seq(Variables)
    BY <1>1 DEF Actions, Terms
  <2>3. DOMAIN ua.term.args = {1}
    BY <2>1, <2>2
  <2>4. Def(va) = rhs(ua).name
    BY DEF CanBackward
  <2> QED BY <2>1, <2>3, <2>4 DEF TermNames, rhs, Def
<1>3. /\ when \in Variables /\ by \in Variables /\ Def(ua) = x /\ Def(va) = t /\ isLocal(t)
      /\ by \in occurrences(ua) /\ ~ isCompound(ua) /\ ~ isCompound(va)
      /\ isRHSVariable(ua) /\ x \notin UpwardExposed(prog, l)
      /\ MaySubstitute(va, when, by, TRUE, FALSE)
      /\ \A j \in l + 1 .. k : MaySubstitute(prog[j], when, by, TRUE, TRUE)
  BY <1>1, <1>2 DEF Def, Actions, occurrences, CanBackward
<1>4. /\ DOMAIN prog = 1 .. n
      /\ \A j \in 1 .. l - 1 : j \in 1 .. n /\ new[j] = prog[j]
      /\ \A j \in k + 1 .. n : j \in 1 .. n /\ new[j] = prog[j]
      /\ new[l] = b
      /\ \A j \in l + 1 .. k :
           j \in 1 .. n /\ new[j] = ActionSubstituted(prog[j], when, by, TRUE, TRUE)
      /\ \A j \in 1 .. n : \/ j \in 1 .. l - 1 \/ j = l
                           \/ j \in l + 1 .. k \/ j \in k + 1 .. n
      /\ new = [j \in 1 .. n |-> new[j]]
  <2>1. DOMAIN prog = 1 .. n
    BY <1>1
  <2>2. \A j \in 1 .. n : \/ j \in 1 .. l - 1 \/ j = l
                          \/ j \in l + 1 .. k \/ j \in k + 1 .. n
    BY <1>1
  <2>3. \A j \in 1 .. l - 1 : j \in 1 .. n /\ j \notin l + 1 .. k /\ j # l
    BY <1>1
  <2>4. \A j \in l + 1 .. k : j \in 1 .. n /\ j # l
    BY <1>1
  <2>5. \A j \in k + 1 .. n : j \in 1 .. n /\ j \notin l + 1 .. k /\ j # l
    BY <1>1
  <2>6. l \in 1 .. n
    BY <1>1
  <2> HIDE DEF when, by, n, b
  <2> DEFINE mid == SubstitutedAt(prog, l + 1 .. k, when, by)
  <2>7. /\ DOMAIN mid = 1 .. n
        /\ mid = [j \in 1 .. n |-> mid[j]]
        /\ \A j \in 1 .. n : mid[j] = IF j \in l + 1 .. k
                                     THEN ActionSubstituted(prog[j], when, by, TRUE, TRUE)
                                     ELSE prog[j]
    BY <2>1 DEF SubstitutedAt
  <2> HIDE DEF mid
  <2>8. new = [mid EXCEPT ![l] = b]
    BY DEF Replace, mid
  <2>9. /\ new = [j \in 1 .. n |-> new[j]] /\ new[l] = b
        /\ \A j \in 1 .. n : j # l => new[j] = mid[j]
    BY <2>6, <2>7, <2>8
  <2> HIDE DEF new
  <2>10. \A j \in 1 .. n : j # l => new[j] = IF j \in l + 1 .. k
                                     THEN ActionSubstituted(prog[j], when, by, TRUE, TRUE)
                                     ELSE prog[j]
    BY <2>7, <2>9
  <2> QED BY <2>1, <2>2, <2>3, <2>4, <2>5, <2>6, <2>9, <2>10
<1> HIDE DEF new, when, by
<1>5. ASSUME NEW j \in l + 1 .. k
      PROVE  /\ Moved(prog[j], new[j], t, x) /\ new[j] \in Actions /\ prog[j] \in Actions
             /\ \A v \in occurrences(new[j]) : v \in occurrences(prog[j]) \/ v = by
             /\ isRHSVariable(new[j]) <=> isRHSVariable(prog[j])
  <2> DEFINE a == prog[j]
  <2>1. /\ j \in 1 .. n /\ new[j] = ActionSubstituted(prog[j], when, by, TRUE, TRUE)
        /\ MaySubstitute(prog[j], when, by, TRUE, TRUE)
    BY <1>3, <1>4
  <2>2. a \in Actions /\ (isRHSVariable(a) => Len(a.term.args) = 1)
    BY <1>1, <2>1 DEF Base, OneOperand
  <2>3. a.result.spp = a.result.lay.cells
    BY <2>1 DEF Dense, occurrences
  <2>4. new[j] = ActionSubstituted(a, when, by, TRUE, TRUE) /\ MaySubstitute(a, when, by, TRUE, TRUE)
    BY <2>1
  <2> HIDE DEF a
  <2>5. LET c == ActionSubstituted(a, when, by, TRUE, TRUE)
         IN  /\ Moved(a, c, when.name, by.name)
             /\ c \in Actions
             /\ \A v \in occurrences(c) : v \in occurrences(a) \/ v = by
             /\ isRHSVariable(c) <=> isRHSVariable(a)
    BY <1>3, <2>2, <2>3, <2>4, SubstitutedMoves
  <2> QED BY <2>2, <2>4, <2>5 DEF a
<1>6. /\ new[l] \in Actions /\ Def(new[l]) = x /\ new[l].term = va.term /\ new[l].add = va.add
      /\ new[l].scalar = va.scalar /\ va.result.lay.cells \subseteq new[l].result.lay.cells
      /\ \A v \in occurrences(new[l]) : v \in occurrences(va) \/ v = by
      /\ isRHSVariable(new[l]) <=> isRHSVariable(va)
      /\ ~ isCompound(new[l])
  <2>1. va.result.spp = va.result.lay.cells
    BY <1>1 DEF Dense, occurrences
  <2>2. MaySubstitute(va, va.result, by, TRUE, FALSE) /\ new[l] = ActionSubstituted(va, va.result, by, TRUE, FALSE)
    BY <1>3, <1>4 DEF when
  <2> HIDE DEF va
  <2>3. LET c == ActionSubstituted(va, va.result, by, TRUE, FALSE)
        IN  /\ c \in Actions /\ c.result = by /\ Def(c) = by.name
            /\ c.term = va.term /\ c.add = va.add /\ c.scalar = va.scalar
            /\ va.result.lay.cells \subseteq c.result.lay.cells
            /\ \A v \in occurrences(c) : v \in occurrences(va) \/ v = by
    BY <1>1, <1>3, <2>1, <2>2, ResultMoves
  <2> QED BY <1>3, <2>2, <2>3 DEF isRHSVariable, isCompound
<1>7. /\ new \in Seq(Actions) /\ Len(new) = n
      /\ \A j \in 1 .. n : prog[j] \in Actions /\ new[j] \in Actions
  <2>1. ASSUME NEW j \in 1 .. n PROVE prog[j] \in Actions /\ new[j] \in Actions
    <3>1. prog[j] \in Actions
      BY <1>1
    <3>2. new[j] \in Actions
      BY <1>4, <1>5, <1>6, <3>1
    <3> QED BY <3>1, <3>2
  <2>2. new \in [1 .. n -> Actions]
    BY <1>4, <2>1
  <2> QED BY <1>1, <2>1, <2>2
<1>8. Rearranges(prog, new)
  <2> SUFFICES ASSUME NEW j \in 1 .. n, NEW v \in occurrences(new[j])
               PROVE  \E o \in 1 .. Len(prog) : v \in occurrences(prog[o])
    BY <1>7 DEF Rearranges
  <2>1. v \in occurrences(prog[j]) \/ v = by
    BY <1>4, <1>5, <1>6
  <2> QED BY <1>1, <1>3, <2>1
<1>9. Dense(new) /\ Familiar(prog, new)
  BY <1>1, <1>8, RearrangedOk
<1>10. Unary(new)
  <2> SUFFICES ASSUME NEW j \in 1 .. n, new[j].term.op # "Op" PROVE Len(new[j].term.args) = 1
    BY <1>7 DEF Unary
  <2>1. CASE j = l
    BY <1>1, <1>6, <2>1 DEF Unary
  <2> QED BY <1>1, <1>4, <1>5, <2>1 DEF Unary, Moved
<1>11. \A j \in l + 1 .. k : Renamed(prog[j], new[j], t, x)
  BY <1>5, MovedRenamed
<1>12. PICK f : tensors \in [Tensor -> Values] /\ Clean(prog, tensors, f)
  BY DEF Runs
<1>13. \A j \in 1 .. n : isRHSVariable(new[j]) <=> isRHSVariable(prog[j])
  BY <1>4, <1>5, <1>6
<1> HIDE DEF t, x, ua, va, n, b
<1>14. ASSUME t # x
       PROVE  /\ Tidy(new) /\ Dense(new) /\ BarriersBelow(new, k - 1)
              /\ KeepsResults(prog, new, tensors)
  <2>1. BackwardShape(prog, new, k, l, t, x)
    BY <1>1, <1>2, <1>3, <1>4, <1>6, <1>7, <1>11, <1>13, <1>14 DEF BackwardShape, ua, va, n
  <2>2. /\ \A j \in l .. k - 1 : x \notin occurring(prog[j])
        /\ \A j \in k + 1 .. Len(prog) : t \notin occurring(prog[j])
    BY <1>1, <2>1, BackwardEnds
  <2>3. /\ Expired(new) /\ NoneAddedToItself(new) /\ BarriersBelow(new, k - 1)
        /\ TempsFlow(new)
    <3>1. OneRead(prog)
      BY <1>1, OneReadOk DEF Base
    <3>2. Expired(new)
      BY <1>1, <2>1, ExpiredBackward
    <3>3. NoneAddedToItself(new)
      BY <1>1, <2>1, SumsBackward
    <3>4. BarriersBelow(new, k - 1)
      BY <1>1, <2>1, <3>1, BarriersBackward
    <3>5. TempsFlow(new)
      BY <1>1, <2>1, TempsBackward
    <3> QED BY <3>2, <3>3, <3>4, <3>5
  <2>4. KeepsResults(prog, new, tensors)
    <3>1. ASSUME NEW j \in l + 1 .. k - 1
          PROVE  /\ x \notin occurring(prog[j])
                 /\ Moved(prog[j], new[j], t, x)
                 /\ \A m \in occurring(prog[j]) : ren(m, t, x) \in occurring(new[j])
      <4>1. j \in l + 1 .. k /\ j \in l .. k - 1
        BY <1>1
      <4> QED BY <1>5, <1>11, <2>2, <4>1, RenamedOccurring
    <3>2. variables(prog[k]) = {t} /\ Def(prog[k]) = x /\ Def(prog[l]) = t /\ ~ isCompound(prog[l])
      BY <1>2, <1>3 DEF variables, isCompound, ua, va
    <3>3. k \in 1 .. Len(prog) /\ l \in 1 .. k - 1 /\ Len(new) = Len(prog)
      BY <1>1, <1>7 DEF n
    <3>4. /\ \A j \in 1 .. l - 1 : new[j] = prog[j]
          /\ \A j \in k + 1 .. Len(prog) : new[j] = prog[j] /\ t \notin occurring(prog[j])
      BY <1>4, <2>2 DEF n
    <3>5. Moved(prog[k], new[k], t, x)
      <4>1. k \in l + 1 .. k
        BY <1>1
      <4> QED BY <1>5, <4>1
    <3>6. /\ ~ isCompound(new[l]) /\ new[l].term = prog[l].term /\ new[l].scalar = prog[l].scalar
          /\ Def(new[l]) = x /\ prog[l].result.lay.cells \subseteq new[l].result.lay.cells
      BY <1>6 DEF va
    <3> QED BY <1>1, <1>3, <1>7, <1>9, <1>10, <1>12, <1>14, <3>1, <3>2, <3>3, <3>4, <3>5, <3>6, BackwardRuns
  <2> QED BY <1>9, <1>10, <2>3, <2>4 DEF Tidy
<1>15. ASSUME t = x
       PROVE  /\ Tidy(new) /\ Dense(new) /\ BarriersBelow(new, k - 1)
              /\ KeepsResults(prog, new, tensors)
  <2>1. \A m : ren(m, t, x) = m /\ ren(m, 0, 0) = m
    BY <1>15 DEF ren
  <2>2. \A j \in 1 .. n : Moved(prog[j], new[j], 0, 0)
    <3> SUFFICES ASSUME NEW j \in 1 .. n PROVE Moved(prog[j], new[j], 0, 0)
      OBVIOUS
    <3>1. CASE j \in 1 .. l - 1 \/ j \in k + 1 .. n
      BY <1>4, <3>1, NotMoved
    <3>2. CASE j \in l + 1 .. k
      BY <1>5, <2>1, <3>2 DEF Moved
    <3>3. CASE j = l
      BY <1>3, <1>6, <1>15, <2>1, <3>3 DEF Moved, va
    <3> QED BY <1>4, <3>1, <3>2, <3>3
  <2>3. SameNames(prog, new)
    <3> SUFFICES ASSUME NEW j \in 1 .. n
                 PROVE  /\ TermNames(new[j].term) = TermNames(prog[j].term) /\ Def(new[j]) = Def(prog[j])
                        /\ variables(new[j]) = variables(prog[j]) /\ occurring(new[j]) = occurring(prog[j])
                        /\ isCompound(new[j]) <=> isCompound(prog[j])
                        /\ isRHSVariable(new[j]) <=> isRHSVariable(prog[j])
      BY <1>1, <1>7 DEF SameNames, n
    <3> DEFINE z == 0
    <3>1. Moved(prog[j], new[j], z, z) /\ prog[j] \in Actions /\ new[j] \in Actions /\ z = z
      BY <1>7, <2>2
    <3> HIDE DEF z
    <3>2. Renamed(prog[j], new[j], z, z)
      BY <3>1, MovedRenamed
    <3> QED BY <1>13, <3>1, <3>2, RenamedOccurring
  <2>4. /\ Expired(new) /\ BarriersBelow(new, k) /\ NoneAddedToItself(new) /\ TempsFlow(new)
    BY <1>1, <2>3, ExpiredSame, NamesSame
  <2>5. BarriersBelow(new, k - 1)
    <3>1. \A e \in 1 .. Len(new) : e <= k - 1 => e <= k
      BY <1>1, <1>7
    <3> QED BY <2>4, <3>1 DEF BarriersBelow
  <2>6. KeepsResults(prog, new, tensors)
    BY <1>1, <1>7, <1>9, <1>10, <1>12, <2>2, SameRuns DEF n
  <2> QED BY <1>9, <1>10, <2>4, <2>5, <2>6 DEF Tidy
<1> QED BY <1>14, <1>15 DEF new, when, by, n, ua, va, b

LEMMA RemoveMeans ==
  ASSUME NEW prog, Sound(prog), Tidy(prog), NEW k \in 1 .. Len(prog), IsEmptyStatement(prog[k]),
         NEW tensors, Runs(prog, tensors)
  PROVE  Tidy(RemoveAt(prog, k)) /\ KeepsResults(prog, RemoveAt(prog, k), tensors)
<1> DEFINE n   == Len(prog)
           x   == Def(prog[k])
           new == RemoveAt(prog, k)
<1>1. /\ prog \in Seq(Actions) /\ n \in Nat /\ k \in 1 .. n /\ k \in Nat /\ Base(prog)
      /\ Unary(prog) /\ Expired(prog) /\ NoneAddedToItself(prog) /\ TempsFlow(prog)
      /\ prog[k] \in Actions
  BY DEF Sound, Base, Tidy
<1>2. /\ isRHSVariable(prog[k]) /\ ~ isCompound(prog[k]) /\ rhs(prog[k]).name = Def(prog[k])
      /\ hasTrivialScalar(prog[k])
  BY DEF IsEmptyStatement
<1>3. TermNames(prog[k].term) = {x}
  <2>1. Len(prog[k].term.args) = 1
    BY <1>1, <1>2 DEF Base, OneOperand
  <2> QED BY <1>1, <1>2, <2>1, CopyValue
<1>4. /\ new \in Seq(Actions) /\ Len(new) = n - 1
      /\ \A j \in 1 .. k - 1 : new[j] = prog[j]
      /\ \A j \in k .. n - 1 : new[j] = prog[j + 1]
  BY <1>1, RemoveAtOk
<1> HIDE DEF new
<1>5. RemoveShape(prog, new, k, x)
  BY <1>1, <1>3, <1>4 DEF RemoveShape
<1>6. \A j \in 1 .. Len(new) : at(k, j) \in 1 .. n /\ new[j] = prog[at(k, j)]
  <2>1. \A j \in 1 .. n - 1 : at(k, j) \in 1 .. n
    BY <1>1, WithoutPlaces
  <2>2. \A j \in 1 .. Len(new) : new[j] = prog[at(k, j)]
    BY <1>1, <1>5, RemovedPlaces
  <2> QED BY <1>4, <2>1, <2>2
<1>7. Rearranges(prog, new)
  BY <1>4, <1>6 DEF Rearranges
<1>8. Unary(new)
  BY <1>1, <1>6 DEF Unary
<1>9. Expired(new) /\ NoneAddedToItself(new) /\ TempsFlow(new)
  BY <1>1, <1>5, ExpiredRemove, SumsRemove, TempsRemove
<1>10. Familiar(prog, new)
  BY <1>1, <1>7, RearrangedOk
<1>11. PICK f : tensors \in [Tensor -> Values] /\ Clean(prog, tensors, f)
  BY DEF Runs
<1>12. KeepsResults(prog, new, tensors)
  BY <1>1, <1>2, <1>4, <1>8, <1>10, <1>11, RemoveRuns
<1> QED BY <1>8, <1>9, <1>12 DEF Tidy, new

\* t = term at k is merged into x [+]= t at l.
Merging(prog, new, k, l, t, x) ==
  /\ new \in Seq(Actions) /\ MergeShape(prog, new, k, l, t, x)
  /\ new[k].result = prog[l].result /\ new[k].term = prog[k].term
  /\ \A v \in Values : Scaled(new[k].scalar, v) = Scaled(prog[l].scalar, Scaled(prog[k].scalar, v))

LEMMA MergingMeans ==
  ASSUME NEW prog, Sound(prog), Tidy(prog), NEW new, NEW k, NEW l, NEW t, NEW x,
         Merging(prog, new, k, l, t, x), NEW tensors, Runs(prog, tensors)
  PROVE  Tidy(new) /\ Rearranges(prog, new) /\ KeepsResults(prog, new, tensors)
<1> DEFINE n == Len(prog)
<1>1. /\ prog \in Seq(Actions) /\ n \in Nat /\ Base(prog) /\ Flow(prog)
      /\ Unary(prog) /\ Expired(prog) /\ NoneAddedToItself(prog) /\ TempsFlow(prog)
      /\ new \in Seq(Actions) /\ MergeShape(prog, new, k, l, t, x)
  BY DEF Sound, Base, Tidy, Merging
<1>2. /\ k \in 1 .. n /\ l \in k + 1 .. n /\ l \in 1 .. n /\ k \in Nat /\ l \in Nat /\ Len(new) = n - 1
      /\ Def(prog[k]) = t /\ ~ isCompound(prog[k]) /\ Def(prog[l]) = x
      /\ TermNames(prog[l].term) = {t} /\ isRHSVariable(prog[l])
      /\ \A j \in k + 1 .. l - 1 : x \notin occurring(prog[j]) /\ t \notin occurring(prog[j])
      /\ \A j \in 1 .. l - 1 : j # k => new[j] = prog[j]
      /\ \A j \in l .. n - 1 : new[j] = prog[j + 1]
      /\ new[k].add = prog[l].add /\ k \in 1 .. Len(new)
  BY <1>1 DEF MergeShape
<1>3. /\ new[k].result = prog[l].result /\ new[k].term = prog[k].term
      /\ \A v \in Values : Scaled(new[k].scalar, v) = Scaled(prog[l].scalar, Scaled(prog[k].scalar, v))
  BY DEF Merging
<1>4. rhs(prog[l]).name = t
  <2>1. prog[l] \in Actions /\ Len(prog[l].term.args) = 1
    BY <1>1, <1>2 DEF Base, OneOperand
  <2>2. TermNames(prog[l].term) = {rhs(prog[l]).name}
    BY <1>2, <2>1, CopyValue
  <2> QED BY <1>2, <2>2
<1>5. isCompound(prog[l]) => x # t
  BY <1>1, <1>2 DEF NoneAddedToItself
<1>6. ASSUME x # t PROVE Dead(prog, t, l)
  <2>1. CASE isLocal(t)
    <3>1. \A j \in l + 1 .. n : t \notin occurring(prog[j])
      BY <1>1, <1>2, <1>6, <2>1 DEF Flow, ConsumedLast
    <3>2. \A j \in l + 1 .. n : t \notin variables(prog[j])
      BY <3>1 DEF occurring
    <3>3. t \notin Global /\ l \in 0 .. n
      BY <1>2, <2>1 DEF isLocal, Tensor
    <3> QED BY <1>1, <3>2, <3>3, DeadMeans
  <2>2. CASE ~ isLocal(t)
    <3>1. k \in 1 .. l - 1 /\ t \in Tensor /\ Copies(prog[l], t) /\ Def(prog[l]) # t
      BY <1>2, <1>6, <2>2 DEF isLocal, Copies
    <3> QED BY <1>1, <1>2, <3>1 DEF Expired
  <2> QED BY <2>1, <2>2
<1>7. ASSUME NEW j \in 1 .. Len(new), j # k
      PROVE  at(l, j) \in 1 .. n /\ new[j] = prog[at(l, j)]
  <2>1. at(l, j) \in 1 .. n
    BY <1>1, <1>2, WithoutPlaces
  <2>2. new[j] = prog[at(l, j)]
    BY <1>1, <1>7, MergedPlaces
  <2> QED BY <2>1, <2>2
<1>8. Rearranges(prog, new)
  <2> SUFFICES ASSUME NEW j \in 1 .. Len(new), NEW v \in occurrences(new[j])
               PROVE  \E o \in 1 .. n : v \in occurrences(prog[o])
    BY <1>1 DEF Rearranges
  <2>1. CASE j = k
    <3>1. v \in occurrences(prog[k]) \/ v \in occurrences(prog[l])
      BY <1>3, <2>1 DEF occurrences
    <3> QED BY <1>2, <3>1
  <2>2. CASE j # k
    BY <1>7, <2>2
  <2> QED BY <2>1, <2>2
<1>9. Unary(new)
  <2> SUFFICES ASSUME NEW j \in 1 .. Len(new), new[j].term.op # "Op" PROVE Len(new[j].term.args) = 1
    BY DEF Unary
  <2>1. CASE j = k
    BY <1>1, <1>2, <1>3, <2>1 DEF Unary
  <2>2. CASE j # k
    BY <1>1, <1>7, <2>2 DEF Unary
  <2> QED BY <2>1, <2>2
<1>10. Expired(new) /\ NoneAddedToItself(new) /\ TempsFlow(new)
  BY <1>1, <1>6, ExpiredMerge, SumsMerge, TempsMerge
<1>11. Familiar(prog, new)
  BY <1>1, <1>8, RearrangedOk
<1>12. PICK f : tensors \in [Tensor -> Values] /\ Clean(prog, tensors, f)
  BY DEF Runs
<1>13. KeepsResults(prog, new, tensors)
  BY ZenonT(30), <1>1, <1>2, <1>3, <1>4, <1>5, <1>6, <1>9, <1>11, <1>12, MergeRuns
<1> QED BY <1>8, <1>9, <1>10, <1>13 DEF Tidy

ScalarMerged(prog, k) ==
  RemoveAt(Replace(prog, k - 1,
             [prog[k - 1] EXCEPT !.scalar = prog[k].scalar, !.result = prog[k].result]), k)

LEMMA ScalarMergedShape ==
  ASSUME NEW prog, Plain(prog), NEW k \in 2 .. Len(prog), MergesScalar(prog[k], prog[k - 1])
  PROVE  LET new == ScalarMerged(prog, k)
         IN  /\ new \in Seq(Actions)
             /\ ScalarShape(prog, new, k - 1, Def(prog[k - 1]), Def(prog[k]))
             /\ new[k - 1].result = prog[k].result /\ new[k - 1].term = prog[k - 1].term
             /\ new[k - 1].scalar = prog[k].scalar
<1> DEFINE m  == k - 1
           ua == prog[k]
           va == prog[m]
           b  == [va EXCEPT !.scalar = ua.scalar, !.result = ua.result]
           t  == Def(va)
           x  == Def(ua)
           n  == Len(prog)
           new == ScalarMerged(prog, k)
<1>1. /\ prog \in Seq(Actions) /\ n \in Nat /\ m \in 1 .. n /\ k \in m + 1 .. n /\ k \in 1 .. n
      /\ m # k /\ m + 1 = k /\ k \in Nat
  BY DEF Plain, Base
<1>2. ua \in Actions /\ va \in Actions
  BY <1>1
<1>3. /\ isRHSVariable(ua) /\ ~ isCompound(ua) /\ ua.scalar # NoScalar
      /\ isRHSExpression(va) /\ ~ isCompound(va) /\ rhs(ua).name = t
  BY DEF MergesScalar
<1>21. \A j \in m + 1 .. k - 1 : FALSE
  BY <1>1
<1> HIDE DEF ua, va, m
<1>4. /\ b \in Actions /\ b.result = ua.result /\ b.term = va.term /\ b.add = va.add
      /\ b.scalar = ua.scalar /\ Def(b) = x
  BY <1>2 DEF Actions, Def
<1> HIDE DEF b
<1>5. TermNames(ua.term) = {t}
  <2>1. Len(ua.term.args) = 1
    BY <1>1, <1>3 DEF Plain, Base, OneOperand, ua
  <2> QED BY <1>2, <1>3, <2>1, CopyValue
<1>6. isLocal(x) /\ isLocal(t)
  BY <1>1, <1>3 DEF Plain, ScalarStatements, ScalarStatement, TemporaryExpressions, ua, va
<1>9. x # t /\ x \notin TermNames(va.term)
  <2>1. x # t
    BY <1>1, <1>5, <1>6 DEF Plain, NoSelf, ua
  <2>2. ASSUME x \in TermNames(va.term) PROVE FALSE
    <3>1. x \notin occurring(ua)
      BY <1>1, <1>6, <2>1, <2>2 DEF Plain, Base, Flow, ConsumedLast, ua, va
    <3> QED BY <3>1 DEF occurring
  <2> QED BY <2>1, <2>2
<1>10. /\ new \in Seq(Actions) /\ Len(new) = Len(prog) - 1
       /\ new[m] = b
       /\ \A j \in 1 .. k - 1 : j # m => new[j] = prog[j]
       /\ \A j \in k .. Len(prog) - 1 : new[j] = prog[j + 1]
  <2>1. prog \in Seq(Actions) /\ m \in 1 .. Len(prog) /\ k \in m + 1 .. Len(prog) /\ b \in Actions
    BY <1>1, <1>4
  <2> DEFINE list == RemoveAt(Replace(prog, m, b), k)
  <2>2. MergedInto(prog, list, m, k, b)
    BY <2>1, MergedList
  <2> HIDE DEF list
  <2>3. new = list
    BY DEF ScalarMerged, list, b, m, ua, va
  <2> HIDE DEF new
  <2> QED BY <2>2, <2>3 DEF MergedInto
<1> HIDE DEF new
<1>11. x \notin variables(va)
  BY <1>2, <1>3, <1>9, OccurringNames
<1>12. b.add = ua.add /\ ~ isRHSVariable(va) /\ ~ isRHSVariable(b)
  BY <1>2, <1>3, <1>4 DEF isCompound, Actions, isRHSExpression, isRHSVariable
<1>13. MergeShape(prog, new, m, k, t, x)
  <2>1. prog[m] = va /\ prog[k] = ua
    BY DEF va, ua
  <2> HIDE DEF t, x
  <2>2. Def(va) = t /\ Def(ua) = x
    BY DEF t, x
  <2> QED BY <1>1, <1>3, <1>4, <1>5, <1>10, <1>11, <1>12, <1>21, <2>1, <2>2 DEF MergeShape
<1>14. ScalarShape(prog, new, m, t, x)
  BY <1>1, <1>3, <1>4, <1>6, <1>10, <1>12, <1>13 DEF ScalarShape, ua, va
<1> QED BY <1>4, <1>10, <1>14 DEF new, ua, va, m

LEMMA MergeScalarMeans ==
  ASSUME NEW prog, Plain(prog), Tidy(prog), Dense(prog), Unscaled(prog),
         NEW W, Barriers(prog), Rewritten(prog, W),
         NEW k \in 2 .. Len(prog), MergesScalar(prog[k], prog[k - 1]),
         NEW tensors, Runs(prog, tensors)
  PROVE  LET new == ScalarMerged(prog, k)
         IN  /\ Tidy(new) /\ Dense(new) /\ Unscaled(new) /\ Barriers(new) /\ Rewritten(new, W)
             /\ KeepsResults(prog, new, tensors)
<1> DEFINE m   == k - 1
           t   == Def(prog[m])
           x   == Def(prog[k])
           new == ScalarMerged(prog, k)
<1>1. /\ new \in Seq(Actions) /\ ScalarShape(prog, new, m, t, x)
      /\ new[m].result = prog[k].result /\ new[m].term = prog[m].term
      /\ new[m].scalar = prog[k].scalar
  BY ScalarMergedShape
<1> HIDE DEF new
<1>2. /\ Sound(prog) /\ prog \in Seq(Actions) /\ m + 1 = k /\ m \in 1 .. Len(prog) /\ k \in 1 .. Len(prog)
  BY PlainSound DEF Plain, Base
<1> HIDE DEF m
<1>3. MergeShape(prog, new, m, k, t, x) /\ isLocal(t) /\ prog[k].scalar # NoScalar
  BY <1>1, <1>2 DEF ScalarShape
<1>4. prog[m].scalar = NoScalar
  <2>1. TermNames(prog[k].term) = {t} /\ isRHSVariable(prog[k]) /\ Def(prog[m]) = t
    BY <1>3 DEF MergeShape
  <2>2. Copies(prog[k], t)
    BY <2>1 DEF Copies
  <2> QED BY <1>2, <1>3, <2>1, <2>2 DEF Unscaled
<1>5. \A v \in Values : Scaled(new[m].scalar, v) = Scaled(prog[k].scalar, Scaled(prog[m].scalar, v))
  <2> TAKE v \in Values
  <2>1. Scaled(NoScalar, v) = v
    BY ScaleOk DEF Scaled
  <2> QED BY <1>1, <1>4, <2>1
<1>6. Merging(prog, new, m, k, t, x)
  BY <1>1, <1>3, <1>5 DEF Merging
<1>7. Tidy(new) /\ Rearranges(prog, new) /\ KeepsResults(prog, new, tensors)
  <2> HIDE DEF t, x
  <2> QED BY <1>2, <1>6, MergingMeans
<1>8. Dense(new)
  BY <1>2, <1>7, RearrangedOk
<1>9. Barriers(new) /\ Rewritten(new, W) /\ Unscaled(new)
  <2> HIDE DEF t, x
  <2> QED BY <1>1, <1>2, BarriersScalar, RewrittenScalar, UnscaledScalar
<1> QED BY <1>7, <1>8, <1>9 DEF new

LEMMA MergeMeans ==
  ASSUME NEW prog, Sound(prog), Tidy(prog), NEW k \in 1 .. Len(prog), NEW found \in k + 1 .. Len(prog),
         ~ isCompound(prog[k]), isRHSVariable(prog[found]),
         rhs(prog[found]).name = Def(prog[k]),
         Def(prog[found]) \notin variables(prog[k]),
         \A j \in k + 1 .. found - 1 :
           /\ Def(prog[found]) \notin occurring(prog[j])
           /\ Def(prog[k]) \notin occurring(prog[j]),
         hasTrivialScalar(prog[k]) \/ hasTrivialScalar(prog[found]),
         NEW tensors, Runs(prog, tensors)
  PROVE  LET new == RemoveAt(Replace(prog, k, Merged(prog[k], prog[found])), found)
         IN  Tidy(new) /\ KeepsResults(prog, new, tensors)
<1> DEFINE ua  == prog[k]
           va  == prog[found]
           b   == Merged(ua, va)
           t   == Def(ua)
           x   == Def(va)
           n   == Len(prog)
           new == RemoveAt(Replace(prog, k, b), found)
<1>1. /\ prog \in Seq(Actions) /\ n \in Nat /\ k \in 1 .. n /\ found \in 1 .. n
      /\ ua \in Actions /\ va \in Actions /\ Base(prog)
  BY DEF Sound, Base
<1>2. TermNames(va.term) = {t}
  <2>1. Len(va.term.args) = 1
    BY <1>1 DEF Base, OneOperand
  <2> HIDE DEF va
  <2>2. isRHSVariable(va) /\ rhs(va).name = t
    BY DEF va
  <2> QED BY <1>1, <2>1, <2>2, CopyValue
<1>3. /\ b \in Actions /\ b.result = va.result /\ b.term = ua.term /\ b.add = va.add
      /\ Def(b) = x
      /\ b.scalar = IF hasTrivialScalar(va) THEN ua.scalar ELSE va.scalar
  <2>1. b = [ua EXCEPT !.result = va.result, !.add = va.add,
                       !.scalar = IF hasTrivialScalar(va) THEN @ ELSE va.scalar]
    <3> DEFINE c == ActionSubstituted(ua, ua.result, va.result, TRUE, FALSE)
    <3>1. c = [ua EXCEPT !.result = va.result]
      <4>1. c = [ua EXCEPT !.result = Substituted(@, ua.result, va.result), !.term = ua.term]
        BY DEF ActionSubstituted
      <4>2. Substituted(ua.result, ua.result, va.result) = va.result
        BY DEF Substituted
      <4> HIDE DEF ua, va, c
      <4> QED BY <1>1, <4>1, <4>2 DEF Actions
    <3> HIDE DEF c, ua, va
    <3> QED BY <1>1, <3>1 DEF Merged, c, Actions
  <2> HIDE DEF ua, va, b
  <2> QED BY <1>1, <2>1 DEF Actions, Def
<1> HIDE DEF b
<1>4. MergedInto(prog, new, k, found, b)
  BY <1>1, <1>3, MergedList
<1> HIDE DEF new
<1>5. /\ new \in Seq(Actions) /\ Len(new) = n - 1 /\ k \in 1 .. Len(new) /\ new[k] = b
      /\ \A j \in 1 .. found - 1 : j # k => new[j] = prog[j]
      /\ \A j \in found .. n - 1 : new[j] = prog[j + 1]
  BY <1>4 DEF MergedInto
<1>6. MergeShape(prog, new, k, found, t, x)
  <2>1. isRHSVariable(b) <=> isRHSVariable(ua)
    BY <1>3 DEF isRHSVariable
  <2> QED BY <1>1, <1>2, <1>3, <1>5, <2>1 DEF MergeShape
<1>7. ASSUME NEW v \in Values PROVE Scaled(b.scalar, v) = Scaled(va.scalar, Scaled(ua.scalar, v))
  <2>1. \A u \in Values : Scaled(NoScalar, u) = u /\ Scaled(1, u) = u
    BY ScaleOk DEF Scaled, NoScalar
  <2>2. CASE hasTrivialScalar(va)
    <3>1. Scaled(ua.scalar, v) \in Values
      BY <1>1, ScaleOk DEF Scaled, Actions, Scalars, NoScalar
    <3>2. va.scalar = NoScalar \/ va.scalar = 1
      BY <2>2 DEF hasTrivialScalar
    <3>3. Scaled(va.scalar, Scaled(ua.scalar, v)) = Scaled(ua.scalar, v)
      BY <2>1, <3>1, <3>2
    <3> QED BY <1>3, <2>2, <3>3
  <2>3. CASE ~ hasTrivialScalar(va)
    <3>1. ua.scalar = NoScalar \/ ua.scalar = 1
      BY <2>3 DEF hasTrivialScalar
    <3>2. Scaled(ua.scalar, v) = v
      BY <2>1, <3>1
    <3> QED BY <1>3, <2>3, <3>2
  <2> QED BY <2>2, <2>3
<1>8. Merging(prog, new, k, found, t, x)
  <2>1. \A v \in Values : Scaled(new[k].scalar, v) = Scaled(prog[found].scalar, Scaled(prog[k].scalar, v))
    BY <1>5, <1>7
  <2> QED BY <1>3, <1>5, <1>6, <2>1 DEF Merging
<1>9. Tidy(new) /\ KeepsResults(prog, new, tensors)
  <2> HIDE DEF t, x
  <2> QED BY <1>8, MergingMeans
<1> QED BY <1>9 DEF new, b

-----------------------------------------------------------------------------
(* The program that the passes are given *)

LEMMA TwoElements ==
  ASSUME NEW x, NEW y, x # y
  PROVE  Cardinality({x, y}) = 2
<1> DEFINE Q == {x}
<1>1. IsFiniteSet(Q) /\ Cardinality(Q) = 1
  BY FS_Singleton
<1>2. {x, y} = Q \cup {y} /\ y \notin Q
  OBVIOUS
<1> HIDE DEF Q
<1>3. Cardinality(Q \cup {y}) = IF y \in Q THEN Cardinality(Q) ELSE Cardinality(Q) + 1
  BY <1>1, FS_AddElement
<1>4. Cardinality(Q \cup {y}) = 1 + 1
  BY <1>1, <1>2, <1>3
<1> QED BY <1>2, <1>4

\* A tensor that the kernel assigns and then copies is forwarded, but for a temporary
\* one that nothing else reads.
LEMMA NoResultForwarded ==
  ASSUME NEW prog \in Seq(Actions), ForwardedResults(prog) = {},
         NEW j \in 1 .. Len(prog), NEW n \in Tensor, Copies(prog[j], n),
         NEW k \in 1 .. j - 1, Def(prog[k]) = n
  PROVE  n \in TempTensor /\ \A l \in 1 .. Len(prog) : n \in variables(prog[l]) => l = j
<1> DEFINE R == {l \in DOMAIN prog : n \in variables(prog[l])}
<1>1. DOMAIN prog = 1 .. Len(prog) /\ Len(prog) \in Nat
  OBVIOUS
<1>2. j \in R /\ isRHSVariable(prog[j])
  BY <1>1 DEF Copies, variables
<1>3. n \in TempTensor /\ ~ (Cardinality(R) > 1)
  BY <1>2 DEF ForwardedResults
<1>4. ASSUME NEW l \in 1 .. Len(prog), n \in variables(prog[l]), l # j
      PROVE  FALSE
  <2>1. l \in R
    BY <1>1, <1>4
  <2>2. IsFiniteSet(R)
    <3>1. IsFiniteSet(1 .. Len(prog)) /\ R \subseteq 1 .. Len(prog)
      BY <1>1, FS_Interval
    <3> QED BY <3>1, FS_Subset
  <2>3. {j, l} \subseteq R
    BY <1>2, <2>1
  <2> HIDE DEF R
  <2>6. Cardinality({j, l}) = 2
    BY <1>4, TwoElements
  <2> DEFINE P == {j, l}
  <2>7. Cardinality(P) = 2 /\ P \subseteq R
    BY <2>3, <2>6
  <2> HIDE DEF P
  <2>8. Cardinality(P) <= Cardinality(R) /\ Cardinality(R) \in Nat
    BY <2>2, <2>7, FS_Subset, FS_CardinalityType
  <2> QED BY <1>3, <2>7, <2>8
<1> QED BY <1>3, <1>4

LEMMA LoweredExpired ==
  ASSUME NEW prog \in Seq(Actions), ForwardedResults(prog) = {}
  PROVE  Expired(prog)
<1> SUFFICES ASSUME NEW j \in 1 .. Len(prog), NEW n \in Tensor,
                    \E k \in 1 .. j - 1 : Def(prog[k]) = n, Copies(prog[j], n), Def(prog[j]) # n
             PROVE  Dead(prog, n, j)
  BY DEF Expired
<1>1. n \in TempTensor /\ \A l \in 1 .. Len(prog) : n \in variables(prog[l]) => l = j
  BY NoResultForwarded
<1>2. n \notin Global
  BY <1>1, NamesAssumption
<1> SUFFICES ASSUME NEW l \in j + 1 .. Len(prog) + 1, Needed(prog, n, l)
             PROVE  FALSE
  BY DEF Dead
<1>3. CASE l \in 1 .. Len(prog)
  <2>1. l = j
    BY <1>1, <1>3 DEF Needed
  <2> QED BY <2>1
<1>4. CASE l \notin 1 .. Len(prog)
  BY <1>2, <1>4 DEF Needed
<1> QED BY <1>3, <1>4

LEMMA LoweredRewritten ==
  ASSUME NEW prog \in Seq(Actions), ForwardedResults(prog) = {}, NEW W, W \subseteq Written(prog)
  PROVE  Rewritten(prog, W)
<1> SUFFICES ASSUME NEW j \in 1 .. Len(prog), NEW n \in Global \cap W,
                    Copies(prog[j], n), Def(prog[j]) # n
             PROVE  \E d \in j + 1 .. Len(prog) : Def(prog[d]) = n
  BY DEF Rewritten
<1>1. PICK d \in 1 .. Len(prog) : Def(prog[d]) = n
  BY DEF Written
<1>2. CASE d \in 1 .. j - 1
  <2>1. n \in TempTensor
    BY <1>1, <1>2, NoResultForwarded DEF Tensor
  <2> QED BY <2>1, NamesAssumption
<1>3. CASE d \notin 1 .. j - 1
  <2>1. Len(prog) \in Nat /\ d # j
    BY <1>1
  <2>2. d \in j + 1 .. Len(prog)
    BY <1>3, <2>1
  <2> QED BY <1>1, <2>2
<1> QED BY <1>2, <1>3

-----------------------------------------------------------------------------
(* The invariant *)

\* What holds of the program prog that the pass ph makes of the program ref.
Passing(ph, ref, prog, W, k) ==
  /\ Tidy(prog)
  /\ KeepsResults(ref, prog, TensorValues)
  /\ ph \in {"MergeScalarMultiplications", "SubstituteForward"} =>
       Dense(prog) /\ Barriers(prog) /\ Rewritten(prog, W)
  /\ ph = "MergeScalarMultiplications" => Unscaled(prog)
  /\ ph = "SubstituteBackward" => Dense(prog) /\ BarriersBelow(prog, k)

\* The kernels that PassesKeepMeaning is about.
Comparable == ~ misplaced /\ ForwardedResults(lowered) = {}

\* While the kernel is lowered, the program computes it (ValueInv) and is in order
\* (NInv); after that it computes what was lowered, and has what the pass that is at
\* work needs.
KInv ==
  /\ phase = "Lowering" => ValueInv /\ NInv
  /\ phase # "Lowering" /\ Comparable => Passing(phase, lowered, cfg, writable, i)

LEMMA InitKInv == TInit => KInv
BY InitValueInv, InitNInv DEF TInit, KInv

LEMMA LowerMeans == TInv /\ KInv /\ Lower => KInv'
<1> SUFFICES ASSUME TInv, KInv, Lower PROVE KInv'
  OBVIOUS
<1>1. phase = "Lowering" /\ phase' = phase /\ [LNext]_lvars
  BY DEF Lower, tvars
<1>2. LInv /\ ValueInv /\ NInv
  BY <1>1 DEF TInv, KInv
<1>3. ValueInv' /\ NInv'
  BY <1>1, <1>2, StepValueInv, StepNInv
<1> QED BY <1>1, <1>3 DEF KInv

LEMMA StartMeans == TInv /\ KInv /\ StartPasses => KInv'
<1> SUFFICES ASSUME TInv, KInv, StartPasses PROVE KInv'
  OBVIOUS
<1>1. /\ phase = "Lowering" /\ phase' = "MergeScalarMultiplications"
      /\ target = NoTarget /\ ~ simpleMemoryLayout
      /\ lowered' = cfg /\ cfg' = cfg /\ misplaced' = misplaced /\ writable' = writable
  BY DEF StartPasses, Lowered, lvars
<1>2. LInv /\ ValueInv /\ NInv
  BY <1>1 DEF TInv, KInv
<1> SUFFICES ASSUME ~ misplaced, ForwardedResults(cfg) = {}
             PROVE  Passing("MergeScalarMultiplications", cfg, cfg, writable, i')
  BY <1>1 DEF KInv, Comparable
<1>3. /\ cfg \in Seq(Actions) /\ NoSelf(cfg)
      /\ Unary(cfg) /\ \E f : Clean(cfg, TensorValues, f)
      /\ LocalSums(cfg) /\ Unscaled(cfg)
      /\ \E N : Settled(cfg, N)
      /\ \A k \in 1 .. Len(cfg) : \A v \in occurrences(cfg[k]) : Full(v)
  BY <1>2 DEF LInv, Lowerable, Plain, Base, ValueInv, Sane, NInv, Neat
<1>4. NoneAddedToItself(cfg)
  BY <1>3 DEF LocalSums, NoSelf, NoneAddedToItself
<1>5. Dense(cfg)
  BY <1>1, <1>3 DEF Dense, Full
<1>6. Barriers(cfg)
  BY <1>3 DEF Barriers, Settled
<1>7. writable \subseteq Written(cfg)
  BY <1>1, <1>2, TargetAssumption DEF NInv
<1>8. Expired(cfg) /\ Rewritten(cfg, writable)
  BY <1>3, <1>7, LoweredExpired, LoweredRewritten
<1>9. KeepsResults(cfg, cfg, TensorValues)
  BY <1>3 DEF KeepsResults, SameResults
<1>10. Tidy(cfg)
  <2>1. TempsFlow(cfg)
    BY <1>2 DEF NInv, Visible
  <2> QED BY <1>3, <1>4, <1>8, <2>1 DEF Tidy
<1> QED BY <1>3, <1>5, <1>6, <1>8, <1>9, <1>10 DEF Passing

-----------------------------------------------------------------------------
(* The steps of the passes *)

\* A step of a pass.
LEMMA PassMeans ==
  ASSUME KInv, phase # "Lowering", phase' # "Lowering", UnchangedLowering,
         Comparable /\ Passing(phase, lowered, cfg, writable, i)
           => Passing(phase', lowered, cfg', writable, i')
  PROVE  KInv'
<1>1. lowered' = lowered /\ misplaced' = misplaced /\ writable' = writable
  BY DEF UnchangedLowering
<1>2. Comparable' = Comparable
  BY <1>1 DEF Comparable
<1> QED BY <1>1, <1>2 DEF KInv

LEMMA PassingRuns ==
  ASSUME NEW ph, NEW ref, NEW prog, NEW W, NEW k, Passing(ph, ref, prog, W, k)
  PROVE  Runs(prog, TensorValues) /\ Tidy(prog)
BY KernelAssumption DEF Passing, KeepsResults, Runs

LEMMA KeepsOn ==
  ASSUME NEW ref, NEW prog, NEW new, NEW tensors, KeepsResults(ref, prog, tensors),
         KeepsResults(prog, new, tensors)
  PROVE  KeepsResults(ref, new, tensors)
BY DEF KeepsResults, SameResults

LEMMA MergeScalarStepMeans == TInv /\ KInv /\ MergeScalarStep => KInv'
<1> SUFFICES ASSUME TInv, KInv, MergeScalarStep PROVE KInv'
  OBVIOUS
<1>1. /\ phase = "MergeScalarMultiplications" /\ phase' = phase /\ i \in DOMAIN cfg
      /\ UnchangedLowering /\ Plain(cfg) /\ i \in Nat /\ i >= 2
  BY DEF MergeScalarStep, Unfinished, Advance, TInv
<1>2. cfg \in Seq(Actions) /\ i \in 2 .. Len(cfg)
  BY <1>1 DEF Plain, Base
<1> SUFFICES ASSUME Passing(phase, lowered, cfg, writable, i)
             PROVE  Passing(phase', lowered, cfg', writable, i')
  BY <1>1, PassMeans
<1>3. /\ Tidy(cfg) /\ Dense(cfg) /\ Unscaled(cfg) /\ Barriers(cfg) /\ Rewritten(cfg, writable)
      /\ KeepsResults(lowered, cfg, TensorValues)
  BY <1>1 DEF Passing
<1>4. CASE MergesScalar(cfg[i], cfg[i - 1])
  <2> DEFINE new == ScalarMerged(cfg, i)
  <2>1. cfg' = new
    BY <1>4 DEF MergeScalarStep, ScalarMerged
  <2>2. /\ Tidy(new) /\ Dense(new) /\ Unscaled(new) /\ Barriers(new) /\ Rewritten(new, writable)
        /\ KeepsResults(cfg, new, TensorValues)
    BY <1>1, <1>2, <1>3, <1>4, PassingRuns, MergeScalarMeans
  <2> HIDE DEF new
  <2>3. KeepsResults(lowered, new, TensorValues)
    BY <1>3, <2>2, KeepsOn
  <2> QED BY <1>1, <2>1, <2>2, <2>3 DEF Passing
<1>5. CASE ~ MergesScalar(cfg[i], cfg[i - 1])
  <2>1. cfg' = cfg
    BY <1>5 DEF MergeScalarStep
  <2> QED BY <1>1, <1>3, <2>1 DEF Passing
<1> QED BY <1>4, <1>5

LEMMA AnalyseLivenessMeans == TInv /\ KInv /\ AnalyseLiveness => KInv'
<1> SUFFICES ASSUME TInv, KInv, AnalyseLiveness PROVE KInv'
  OBVIOUS
<1>1. /\ phase = "MergeScalarMultiplications" /\ phase' = "SubstituteForward" /\ cfg' = cfg
      /\ UnchangedLowering
  BY DEF AnalyseLiveness
<1>2. Passing(phase, lowered, cfg, writable, i) => Passing(phase', lowered, cfg', writable, i')
  BY <1>1 DEF Passing
<1> QED BY <1>1, <1>2, PassMeans

LEMMA ForwardStepMeans == TInv /\ KInv /\ SubstituteForwardStep => KInv'
<1> SUFFICES ASSUME TInv, KInv, SubstituteForwardStep PROVE KInv'
  OBVIOUS
<1>1. /\ phase = "SubstituteForward" /\ phase' = phase /\ i \in DOMAIN cfg
      /\ UnchangedLowering /\ CodeSound /\ live = Liveness(cfg)
  BY DEF SubstituteForwardStep, Unfinished, Advance, TInv, Sums
<1>2. Sound(cfg) /\ cfg \in Seq(Actions) /\ i \in 1 .. Len(cfg) /\ i + 1 \in 1 .. Len(cfg) + 1
  BY <1>1 DEF CodeSound, Sound, Base
<1> SUFFICES ASSUME Passing(phase, lowered, cfg, writable, i)
             PROVE  Passing(phase', lowered, cfg', writable, i')
  BY <1>1, PassMeans
<1>3. /\ Tidy(cfg) /\ Dense(cfg) /\ Barriers(cfg) /\ Rewritten(cfg, writable)
      /\ KeepsResults(lowered, cfg, TensorValues)
  BY <1>1 DEF Passing
<1>4. CASE SubstitutesForward(i)
  <2> DEFINE new == SubstitutedAt(cfg, i .. Len(cfg), cfg[i].result, rhs(cfg[i]))
  <2>1. rhs(cfg[i]).name \notin UpwardExposed(cfg, i + 1)
    BY <1>1, <1>2, <1>4, LiveSet DEF SubstitutesForward
  <2>2. CanForward(cfg, writable, i)
    BY <1>2, <1>4, <2>1 DEF SubstitutesForward, CanForward, Def, IsWritten, isLocal
  <2>3. cfg' = new
    BY <1>4 DEF SubstituteForwardStep
  <2>4. /\ Tidy(new) /\ Dense(new) /\ Barriers(new) /\ Rewritten(new, writable)
        /\ KeepsResults(cfg, new, TensorValues)
    BY <1>2, <1>3, <2>2, PassingRuns, ForwardMeans
  <2> HIDE DEF new
  <2>5. KeepsResults(lowered, new, TensorValues)
    BY <1>3, <2>4, KeepsOn
  <2> QED BY <1>1, <2>3, <2>4, <2>5 DEF Passing
<1>5. CASE ~ SubstitutesForward(i)
  <2>1. cfg' = cfg
    BY <1>5 DEF SubstituteForwardStep
  <2> QED BY <1>1, <1>3, <2>1 DEF Passing
<1> QED BY <1>4, <1>5

LEMMA EndForwardMeans == TInv /\ KInv /\ EndSubstituteForward => KInv'
<1> SUFFICES ASSUME TInv, KInv, EndSubstituteForward PROVE KInv'
  OBVIOUS
<1>1. /\ phase = "SubstituteForward" /\ phase' = "SubstituteBackward" /\ cfg' = cfg
      /\ UnchangedLowering /\ Len(cfg) \in Nat
  BY DEF EndSubstituteForward, TInv, CodeSound, Sound, Base
<1>2. ASSUME Barriers(cfg) PROVE BarriersBelow(cfg, i')
  <2>1. ASSUME NEW e \in 1 .. Len(cfg), NEW d \in 1 .. e - 1, Repeats(cfg, e, d)
        PROVE  Barrier(cfg, d)
    <3>1. d \in 1 .. Len(cfg)
      BY <1>1
    <3> QED BY <1>2, <2>1, <3>1 DEF Barriers, Repeats
  <2> QED BY <2>1 DEF BarriersBelow
<1>3. Passing(phase, lowered, cfg, writable, i) => Passing(phase', lowered, cfg', writable, i')
  BY <1>1, <1>2 DEF Passing
<1> QED BY <1>1, <1>3, PassMeans

LEMMA BackwardStepMeans == TInv /\ KInv /\ SubstituteBackwardStep => KInv'
<1> SUFFICES ASSUME TInv, KInv, SubstituteBackwardStep PROVE KInv'
  OBVIOUS
<1>1. /\ phase = "SubstituteBackward" /\ phase' = phase /\ i \in DOMAIN cfg /\ i' = i - 1
      /\ UnchangedLowering /\ CodeSound /\ live = Liveness(cfg)
  BY DEF SubstituteBackwardStep, Unfinished, Advance, TInv, Sums
<1>2. Sound(cfg) /\ cfg \in Seq(Actions) /\ i \in 1 .. Len(cfg)
  BY <1>1 DEF CodeSound, Sound, Base
<1> SUFFICES ASSUME Passing(phase, lowered, cfg, writable, i)
             PROVE  Passing(phase', lowered, cfg', writable, i')
  BY <1>1, PassMeans
<1>3. /\ Tidy(cfg) /\ Dense(cfg) /\ BarriersBelow(cfg, i)
      /\ KeepsResults(lowered, cfg, TensorValues)
  BY <1>1 DEF Passing
<1> DEFINE found == Min(Definitions(i))
           when  == cfg[found].result
           by    == cfg[i].result
           substitutes == /\ ~ isCompound(cfg[i]) /\ isRHSVariable(cfg[i])
                          /\ isLocal(rhs(cfg[i]).name) /\ Definitions(i) # {}
                          /\ SubstitutesBackward(i, found)
           new == Replace(SubstitutedAt(cfg, found + 1 .. i, when, by), found,
                          ActionSubstituted(cfg[found], when, by, TRUE, FALSE))
<1>4. \/ substitutes /\ cfg' = new
      \/ cfg' = cfg
  BY DEF SubstituteBackwardStep
<1>5. CASE substitutes /\ cfg' = new
  <2>1. found \in Definitions(i)
    <3>1. Definitions(i) \subseteq Nat /\ Definitions(i) # {}
      BY <1>2, <1>5 DEF Definitions
    <3>2. \E x \in Definitions(i) : \A y \in Definitions(i) : x <= y
      BY <3>1, LeastNumber
    <3> QED BY <3>2 DEF Min
  <2> HIDE DEF found
  <2>2. /\ found \in 1 .. i - 1 /\ Def(cfg[i]) \notin live[found]
        /\ ~ isCompound(cfg[found]) /\ Def(cfg[found]) = rhs(cfg[i]).name
    BY <2>1 DEF Definitions
  <2>3. found \in 1 .. Len(cfg) + 1
    BY <1>2, <2>2
  <2>4. Def(cfg[i]) \notin UpwardExposed(cfg, found)
    BY <1>1, <1>2, <2>2, <2>3, LiveSet
  <2>5. CanBackward(cfg, i, found)
    BY <1>2, <1>5, <2>2, <2>4 DEF SubstitutesBackward, CanBackward
  <2>6. /\ Tidy(new) /\ Dense(new) /\ BarriersBelow(new, i - 1)
        /\ KeepsResults(cfg, new, TensorValues)
    BY <1>2, <1>3, <2>5, PassingRuns, BackwardMeans
  <2>7. cfg' = new
    BY <1>5
  <2> HIDE DEF new
  <2>8. KeepsResults(lowered, new, TensorValues)
    BY <1>3, <2>6, KeepsOn
  <2> QED BY <1>1, <2>6, <2>7, <2>8 DEF Passing
<1>6. CASE cfg' = cfg
  <2>1. BarriersBelow(cfg, i - 1)
    <3>1. \A e \in 1 .. Len(cfg) : e <= i - 1 => e <= i
      BY <1>2
    <3> QED BY <1>3, <3>1 DEF BarriersBelow
  <2> QED BY <1>1, <1>3, <1>6, <2>1 DEF Passing
<1> QED BY <1>4, <1>5, <1>6

LEMMA RemoveEmptyMeans == TInv /\ KInv /\ RemoveEmptyStatementsStep => KInv'
<1> SUFFICES ASSUME TInv, KInv, RemoveEmptyStatementsStep PROVE KInv'
  OBVIOUS
<1>1. /\ phase = "RemoveEmptyStatements" /\ phase' = phase /\ i \in DOMAIN cfg
      /\ UnchangedLowering /\ CodeSound
  BY DEF RemoveEmptyStatementsStep, Unfinished, Advance, TInv, Sums
<1>2. Sound(cfg) /\ cfg \in Seq(Actions) /\ i \in 1 .. Len(cfg)
  BY <1>1 DEF CodeSound, Sound, Base
<1> SUFFICES ASSUME Passing(phase, lowered, cfg, writable, i)
             PROVE  Passing(phase', lowered, cfg', writable, i')
  BY <1>1, PassMeans
<1>3. Tidy(cfg) /\ KeepsResults(lowered, cfg, TensorValues)
  BY DEF Passing
<1>4. CASE IsEmptyStatement(cfg[i])
  <2>1. cfg' = RemoveAt(cfg, i)
    BY <1>4 DEF RemoveEmptyStatementsStep
  <2>2. Tidy(cfg') /\ KeepsResults(cfg, cfg', TensorValues)
    BY <1>2, <1>3, <1>4, <2>1, PassingRuns, RemoveMeans
  <2>3. KeepsResults(lowered, cfg', TensorValues)
    BY <1>3, <2>2, KeepsOn
  <2> QED BY <1>1, <2>2, <2>3 DEF Passing
<1>5. CASE ~ IsEmptyStatement(cfg[i])
  <2>1. cfg' = cfg
    BY <1>5 DEF RemoveEmptyStatementsStep
  <2> QED BY <1>1, <1>3, <2>1 DEF Passing
<1> QED BY <1>4, <1>5

LEMMA MergeActionsMeans == TInv /\ KInv /\ MergeActionsStep => KInv'
<1> SUFFICES ASSUME TInv, KInv, MergeActionsStep PROVE KInv'
  OBVIOUS
<1>1. /\ phase = "MergeActions" /\ phase' = phase /\ i \in DOMAIN cfg
      /\ UnchangedLowering /\ CodeSound
  BY DEF MergeActionsStep, Unfinished, Advance, TInv, Sums
<1>2. Sound(cfg) /\ cfg \in Seq(Actions) /\ i \in 1 .. Len(cfg)
  BY <1>1 DEF CodeSound, Sound, Base
<1> SUFFICES ASSUME Passing(phase, lowered, cfg, writable, i)
             PROVE  Passing(phase', lowered, cfg', writable, i')
  BY <1>1, PassMeans
<1>3. Tidy(cfg) /\ KeepsResults(lowered, cfg, TensorValues)
  BY DEF Passing
<1> DEFINE stops == {j \in i + 1 .. Len(cfg) : StopsScan(i, j)}
           found == Min(stops)
           merge == /\ ~ isCompound(cfg[i])
                    /\ stops # {}
                    /\ Merges(i, found)
           new == RemoveAt(Replace(cfg, i, Merged(cfg[i], cfg[found])), found)
<1>4. \/ merge /\ cfg' = new
      \/ cfg' = cfg
  BY DEF MergeActionsStep
<1>5. CASE merge /\ cfg' = new
  <2>1. found \in stops /\ \A j \in stops : found <= j
    <3>1. stops \subseteq Nat /\ stops # {}
      BY <1>2, <1>5
    <3> HIDE DEF stops
    <3>2. \E x \in stops : \A y \in stops : x <= y
      BY <3>1, LeastNumber
    <3> QED BY <3>2 DEF Min
  <2> HIDE DEF found
  <2>2. found \in i + 1 .. Len(cfg) /\ \A j \in i + 1 .. found - 1 : ~ StopsScan(i, j)
    <3>1. found \in i + 1 .. Len(cfg)
      BY <2>1
    <3>2. ASSUME NEW j \in i + 1 .. found - 1 PROVE ~ StopsScan(i, j)
      <4>1. j \in i + 1 .. Len(cfg) /\ ~ (found <= j)
        BY <1>2, <3>1
      <4> QED BY <2>1, <4>1
    <3> QED BY <3>1, <3>2
  <2>3. /\ isRHSVariable(cfg[found]) /\ rhs(cfg[found]).name = Def(cfg[i])
        /\ Def(cfg[found]) \notin TouchedBetween(i, found)
        /\ hasTrivialScalar(cfg[i]) \/ hasTrivialScalar(cfg[found])
    BY <1>5 DEF Merges
  <2>4. /\ Def(cfg[found]) \notin variables(cfg[i])
        /\ \A j \in i + 1 .. found - 1 : Def(cfg[found]) \notin occurring(cfg[j])
    BY <2>3 DEF TouchedBetween, occurring
  <2>5. \A j \in i + 1 .. found - 1 : Def(cfg[i]) \notin occurring(cfg[j])
    BY <2>2 DEF StopsScan, occurring
  <2>6. Tidy(new) /\ KeepsResults(cfg, new, TensorValues)
    BY <1>2, <1>3, <1>5, <2>2, <2>3, <2>4, <2>5, PassingRuns, MergeMeans
  <2>7. cfg' = new
    BY <1>5
  <2> HIDE DEF new
  <2>8. KeepsResults(lowered, new, TensorValues)
    BY <1>3, <2>6, KeepsOn
  <2> QED BY <1>1, <2>6, <2>7, <2>8 DEF Passing
<1>6. CASE cfg' = cfg
  BY <1>1, <1>3, <1>6 DEF Passing
<1> QED BY <1>4, <1>5, <1>6

LEMMA EndMeans ==
  ASSUME TInv, KInv, EndSubstituteBackward \/ EndRemoveEmptyStatements \/ EndMergeActions
  PROVE  KInv'
<1>1. /\ phase # "Lowering" /\ cfg' = cfg /\ UnchangedLowering
      /\ phase' \in {"RemoveEmptyStatements", "MergeActions", "Optimised"}
  BY DEF EndSubstituteBackward, EndRemoveEmptyStatements, EndMergeActions
<1>2. Passing(phase, lowered, cfg, writable, i) => Passing(phase', lowered, cfg', writable, i')
  BY <1>1 DEF Passing
<1>3. phase' # "Lowering"
  BY <1>1
<1> QED BY <1>1, <1>2, <1>3, PassMeans

LEMMA StutterMeans == TInv /\ KInv /\ UNCHANGED vars => KInv'
<1> SUFFICES ASSUME TInv, KInv, UNCHANGED vars PROVE KInv'
  OBVIOUS
<1>1. UNCHANGED <<cfg, writable, misplaced, phase, i, lowered>> /\ [LNext]_lvars
  BY DEF vars, lvars, tvars
<1>2. phase = "Lowering" => ValueInv' /\ NInv'
  BY <1>1, StepValueInv, StepNInv DEF TInv, KInv
<1>3. Comparable' = Comparable
  BY <1>1 DEF Comparable
<1> QED BY <1>1, <1>2, <1>3 DEF KInv

LEMMA StepKInv == TInv /\ KInv /\ [TNext]_vars => KInv'
BY LowerMeans, StartMeans, MergeScalarStepMeans, AnalyseLivenessMeans, ForwardStepMeans,
   EndForwardMeans, BackwardStepMeans, RemoveEmptyMeans, MergeActionsMeans, EndMeans,
   StutterMeans DEF TNext, Passes

\* For kernels of any length, layouts, values and tensors: at every point between two
\* iterations of MergeScalarMultiplications, SubstituteForward, SubstituteBackward,
\* RemoveEmptyStatements and MergeActions (controlflow/transformer.py, in the order of
\* Kernel.prepareUntilCodeGen), executing the program leaves in every tensor that is not
\* temporary what the lowered one leaves in it.
THEOREM PassesPreserveMeaning == TSpec => []PassesKeepMeaning
<1>1. KInv => PassesKeepMeaning
  BY DEF KInv, Comparable, Passing, KeepsResults, SameResults, PassesKeepMeaning, Optimising
<1>2. TSpec => []KInv
  BY TInvariant, InitKInv, StepKInv, PTL DEF TSpec
<1> QED BY <1>1, <1>2, PTL

-----------------------------------------------------------------------------
(* The buffers: the inductive invariant *)

\* What the pass is given does not change.
Given ==
  /\ cfg \in Seq(Actions)
  /\ LivenessOf(cfg, live)

\* What the next statement or a later one reads is bound and not about to be
\* freed.  LiveLocalsApart is not inductive without it: FreeBuffer must not
\* take the buffer of a live variable away.
LiveBound == \A n \in live[point + 1] \ Tensor : n \in DOMAIN used \ pending

DInv ==
  /\ Given
  /\ DTypeOK
  /\ BuffersOwnedOnce
  /\ LiveBound

-----------------------------------------------------------------------------
(* Facts about the points and the dictionaries *)

LEMMA DefIsName ==
  ASSUME NEW prog \in Seq(Actions), NEW k \in DOMAIN prog
  PROVE  Def(prog[k]) \in Name
<1>1. prog[k] \in Actions
  OBVIOUS
<1>2. prog[k].result \in Variables
  BY <1>1 DEF Actions
<1> QED
  BY <1>2 DEF Def, Variables

\* What is live after a statement was live before it or is its result, and
\* the result of a compound action was live before it.
LEMMA LiveAfter ==
  ASSUME Given, NEW k \in DOMAIN cfg
  PROVE  /\ live[k + 1] \subseteq live[k] \cup {Def(cfg[k])}
         /\ isCompound(cfg[k]) => Def(cfg[k]) \in live[k]
<1>1. k \in 1 .. Len(cfg)
  BY DEF Given
<1>2. live[k] = (live[k + 1] \ {Def(cfg[k])}) \cup variables(cfg[k])
  BY <1>1 DEF Given, LivenessOf
<1> QED
  BY <1>2 DEF variables, isCompound, Def

\* A visited point keeps LiveBound if every variable keeps its buffer and the
\* result has one when the statement takes one.
LEMMA VisitKeepsLiveBound ==
  ASSUME DInv, Visit(point + 1),
         DOMAIN used \subseteq DOMAIN used',
         TakesBuffer(cfg[point + 1]) => Def(cfg[point + 1]) \in DOMAIN used',
         pending' = Dying(point + 1, DOMAIN used')
  PROVE  LiveBound'
<1> DEFINE k == point + 1
<1>1. k \in DOMAIN cfg /\ point' = k /\ live' = live /\ pending = {}
  BY DEF Visit
<1>2. \A n \in live[k] \ Tensor : n \in DOMAIN used
  BY DEF DInv, LiveBound
<1>3. /\ live[k + 1] \subseteq live[k] \cup {Def(cfg[k])}
      /\ isCompound(cfg[k]) => Def(cfg[k]) \in live[k]
  BY <1>1, LiveAfter DEF DInv
<1> HIDE DEF k
<1>4. ASSUME NEW n \in live[k + 1] \ Tensor
      PROVE  n \in DOMAIN used' \ pending'
  <2>1. n \notin pending'
    BY DEF Dying, k
  <2>2. CASE n \in live[k]
    BY <1>2, <2>1, <2>2
  <2>3. CASE n = Def(cfg[k]) /\ ~ isCompound(cfg[k])
    BY <2>1, <2>3 DEF TakesBuffer, isGlobal, Tensor, k
  <2> QED
    BY <1>3, <2>2, <2>3
<1> QED
  BY <1>1, <1>4 DEF LiveBound

-----------------------------------------------------------------------------
(* Initial states *)

LEMMA InvInit == DInit => DInv
<1> SUFFICES ASSUME DInit PROVE DInv
  OBVIOUS
<1>1. DTypeOK
  BY DEF DInit, DStart, DTypeOK, Empty, Buffers
<1>2. BuffersOwnedOnce
  BY DEF DInit, DStart, BuffersOwnedOnce, Empty
<1>3. LiveBound
  BY DEF DInit, DStart, LiveBound
<1> QED
  BY <1>1, <1>2, <1>3 DEF DInit, DInv, Given

-----------------------------------------------------------------------------
(* One lemma per action *)

LEMMA KeepBufferInv == DInv /\ KeepBuffer => DInv'
<1> SUFFICES ASSUME DInv, KeepBuffer PROVE DInv'
  OBVIOUS
<1> DEFINE a == cfg[point + 1]
           n == Def(a)
           b == used[n]
<1>1. /\ Visit(point + 1) /\ TakesBuffer(a) /\ n \in DOMAIN used /\ Bind(a, b)
      /\ UNCHANGED <<free, numBuffers>>
      /\ pending' = Dying(point + 1, DOMAIN used')
  BY DEF KeepBuffer
<1>2. point + 1 \in DOMAIN cfg /\ point' = point + 1 /\ UNCHANGED <<cfg, live>>
  BY <1>1 DEF Visit
<1>3. n \in Name /\ b \in Buffers /\ Buffers' = Buffers
  BY <1>1, <1>2, DefIsName DEF DInv, Given, DTypeOK, Buffers
<1>4. /\ DOMAIN used' = DOMAIN used
      /\ \A m \in DOMAIN used : used'[m] = used[m]
      /\ DOMAIN bufferSize' = DOMAIN bufferSize \cup {b}
      /\ \A c \in DOMAIN bufferSize : c # b => bufferSize'[c] = bufferSize[c]
  BY <1>1 DEF Bind, Set
<1>5. bufferSize'[b] \in {1, 2}
  BY <1>1, <1>3 DEF Bind, Set, LargerSize, requiredReals, DInv, DTypeOK
<1> HIDE DEF n, b
<1>6. DTypeOK'
  <2>1. point' \in 0 .. Len(cfg')
    BY <1>2 DEF DInv, DTypeOK, Given
  <2>2. pending' \subseteq DOMAIN used'
    BY <1>1 DEF Dying
  <2> QED
    BY <1>1, <1>3, <1>4, <1>5, <2>1, <2>2 DEF DTypeOK, DInv
<1>7. BuffersOwnedOnce'
  BY <1>1, <1>4 DEF BuffersOwnedOnce, DInv
<1>8. LiveBound'
  BY <1>1, <1>4, VisitKeepsLiveBound DEF n
<1> QED
  BY <1>2, <1>6, <1>7, <1>8 DEF DInv, Given

LEMMA ReuseBufferInv == DInv /\ ReuseBuffer => DInv'
<1> SUFFICES ASSUME DInv, ReuseBuffer PROVE DInv'
  OBVIOUS
<1> DEFINE a == cfg[point + 1]
           n == Def(a)
           b == Head(free)
<1>1. /\ Visit(point + 1) /\ TakesBuffer(a) /\ n \notin DOMAIN used
      /\ free # <<>> /\ Bind(a, b) /\ free' = Tail(free)
      /\ numBuffers' = numBuffers
      /\ pending' = Dying(point + 1, DOMAIN used')
  BY DEF ReuseBuffer
<1>2. point + 1 \in DOMAIN cfg /\ point' = point + 1 /\ UNCHANGED <<cfg, live>>
  BY <1>1 DEF Visit
<1>3. free \in Seq(Buffers) /\ Buffers' = Buffers
  BY <1>1 DEF DInv, DTypeOK, Buffers
<1>4. n \in Name
  BY <1>2, DefIsName DEF DInv, Given
<1>5. b \in Buffers /\ b = free[1] /\ 1 \in DOMAIN free
  BY <1>1, <1>3
<1>6. /\ free' \in Seq(Buffers)
      /\ \A j \in DOMAIN free' : j + 1 \in DOMAIN free /\ free'[j] = free[j + 1]
  BY <1>1, <1>3
<1>7. /\ DOMAIN used' = DOMAIN used \cup {n}
      /\ used'[n] = b
      /\ \A m \in DOMAIN used : used'[m] = used[m]
      /\ DOMAIN bufferSize' = DOMAIN bufferSize \cup {b}
      /\ \A c \in DOMAIN bufferSize : c # b => bufferSize'[c] = bufferSize[c]
  BY <1>1 DEF Bind, Set
<1>8. bufferSize'[b] \in {1, 2}
  BY <1>1, <1>5 DEF Bind, Set, LargerSize, requiredReals, DInv, DTypeOK
<1>9. DTypeOK'
  <2>1. point' \in 0 .. Len(cfg')
    BY <1>2 DEF DInv, DTypeOK, Given
  <2>2. pending' \subseteq DOMAIN used'
    BY <1>1 DEF Dying
  <2> HIDE DEF n, b
  <2> QED
    BY <1>1, <1>3, <1>4, <1>5, <1>6, <1>7, <1>8, <2>1, <2>2 DEF DTypeOK, DInv
<1>10. BuffersOwnedOnce'
  <2> HIDE DEF n, b
  <2>1. \A m \in DOMAIN used : used[m] # b
    BY <1>5 DEF BuffersOwnedOnce, DInv
  <2>2. \A m, p \in DOMAIN used' : used'[m] = used'[p] => m = p
    BY <1>7, <2>1 DEF BuffersOwnedOnce, DInv
  <2>3. \A j, k \in DOMAIN free' : free'[j] = free'[k] => j = k
    <3> SUFFICES ASSUME NEW j \in DOMAIN free', NEW k \in DOMAIN free',
                        free'[j] = free'[k]
                 PROVE  j = k
      OBVIOUS
    <3>1. j + 1 = k + 1
      BY <1>6 DEF BuffersOwnedOnce, DInv
    <3>2. j \in Nat /\ k \in Nat
      BY <1>6
    <3> QED
      BY <3>1, <3>2
  <2>4. \A j \in DOMAIN free' : free'[j] # b
    <3> SUFFICES ASSUME NEW j \in DOMAIN free', free'[j] = b PROVE FALSE
      OBVIOUS
    <3>1. j + 1 = 1
      BY <1>5, <1>6 DEF BuffersOwnedOnce, DInv
    <3>2. j \in Nat \ {0}
      BY <1>6
    <3> QED
      BY <3>1, <3>2
  <2>5. \A m \in DOMAIN used', j \in DOMAIN free' : used'[m] # free'[j]
    BY <1>6, <1>7, <2>4 DEF BuffersOwnedOnce, DInv
  <2> QED
    BY <2>2, <2>3, <2>5 DEF BuffersOwnedOnce
<1>11. LiveBound'
  BY <1>1, <1>7, VisitKeepsLiveBound
<1> QED
  BY <1>2, <1>9, <1>10, <1>11 DEF DInv, Given

LEMMA NewBufferInv == DInv /\ NewBuffer => DInv'
<1> SUFFICES ASSUME DInv, NewBuffer PROVE DInv'
  OBVIOUS
<1> DEFINE a == cfg[point + 1]
           n == Def(a)
           b == numBuffers
<1>1. /\ Visit(point + 1) /\ TakesBuffer(a) /\ n \notin DOMAIN used
      /\ free = <<>> /\ Bind(a, b) /\ free' = free
      /\ numBuffers' = numBuffers + 1
      /\ pending' = Dying(point + 1, DOMAIN used')
  BY DEF NewBuffer
<1>2. point + 1 \in DOMAIN cfg /\ point' = point + 1 /\ UNCHANGED <<cfg, live>>
  BY <1>1 DEF Visit
<1>3. b \in Nat /\ b \notin Buffers /\ Buffers' = Buffers \cup {b}
  BY <1>1 DEF DInv, DTypeOK, Buffers
<1>4. n \in Name
  BY <1>2, DefIsName DEF DInv, Given
<1>5. /\ DOMAIN used' = DOMAIN used \cup {n}
      /\ used'[n] = b
      /\ \A m \in DOMAIN used : used'[m] = used[m]
      /\ DOMAIN bufferSize' = DOMAIN bufferSize \cup {b}
      /\ \A c \in DOMAIN bufferSize : c # b => bufferSize'[c] = bufferSize[c]
  BY <1>1 DEF Bind, Set
<1>6. bufferSize'[b] \in {1, 2}
  BY <1>1, <1>3 DEF Bind, Set, LargerSize, requiredReals, DInv, DTypeOK
<1>7. DTypeOK'
  <2>1. point' \in 0 .. Len(cfg')
    BY <1>2 DEF DInv, DTypeOK, Given
  <2>2. pending' \subseteq DOMAIN used'
    BY <1>1 DEF Dying
  <2>3. free' \in Seq(Buffers') /\ numBuffers' \in Nat
    BY <1>1, <1>3
  <2> HIDE DEF n
  <2> QED
    BY <1>3, <1>4, <1>5, <1>6, <2>1, <2>2, <2>3 DEF DTypeOK, DInv
<1>8. BuffersOwnedOnce'
  <2> HIDE DEF n
  <2>1. \A m \in DOMAIN used : used[m] # b
    BY <1>3 DEF DInv, DTypeOK
  <2> QED
    BY <1>1, <1>5, <2>1 DEF BuffersOwnedOnce, DInv
<1>9. LiveBound'
  BY <1>1, <1>5, VisitKeepsLiveBound
<1> QED
  BY <1>2, <1>7, <1>8, <1>9 DEF DInv, Given

LEMMA NoBufferInv == DInv /\ NoBuffer => DInv'
<1> SUFFICES ASSUME DInv, NoBuffer PROVE DInv'
  OBVIOUS
<1>1. /\ Visit(point + 1) /\ ~ TakesBuffer(cfg[point + 1])
      /\ UNCHANGED <<used, free, numBuffers, bufferSize>>
      /\ pending' = Dying(point + 1, DOMAIN used')
  BY DEF NoBuffer
<1>2. point + 1 \in DOMAIN cfg /\ point' = point + 1 /\ UNCHANGED <<cfg, live>>
  BY <1>1 DEF Visit
<1>3. DTypeOK'
  <2>1. point' \in 0 .. Len(cfg')
    BY <1>2 DEF DInv, DTypeOK, Given
  <2>2. pending' \subseteq DOMAIN used'
    BY <1>1 DEF Dying
  <2> QED
    BY <1>1, <2>1, <2>2 DEF DTypeOK, DInv, Buffers
<1>4. BuffersOwnedOnce'
  BY <1>1 DEF BuffersOwnedOnce, DInv
<1>5. LiveBound'
  BY <1>1, VisitKeepsLiveBound
<1> QED
  BY <1>2, <1>3, <1>4, <1>5 DEF DInv, Given

LEMMA FreeBufferInv ==
  ASSUME NEW n \in pending, DInv, FreeBuffer(n)
  PROVE  DInv'
<1> DEFINE b == used[n]
<1>1. /\ free' = Append(free, b) /\ used' = Pop(used, n)
      /\ pending' = pending \ {n}
      /\ UNCHANGED <<cfg, live, point, numBuffers, bufferSize, bufferMap>>
  BY DEF FreeBuffer
<1>2. n \in DOMAIN used /\ b \in Buffers /\ free \in Seq(Buffers) /\ Buffers' = Buffers
  BY <1>1 DEF DInv, DTypeOK, Buffers
<1>3. /\ DOMAIN used' = DOMAIN used \ {n}
      /\ \A m \in DOMAIN used' : used'[m] = used[m]
  BY <1>1 DEF Pop
<1>4. /\ free' \in Seq(Buffers)
      /\ DOMAIN free' = DOMAIN free \cup {Len(free) + 1}
      /\ Len(free) + 1 \notin DOMAIN free
      /\ free'[Len(free) + 1] = b
      /\ \A j \in DOMAIN free : free'[j] = free[j]
  BY <1>1, <1>2
<1> HIDE DEF b
<1>5. DTypeOK'
  BY <1>1, <1>2, <1>3, <1>4 DEF DInv, DTypeOK
<1>6. BuffersOwnedOnce'
  <2>1. \A j \in DOMAIN free : free[j] # b
    BY <1>2 DEF b, DInv, BuffersOwnedOnce
  <2>2. \A m \in DOMAIN used' : used'[m] # b
    BY <1>2, <1>3 DEF b, DInv, BuffersOwnedOnce
  <2> QED
    BY <1>3, <1>4, <2>1, <2>2 DEF DInv, BuffersOwnedOnce
<1>7. LiveBound'
  BY <1>1, <1>3 DEF DInv, LiveBound
<1> QED
  BY <1>1, <1>5, <1>6, <1>7 DEF DInv, Given

LEMMA InvNext == DInv /\ [DNext]_dvars => DInv'
<1> SUFFICES ASSUME DInv, [DNext]_dvars PROVE DInv'
  OBVIOUS
<1>1. CASE KeepBuffer
  BY <1>1, KeepBufferInv
<1>2. CASE ReuseBuffer
  BY <1>2, ReuseBufferInv
<1>3. CASE NewBuffer
  BY <1>3, NewBufferInv
<1>4. CASE NoBuffer
  BY <1>4, NoBufferInv
<1>5. CASE \E n \in pending : FreeBuffer(n)
  BY <1>5, FreeBufferInv
<1>6. CASE UNCHANGED dvars
  BY <1>6 DEF dvars, DInv, Given, DTypeOK, BuffersOwnedOnce, LiveBound, Buffers
<1> QED
  BY <1>1, <1>2, <1>3, <1>4, <1>5, <1>6 DEF DNext

-----------------------------------------------------------------------------
(* The theorems about the buffers *)

\* The inductive invariant holds throughout the pass.
THEOREM Invariance == DSpec => []DInv
BY InvInit, InvNext, PTL DEF DSpec

\* The dictionaries of the pass keep their types: every buffer that is in use
\* or queued has been counted and has a size.
THEOREM TypeCorrect == DSpec => []DTypeOK
BY Invariance, PTL DEF DInv

\* No buffer is lost and none is owned twice.
THEOREM OwnedOnce == DSpec => []BuffersOwnedOnce
BY Invariance, PTL DEF DInv

\* Temporaries that are live together have different buffers.
THEOREM NoLiveOverlap == DSpec => []LiveLocalsApart
<1>1. DInv => LiveLocalsApart
  BY DEF DInv, LiveBound, BuffersOwnedOnce, LiveLocalsApart
<1> QED
  BY <1>1, Invariance, PTL

\* The buffer of a temporary does not change while the temporary is live.
THEOREM StableWhileLive == DSpec => BufferStable
<1>1. DInv /\ [DNext]_dvars => [StableStep]_dvars
  <2> SUFFICES ASSUME DInv, DNext,
                      NEW n \in (live[point + 1] \cap live'[point' + 1]) \ Tensor
               PROVE  n \in DOMAIN used' /\ used'[n] = used[n]
    BY DEF StableStep
  <2>1. n \in DOMAIN used /\ n \notin pending
    BY DEF DInv, LiveBound
  <2>2. CASE KeepBuffer
    BY <2>1, <2>2 DEF KeepBuffer, Bind, Set
  <2>3. CASE ReuseBuffer
    BY <2>1, <2>3 DEF ReuseBuffer, Bind, Set
  <2>4. CASE NewBuffer
    BY <2>1, <2>4 DEF NewBuffer, Bind, Set
  <2>5. CASE NoBuffer
    BY <2>1, <2>5 DEF NoBuffer
  <2>6. CASE \E m \in pending : FreeBuffer(m)
    BY <2>1, <2>6 DEF FreeBuffer, Pop
  <2> QED
    BY <2>2, <2>3, <2>4, <2>5, <2>6 DEF DNext
<1> QED
  BY <1>1, Invariance, PTL DEF DSpec, BufferStable

-----------------------------------------------------------------------------
(* Sizes *)

\* One entry per visited point; the buffer of an entry has been allocated
\* large enough, and allocations only grow.
Dictionaries == UNION {[S -> Nat] : S \in SUBSET Name}

FInv ==
  /\ bufferMap \in Seq(Dictionaries)
  /\ Len(bufferMap) = point
  /\ BufferFits

\* The size of a buffer covers the variable it is bound to and is never less
\* than it was.
LEMMA SizesGrow ==
  DInv /\ [DNext]_dvars =>
    \A b \in DOMAIN bufferSize : b \in DOMAIN bufferSize' /\ bufferSize'[b] >= bufferSize[b]
<1> SUFFICES ASSUME DInv, [DNext]_dvars, NEW b \in DOMAIN bufferSize
             PROVE  b \in DOMAIN bufferSize' /\ bufferSize'[b] >= bufferSize[b]
  OBVIOUS
<1>1. bufferSize[b] \in {1, 2}
  BY DEF DInv, DTypeOK
<1>3. CASE KeepBuffer
  BY <1>1, <1>3 DEF KeepBuffer, Bind, Set, LargerSize, requiredReals
<1>4. CASE ReuseBuffer
  BY <1>1, <1>4 DEF ReuseBuffer, Bind, Set, LargerSize, requiredReals
<1>5. CASE NewBuffer
  BY <1>1, <1>5 DEF NewBuffer, Bind, Set, LargerSize, requiredReals
<1>6. CASE NoBuffer
  BY <1>1, <1>6 DEF NoBuffer
<1>7. CASE \E n \in pending : FreeBuffer(n)
  BY <1>1, <1>7 DEF FreeBuffer
<1>8. CASE UNCHANGED dvars
  BY <1>1, <1>8 DEF dvars
<1> QED
  BY <1>3, <1>4, <1>5, <1>6, <1>7, <1>8 DEF DNext
\* A visited point adds an entry that fits.
LEMMA VisitFits ==
  ASSUME DInv, FInv, [DNext]_dvars, NEW STATE e, e \in Dictionaries,
         point' = point + 1, cfg' = cfg, bufferMap' = Append(bufferMap, e),
         \A n \in DOMAIN e :
           /\ e[n] \in DOMAIN bufferSize'
           /\ bufferSize'[e[n]] >= requiredReals(cfg[point + 1].result.lay)
  PROVE  FInv'
<1>1. /\ bufferMap' \in Seq(Dictionaries)
      /\ Len(bufferMap') = point'
      /\ DOMAIN bufferMap' = DOMAIN bufferMap \cup {point + 1}
      /\ bufferMap'[point + 1] = e
      /\ \A k \in DOMAIN bufferMap : bufferMap'[k] = bufferMap[k]
  BY DEF FInv, DInv, DTypeOK
<1>2. ASSUME NEW k \in DOMAIN bufferMap, NEW n \in DOMAIN bufferMap[k]
      PROVE  /\ bufferMap[k][n] \in DOMAIN bufferSize'
             /\ bufferSize'[bufferMap[k][n]] >= requiredReals(cfg[k].result.lay)
  <2> DEFINE b    == bufferMap[k][n]
             need == requiredReals(cfg[k].result.lay)
  <2>1. b \in DOMAIN bufferSize /\ bufferSize[b] >= need
    BY DEF FInv, BufferFits
  <2>2. b \in DOMAIN bufferSize' /\ bufferSize'[b] >= bufferSize[b]
    BY <2>1, SizesGrow
  <2>3. need \in Int /\ bufferSize[b] \in Int /\ bufferSize'[b] \in Int
    BY <2>1, <2>2, InvNext DEF requiredReals, DInv, DTypeOK
  <2> HIDE DEF b, need
  <2>4. bufferSize'[b] >= need
    BY <2>1, <2>2, <2>3
  <2> QED
    BY <2>2, <2>4 DEF b, need
<1>3. BufferFits'
  BY <1>1, <1>2 DEF BufferFits
<1> QED
  BY <1>1, <1>3 DEF FInv

\* The entry of a point that binds the variable n to the buffer b.
LEMMA Entry ==
  ASSUME NEW n \in Name, NEW b \in Nat
  PROVE  /\ Set(Empty, n, b) \in Dictionaries
         /\ DOMAIN Set(Empty, n, b) = {n}
         /\ Set(Empty, n, b)[n] = b
         /\ Empty \in Dictionaries
<1>1. Set(Empty, n, b) \in [{n} -> Nat] /\ Empty \in [{} -> Nat]
  BY DEF Set, Empty
<1>2. {n} \in SUBSET Name /\ {} \in SUBSET Name
  OBVIOUS
<1> QED
  BY <1>1, <1>2 DEF Set, Empty, Dictionaries

LEMMA FitsInit == DInit => FInv
BY DEF DInit, DStart, FInv, BufferFits

LEMMA FitsNext == DInv /\ FInv /\ [DNext]_dvars => FInv'
<1> SUFFICES ASSUME DInv, FInv, [DNext]_dvars PROVE FInv'
  OBVIOUS
<1> DEFINE a == cfg[point + 1]
           n == Def(a)
<1>1. ASSUME NEW STATE b, b \in Nat, Visit(point + 1), Bind(a, b)
      PROVE  FInv'
  <2>1. point + 1 \in DOMAIN cfg /\ point' = point + 1 /\ cfg' = cfg
    BY <1>1 DEF Visit
  <2>2. n \in Name
    BY <2>1, DefIsName DEF DInv, Given
  <2>3. /\ bufferMap' = Append(bufferMap, Set(Empty, n, b))
        /\ bufferSize' = Set(bufferSize, b, LargerSize(b, requiredReals(a.result.lay)))
    BY <1>1 DEF Bind
  <2>4. b \in DOMAIN bufferSize' /\ bufferSize'[b] >= requiredReals(a.result.lay)
    BY <2>3 DEF Set, LargerSize, requiredReals, DInv, DTypeOK
  <2> DEFINE e == Set(Empty, n, b)
  <2>5. e \in Dictionaries /\ DOMAIN e = {n} /\ e[n] = b
    BY <1>1, <2>2, Entry
  <2> HIDE DEF e
  <2> QED
    BY <2>1, <2>3, <2>4, <2>5, VisitFits DEF e
<1>2. CASE KeepBuffer
  <2>1. used[n] \in Nat
    BY <1>2 DEF KeepBuffer, DInv, DTypeOK, Buffers
  <2> QED
    BY <1>1, <1>2, <2>1 DEF KeepBuffer
<1>3. CASE ReuseBuffer
  <2>1. Head(free) \in Nat
    BY <1>3 DEF ReuseBuffer, DInv, DTypeOK, Buffers
  <2> QED
    BY <1>1, <1>3, <2>1 DEF ReuseBuffer
<1>4. CASE NewBuffer
  BY <1>1, <1>4 DEF NewBuffer, DInv, DTypeOK
<1>5. CASE NoBuffer
  <2>1. Empty \in Dictionaries /\ DOMAIN Empty = {}
    BY DEF Empty, Dictionaries
  <2> QED
    BY <1>5, <2>1, VisitFits DEF NoBuffer, Visit
<1>6. CASE \E m \in pending : FreeBuffer(m)
  BY <1>6 DEF FreeBuffer, FInv, BufferFits
<1>7. CASE UNCHANGED dvars
  BY <1>7 DEF dvars, FInv, BufferFits
<1> QED
  BY <1>2, <1>3, <1>4, <1>5, <1>6, <1>7 DEF DNext

\* Every variable fits the buffer it is bound to, at the sizes known when it
\* is bound and at those that are finally allocated.
THEOREM BuffersFit == DSpec => []BufferFits
<1>1. FInv => BufferFits
  BY DEF FInv
<1> QED
  BY <1>1, FitsInit, FitsNext, Invariance, PTL DEF DSpec

-----------------------------------------------------------------------------
(* The pass implements a pool of buffers *)

\* The dictionary usedBuffers is a function, which DTypeOK does not say.
UsedIsFunction == used = [m \in DOMAIN used |-> used[m]]

Queued == {free[k] : k \in DOMAIN free}

LEMMA HeadOfQueue ==
  ASSUME DTypeOK, BuffersOwnedOnce, free # <<>>
  PROVE  /\ Head(free) \in Queued
         /\ {Tail(free)[k] : k \in DOMAIN Tail(free)} = Queued \ {Head(free)}
<1>1. free \in Seq(Buffers) /\ Len(free) \in Nat /\ Len(free) # 0
  BY DEF DTypeOK
<1>2. DOMAIN free = 1 .. Len(free) /\ DOMAIN Tail(free) = 1 .. Len(free) - 1
  BY <1>1
<1>3. Head(free) = free[1] /\ 1 \in DOMAIN free
  BY <1>1, <1>2
<1>4. \A k \in 1 .. Len(free) - 1 : Tail(free)[k] = free[k + 1]
  BY <1>1
<1>5. ASSUME NEW k \in DOMAIN Tail(free)
      PROVE  Tail(free)[k] \in Queued \ {Head(free)}
  <2>1. k + 1 \in DOMAIN free /\ k + 1 # 1 /\ Tail(free)[k] = free[k + 1]
    BY <1>1, <1>2, <1>4
  <2>2. free[k + 1] # free[1]
    BY <2>1, <1>3 DEF BuffersOwnedOnce
  <2> QED
    BY <2>1, <2>2, <1>3 DEF Queued
<1>6. ASSUME NEW b \in Queued \ {Head(free)}
      PROVE  \E k \in DOMAIN Tail(free) : Tail(free)[k] = b
  <2>1. PICK j \in DOMAIN free : free[j] = b
    BY DEF Queued
  <2>2. j # 1
    BY <2>1, <1>3
  <2>3. j - 1 \in DOMAIN Tail(free) /\ Tail(free)[j - 1] = free[j]
    BY <2>2, <1>1, <1>2, <1>4
  <2> QED
    BY <2>1, <2>3
<1> QED
  BY <1>3, <1>5, <1>6 DEF Queued

LEMMA PoolStart == DInit => Pool!PoolInit /\ UsedIsFunction
BY DEF DInit, DStart, Pool!PoolInit, UsedIsFunction, Empty

\* Every step of the pass is a step of the pool or leaves the pool alone.
LEMMA PoolStep ==
  DInv /\ UsedIsFunction /\ [DNext]_dvars =>
    [Pool!PoolNext]_Pool!poolvars /\ UsedIsFunction'
<1> SUFFICES ASSUME DInv, UsedIsFunction, [DNext]_dvars
             PROVE  [Pool!PoolNext]_Pool!poolvars /\ UsedIsFunction'
  OBVIOUS
<1> USE DEF Pool!poolvars
<1> DEFINE a == cfg[point + 1]
           n == Def(a)
<1>1. CASE KeepBuffer
  <2>1. n \in DOMAIN used /\ used' = Set(used, n, used[n]) /\ UNCHANGED <<free, numBuffers>>
    BY <1>1 DEF KeepBuffer, Bind
  <2>2. used' = [m \in DOMAIN used |-> used[m]]
    BY <2>1 DEF Set
  <2> QED
    BY <2>1, <2>2 DEF UsedIsFunction
<1>2. CASE ReuseBuffer
  <2>1. /\ n \notin DOMAIN used /\ used' = Set(used, n, Head(free))
        /\ free # <<>> /\ free' = Tail(free) /\ UNCHANGED numBuffers
    BY <1>2 DEF ReuseBuffer, Bind
  <2>2. DOMAIN used' = DOMAIN used \cup {n} /\ UsedIsFunction'
    BY <2>1 DEF Set, UsedIsFunction
  <2>3. Pool!Owns(n, Head(free))
    BY <2>1 DEF Set, Pool!Owns
  <2>4. Head(free) \in Queued /\ {free'[k] : k \in DOMAIN free'} = Queued \ {Head(free)}
    BY <2>1, HeadOfQueue DEF DInv
  <2>5. Pool!AcquireIdle(n)
    BY <2>1, <2>3, <2>4 DEF Pool!AcquireIdle, Queued
  <2>6. \E m \in DOMAIN used' : Pool!AcquireIdle(m) \/ Pool!AcquireNew(m)
    <3>1. n \in DOMAIN used'
      BY <2>2
    <3> QED
      BY <3>1, <2>5, Zenon DEF Pool!AcquireIdle, Pool!Owns
  <2> QED
    BY <2>2, <2>6 DEF Pool!PoolNext
<1>3. CASE NewBuffer
  <2>1. /\ n \notin DOMAIN used /\ used' = Set(used, n, numBuffers)
        /\ free = <<>> /\ numBuffers' = numBuffers + 1 /\ UNCHANGED free
    BY <1>3 DEF NewBuffer, Bind
  <2>2. DOMAIN used' = DOMAIN used \cup {n} /\ UsedIsFunction'
    BY <2>1 DEF Set, UsedIsFunction
  <2>3. Pool!Owns(n, numBuffers)
    BY <2>1 DEF Set, Pool!Owns
  <2>4. Queued = {}
    BY <2>1 DEF Queued
  <2>5. Pool!AcquireNew(n)
    BY <2>1, <2>3, <2>4 DEF Pool!AcquireNew, Queued
  <2>6. \E m \in DOMAIN used' : Pool!AcquireIdle(m) \/ Pool!AcquireNew(m)
    <3>1. n \in DOMAIN used'
      BY <2>2
    <3> QED
      BY <3>1, <2>5, Zenon DEF Pool!AcquireNew, Pool!Owns
  <2> QED
    BY <2>2, <2>6 DEF Pool!PoolNext
<1>4. CASE NoBuffer
  BY <1>4 DEF NoBuffer, UsedIsFunction
<1>5. ASSUME NEW m \in pending, FreeBuffer(m)
      PROVE  [Pool!PoolNext]_Pool!poolvars /\ UsedIsFunction'
  <2>1. /\ m \in DOMAIN used /\ used[m] \in Buffers /\ free \in Seq(Buffers)
        /\ used' = Pop(used, m) /\ free' = Append(free, used[m])
        /\ UNCHANGED numBuffers
    BY <1>5 DEF FreeBuffer, DInv, DTypeOK
  <2>2. {free'[k] : k \in DOMAIN free'} = Queued \cup {used[m]}
    <3>1. /\ Len(free) \in Nat /\ DOMAIN free = 1 .. Len(free)
          /\ DOMAIN free' = 1 .. Len(free) + 1
          /\ free'[Len(free) + 1] = used[m]
          /\ \A k \in 1 .. Len(free) : free'[k] = free[k]
      BY <2>1
    <3> QED
      BY <3>1 DEF Queued
  <2>3. Pool!Release(m)
    BY <2>1, <2>2 DEF Pool!Release, Pop, Queued
  <2>4. UsedIsFunction'
    BY <2>1 DEF Pop, UsedIsFunction
  <2> QED
    BY <2>1, <2>3, <2>4 DEF Pool!PoolNext
<1>6. CASE UNCHANGED dvars
  BY <1>6 DEF dvars, UsedIsFunction
<1> QED
  BY <1>1, <1>2, <1>3, <1>4, <1>5, <1>6 DEF DNext

\* The dictionary and the queue of the pass implement a pool of buffers: a
\* variable is given a buffer that nobody owns, and a buffer is added only
\* when none is idle.
THEOREM ImplementsBufferPool == DSpec => ImplementsPool
<1>1. DInit => Pool!PoolInit /\ UsedIsFunction
  BY PoolStart
<1>2. DInv /\ UsedIsFunction /\ [DNext]_dvars =>
        [Pool!PoolNext]_Pool!poolvars /\ UsedIsFunction'
  BY PoolStep
<1> QED
  BY <1>1, <1>2, Invariance, PTL DEF DSpec, ImplementsPool, Pool!PoolSpec

-----------------------------------------------------------------------------
(* The pointers of the emitted code *)

\* The last entry for n among those of the first k points binds it to b.
Points(entries, k, n, b) ==
  \E j \in 1 .. k : /\ n \in DOMAIN entries[j] /\ entries[j][n] = b
                    /\ \A m \in j + 1 .. k : n \notin DOMAIN entries[m]

\* A pointer is set by the entry of a point or is what it was before.
LEMMA PointsStep ==
  ASSUME NEW entries, NEW k \in Nat \ {0}, NEW n, NEW b
  PROVE  Points(entries, k, n, b) <=>
           IF n \in DOMAIN entries[k] THEN b = entries[k][n] ELSE Points(entries, k - 1, n, b)
<1>1. CASE n \in DOMAIN entries[k]
  <2>1. ASSUME Points(entries, k, n, b) PROVE b = entries[k][n]
    <3>1. PICK j \in 1 .. k : /\ entries[j][n] = b
                              /\ \A m \in j + 1 .. k : n \notin DOMAIN entries[m]
      BY <2>1 DEF Points
    <3>2. k \notin j + 1 .. k
      BY <1>1, <3>1
    <3>3. j = k
      BY <3>2
    <3> QED BY <3>1, <3>3
  <2>2. ASSUME b = entries[k][n] PROVE Points(entries, k, n, b)
    <3>1. k \in 1 .. k /\ \A m \in k + 1 .. k : FALSE
      OBVIOUS
    <3> QED BY <1>1, <2>2, <3>1 DEF Points
  <2> QED BY <1>1, <2>1, <2>2
<1>2. CASE n \notin DOMAIN entries[k]
  <2>1. ASSUME Points(entries, k, n, b) PROVE Points(entries, k - 1, n, b)
    <3>1. PICK j \in 1 .. k : /\ n \in DOMAIN entries[j] /\ entries[j][n] = b
                              /\ \A m \in j + 1 .. k : n \notin DOMAIN entries[m]
      BY <2>1 DEF Points
    <3>2. j # k
      BY <1>2, <3>1
    <3>3. j \in 1 .. k - 1 /\ \A m \in j + 1 .. k - 1 : m \in j + 1 .. k
      BY <3>2
    <3> QED BY <3>1, <3>3 DEF Points
  <2>2. ASSUME Points(entries, k - 1, n, b) PROVE Points(entries, k, n, b)
    <3>1. PICK j \in 1 .. k - 1 : /\ n \in DOMAIN entries[j] /\ entries[j][n] = b
                                  /\ \A m \in j + 1 .. k - 1 : n \notin DOMAIN entries[m]
      BY <2>2 DEF Points
    <3>2. j \in 1 .. k /\ \A m \in j + 1 .. k : m = k \/ m \in j + 1 .. k - 1
      OBVIOUS
    <3> QED BY <1>2, <3>1, <3>2 DEF Points
  <2> QED BY <1>2, <2>1, <2>2
<1> QED BY <1>1, <1>2

\* The pointer of a variable is one buffer.
LEMMA PointsOnce ==
  ASSUME NEW entries, NEW k \in Nat, NEW n, NEW b, NEW c,
         Points(entries, k, n, b), Points(entries, k, n, c)
  PROVE  b = c
<1>1. PICK j \in 1 .. k : /\ n \in DOMAIN entries[j] /\ entries[j][n] = b
                          /\ \A m \in j + 1 .. k : n \notin DOMAIN entries[m]
  BY DEF Points
<1>2. PICK l \in 1 .. k : /\ n \in DOMAIN entries[l] /\ entries[l][n] = c
                          /\ \A m \in l + 1 .. k : n \notin DOMAIN entries[m]
  BY DEF Points
<1>3. l \notin j + 1 .. k /\ j \notin l + 1 .. k
  BY <1>1, <1>2
<1>4. j = l
  BY <1>3
<1> QED BY <1>1, <1>2, <1>4

\* The entries of later points do not matter.
LEMMA PointsEarlier ==
  ASSUME NEW entries, NEW longer, NEW k \in Nat, \A j \in 1 .. k : longer[j] = entries[j],
         NEW n, NEW b
  PROVE  Points(longer, k, n, b) <=> Points(entries, k, n, b)
<1>1. \A j \in 1 .. k : \A m \in j + 1 .. k : m \in 1 .. k
  OBVIOUS
<1> QED BY <1>1 DEF Points

\* What statement k works on and does not access in place.
Buffered(k) == (live[k] \cup {Def(cfg[k])}) \ Global

\* The buffers own[n] of the variables of statement k are different, the
\* pointers point to them when it is executed, and did so before if the
\* variable holds a value.
InOwnBuffers(own, k) ==
  \A n \in Buffered(k) :
    /\ own[n] \in Buffers
    /\ Points(bufferMap, k, n, own[n])
    /\ n \in live[k] => Points(bufferMap, k - 1, n, own[n])
    /\ \A m \in Buffered(k) : own[m] = own[n] => m = n

\* Everything that a later statement reads from a buffer is in one: more than
\* LiveBound, which is about the temporaries only.
BuffersBound == \A n \in live[point + 1] \ Global : n \in DOMAIN used \ pending

\* The dictionary is what the pointers are.
PointersUsed == \A n \in DOMAIN used : Points(bufferMap, point, n, used[n])

PointersApart == \A k \in 1 .. point : \E own : InOwnBuffers(own, k)

EInv == BuffersBound /\ PointersUsed /\ PointersApart

LEMMA RangesGrow ==
  ASSUME NEW m \in Nat, NEW n \in Nat, n >= m
  PROVE  \A b \in 0 .. m - 1 : b \in 0 .. n - 1
OBVIOUS

\* A visited point keeps the invariant: every variable keeps its buffer, but the
\* result takes the one that its entry names.
LEMMA VisitPoints ==
  ASSUME DInv, DInv', FInv, EInv, Visit(point + 1), numBuffers' \in Nat, numBuffers' >= numBuffers,
         NEW STATE e, bufferMap' = Append(bufferMap, e),
         \A n \in DOMAIN used : n \in DOMAIN used' /\ used'[n] = used[n],
         \A n \in DOMAIN used' : IF n \in DOMAIN e THEN used'[n] = e[n] ELSE n \in DOMAIN used,
         TakesBuffer(cfg[point + 1]) => Def(cfg[point + 1]) \in DOMAIN used',
         pending' = Dying(point + 1, DOMAIN used')
  PROVE  EInv'
<1>0. PICK k : k = point + 1
  OBVIOUS
<1> DEFINE a == cfg[k]
           Owned(own, j) == \A n \in Buffered(j) :
             /\ own[n] \in Buffers'
             /\ Points(bufferMap', j, n, own[n])
             /\ n \in live[j] => Points(bufferMap', j - 1, n, own[n])
             /\ \A m \in Buffered(j) : own[m] = own[n] => m = n
<1>1. /\ k \in DOMAIN cfg /\ point' = k /\ live' = live /\ cfg' = cfg /\ pending = {}
      /\ point \in Nat /\ k \in Nat \ {0} /\ k - 1 = point /\ numBuffers \in Nat
  <2>1. /\ k \in DOMAIN cfg /\ point' = k /\ live' = live /\ cfg' = cfg /\ pending = {}
    BY <1>0 DEF Visit
  <2>2. point \in 0 .. Len(cfg) /\ numBuffers \in Nat
    BY DEF DInv, DTypeOK
  <2>3. point \in Nat
    BY <2>2
  <2>4. k \in Nat \ {0} /\ k - 1 = point
    BY <1>0, <2>3
  <2> QED BY <2>1, <2>2, <2>3, <2>4
<1>2. \A n \in live[k] \ Global : n \in DOMAIN used
  BY <1>0 DEF EInv, BuffersBound
<1>3. /\ live[k + 1] \subseteq live[k] \cup {Def(a)}
      /\ isCompound(a) => Def(a) \in live[k]
  BY <1>1, LiveAfter DEF DInv
<1>4. /\ bufferMap'[k] = e
      /\ \A j \in 1 .. point : bufferMap'[j] = bufferMap[j]
  BY <1>0, <1>1 DEF FInv
<1>5. \A n \in DOMAIN used : Points(bufferMap, point, n, used[n])
  BY DEF EInv, PointersUsed
<1>6. \A j \in 1 .. point : \E own : InOwnBuffers(own, j)
  BY DEF EInv, PointersApart
<1>7. /\ TakesBuffer(a) => Def(a) \in DOMAIN used'
      /\ pending' = Dying(k, DOMAIN used')
  BY <1>0
<1>8. ASSUME NEW n \in live[k + 1] \ Global
      PROVE  n \in DOMAIN used' \ pending'
  <2>1. n \notin pending'
    BY <1>7 DEF Dying
  <2>2. CASE n \in live[k]
    BY <1>2, <2>1, <2>2
  <2>3. CASE n = Def(a) /\ ~ isCompound(a)
    BY <1>7, <2>1, <2>3 DEF TakesBuffer, isGlobal
  <2> QED BY <1>3, <2>2, <2>3
<1>9. ASSUME NEW j \in 0 .. point, NEW n, NEW b
      PROVE  Points(bufferMap', j, n, b) <=> Points(bufferMap, j, n, b)
  <2>1. j \in Nat /\ \A l \in 1 .. j : l \in 1 .. point
    BY <1>1
  <2>2. \A l \in 1 .. j : bufferMap'[l] = bufferMap[l]
    BY <1>4, <2>1
  <2> QED BY <2>1, <2>2, PointsEarlier
<1>10. ASSUME NEW n \in DOMAIN used' PROVE Points(bufferMap', k, n, used'[n])
  <2>1. CASE n \in DOMAIN e
    BY <1>1, <1>4, <2>1, PointsStep
  <2>2. CASE n \notin DOMAIN e
    <3>1. Points(bufferMap', point, n, used'[n])
      BY <1>1, <1>5, <1>9, <2>2
    <3> QED BY <1>1, <1>4, <2>2, <3>1, PointsStep
  <2> QED BY <2>1, <2>2
<1>11. \A n \in Buffered(k) : n \in DOMAIN used'
  BY <1>2, <1>3, <1>7 DEF Buffered, TakesBuffer, isGlobal
<1>12. Owned(used', k)
  <2> SUFFICES ASSUME NEW n \in Buffered(k)
               PROVE  /\ used'[n] \in Buffers'
                      /\ Points(bufferMap', k, n, used'[n])
                      /\ n \in live[k] => Points(bufferMap', k - 1, n, used'[n])
                      /\ \A m \in Buffered(k) : used'[m] = used'[n] => m = n
    OBVIOUS
  <2>1. used'[n] \in Buffers'
    BY <1>11 DEF DInv, DTypeOK
  <2>2. n \in live[k] => Points(bufferMap', k - 1, n, used'[n])
    <3> SUFFICES ASSUME n \in live[k] PROVE Points(bufferMap', point, n, used'[n])
      BY <1>1
    <3>1. n \in DOMAIN used
      BY <1>2 DEF Buffered
    <3> QED BY <1>1, <1>5, <1>9, <3>1
  <2>3. \A m \in Buffered(k) : used'[m] = used'[n] => m = n
    BY <1>11 DEF DInv, BuffersOwnedOnce
  <2> QED BY <1>10, <1>11, <2>1, <2>2, <2>3
<1>13. ASSUME NEW j \in 1 .. k PROVE \E own : Owned(own, j)
  <2>1. CASE j = k
    <3> HIDE DEF Owned
    <3> QED BY <1>12, <2>1
  <2>2. CASE j \in 1 .. point
    <3>1. PICK own : InOwnBuffers(own, j)
      BY <1>6, <2>2
    <3>2. j \in 0 .. point /\ j - 1 \in 0 .. point
      BY <1>1, <2>2
    <3>3. \A b \in Buffers : b \in Buffers'
      <4>1. numBuffers \in Nat /\ numBuffers' \in Nat /\ numBuffers' >= numBuffers
        BY <1>1
      <4>2. \A b \in 0 .. numBuffers - 1 : b \in 0 .. numBuffers' - 1
        BY <4>1, RangesGrow
      <4> QED BY <4>2 DEF Buffers
    <3>4. Owned(own, j)
      <4> SUFFICES ASSUME NEW n \in Buffered(j)
                   PROVE  /\ own[n] \in Buffers'
                          /\ Points(bufferMap', j, n, own[n])
                          /\ n \in live[j] => Points(bufferMap', j - 1, n, own[n])
                          /\ \A m \in Buffered(j) : own[m] = own[n] => m = n
        OBVIOUS
      <4>1. /\ own[n] \in Buffers
            /\ Points(bufferMap, j, n, own[n])
            /\ n \in live[j] => Points(bufferMap, j - 1, n, own[n])
            /\ \A m \in Buffered(j) : own[m] = own[n] => m = n
        BY <3>1 DEF InOwnBuffers
      <4> QED BY <1>9, <3>2, <3>3, <4>1
    <3> HIDE DEF Owned
    <3> QED BY <3>4
  <2>3. j = k \/ j \in 1 .. point
    BY <1>1
  <2> QED BY <2>1, <2>2, <2>3
<1>14. PointersApart'
  BY <1>1, <1>13 DEF PointersApart, InOwnBuffers, Buffered
<1> HIDE DEF Owned
<1> QED BY <1>0, <1>1, <1>8, <1>10, <1>14 DEF EInv, BuffersBound, PointersUsed

LEMMA FreePoints ==
  ASSUME NEW n \in pending, DInv, EInv, FreeBuffer(n)
  PROVE  EInv'
<1>1. /\ used' = Pop(used, n) /\ pending' = pending \ {n}
      /\ UNCHANGED <<cfg, live, point, numBuffers, bufferMap>>
  BY DEF FreeBuffer
<1>2. /\ DOMAIN used' = DOMAIN used \ {n}
      /\ \A m \in DOMAIN used' : used'[m] = used[m]
  BY <1>1 DEF Pop
<1>3. BuffersBound' /\ PointersUsed'
  BY <1>1, <1>2 DEF EInv, BuffersBound, PointersUsed
<1>4. \A own, k : InOwnBuffers(own, k)' <=> InOwnBuffers(own, k)
  BY <1>1 DEF InOwnBuffers, Buffered, Buffers
<1>5. PointersApart'
  BY <1>1, <1>4 DEF EInv, PointersApart
<1> QED BY <1>3, <1>5 DEF EInv

LEMMA InitEInv ==
  ASSUME DStart, live[1] \subseteq Global
  PROVE  EInv
BY DEF DStart, Empty, EInv, BuffersBound, PointersUsed, PointersApart

LEMMA StepEInv == DInv /\ FInv /\ EInv /\ DNext => EInv'
<1> SUFFICES ASSUME DInv, FInv, EInv, DNext PROVE EInv'
  OBVIOUS
<1> DEFINE a == cfg[point + 1]
           n == Def(a)
<1>1. DInv'
  BY InvNext
<1>2. numBuffers \in Nat
  BY DEF DInv, DTypeOK
<1>3. ASSUME NEW STATE b, Visit(point + 1), Bind(a, b), numBuffers' \in {numBuffers, numBuffers + 1},
             pending' = Dying(point + 1, DOMAIN used'),
             n \in DOMAIN used => b = used[n]
      PROVE  EInv'
  <2> DEFINE e == Set(Empty, n, b)
  <2>1. used' = Set(used, n, b) /\ bufferMap' = Append(bufferMap, e)
    BY <1>3 DEF Bind
  <2>2. /\ DOMAIN used' = DOMAIN used \cup {n} /\ used'[n] = b
        /\ \A m \in DOMAIN used : used'[m] = used[m]
    BY <1>3, <2>1 DEF Set
  <2>3. DOMAIN e = {n} /\ e[n] = b
    BY DEF Set, Empty
  <2>4. numBuffers' \in Nat /\ numBuffers' >= numBuffers
    BY <1>2, <1>3
  <2> HIDE DEF e, n
  <2>5. \A m \in DOMAIN used' : IF m \in DOMAIN e THEN used'[m] = e[m] ELSE m \in DOMAIN used
    BY <2>2, <2>3
  <2>6. n \in DOMAIN used'
    BY <2>2
  <2> QED BY <1>1, <1>3, <2>1, <2>2, <2>4, <2>5, <2>6, VisitPoints DEF n
<1>4. CASE KeepBuffer
  BY <1>2, <1>3, <1>4 DEF KeepBuffer
<1>5. CASE ReuseBuffer
  BY <1>2, <1>3, <1>5 DEF ReuseBuffer
<1>6. CASE NewBuffer
  BY <1>2, <1>3, <1>6 DEF NewBuffer
<1>7. CASE NoBuffer
  <2>1. DOMAIN Empty = {}
    BY DEF Empty
  <2>2. /\ Visit(point + 1) /\ ~ TakesBuffer(a) /\ bufferMap' = Append(bufferMap, Empty)
        /\ pending' = Dying(point + 1, DOMAIN used) /\ used' = used /\ numBuffers' = numBuffers
    BY <1>7 DEF NoBuffer
  <2>3. numBuffers' \in Nat /\ numBuffers' >= numBuffers
    BY <1>2, <2>2
  <2> HIDE DEF n
  <2> QED BY <1>1, <2>1, <2>2, <2>3, VisitPoints
<1>8. CASE \E m \in pending : FreeBuffer(m)
  BY <1>8, FreePoints
<1> QED BY <1>4, <1>5, <1>6, <1>7, <1>8 DEF DNext

-----------------------------------------------------------------------------
(* The emitted code follows the program *)

\* The buffers have been assigned to the whole of a program that is in order.
Ready ==
  /\ cfg \in Seq(Actions) /\ Unary(cfg) /\ \A k \in 1 .. Len(cfg) : NoAliasing(cfg[k])
  /\ LivenessOf(cfg, live) /\ live[1] \subseteq Global
  /\ \A k \in 1 .. Len(cfg) + 1 : live[k] \subseteq InMemory(cfg)
  /\ bufferMap \in Seq(Dictionaries) /\ Len(bufferMap) = Len(cfg)
  /\ numBuffers \in Nat
  /\ \A k \in 1 .. Len(cfg) : \E own : InOwnBuffers(own, k)

EmittedStates == [arg: [Global -> Values], buf: [Buffers -> Values], ptr: Dictionaries]

\* After k points the arguments, and the buffers of what is live, hold what the
\* program has in its memory.
Follows(st, k, mem) ==
  /\ st \in EmittedStates
  /\ \A n, b : Points(bufferMap, k, n, b) => n \in DOMAIN st.ptr /\ st.ptr[n] = b
  /\ \A n \in Global : st.arg[n] = mem[n]
  /\ \A n \in live[k + 1] \ Global : st.buf[st.ptr[n]] = mem[n]

\* The pointers at point k.
PointersAt(k, st) ==
  [n \in DOMAIN st.ptr \cup DOMAIN bufferMap[k] |->
     IF n \in DOMAIN bufferMap[k] THEN bufferMap[k][n] ELSE st.ptr[n]]

LEMMA PointersMoved ==
  ASSUME Ready, NEW k \in 1 .. Len(cfg), NEW st, NEW mem, Follows(st, k - 1, mem)
  PROVE  /\ PointersAt(k, st) \in Dictionaries
         /\ \A n, b : Points(bufferMap, k, n, b) =>
              n \in DOMAIN PointersAt(k, st) /\ PointersAt(k, st)[n] = b
<1> DEFINE ptr == PointersAt(k, st)
           e == bufferMap[k]
<1>1. k \in Nat \ {0} /\ k \in DOMAIN bufferMap
  BY DEF Ready
<1>2. st.ptr \in Dictionaries /\ e \in Dictionaries
  BY <1>1 DEF Follows, EmittedStates, Ready
<1>3. PICK S \in SUBSET Name : st.ptr \in [S -> Nat]
  BY <1>2 DEF Dictionaries
<1>4. PICK T \in SUBSET Name : e \in [T -> Nat]
  BY <1>2 DEF Dictionaries
<1>5. ptr = [n \in S \cup T |-> IF n \in T THEN e[n] ELSE st.ptr[n]]
  BY <1>3, <1>4 DEF PointersAt
<1> HIDE DEF e
<1>6. ptr \in [S \cup T -> Nat] /\ S \cup T \in SUBSET Name
  BY <1>3, <1>4, <1>5
<1>7. ptr \in Dictionaries
  BY <1>6 DEF Dictionaries
<1>8. ASSUME NEW n, NEW b, Points(bufferMap, k, n, b)
      PROVE  n \in DOMAIN ptr /\ ptr[n] = b
  <2>1. IF n \in DOMAIN e THEN b = e[n] ELSE Points(bufferMap, k - 1, n, b)
    BY <1>1, <1>8, PointsStep DEF e
  <2>2. CASE n \in T
    BY <1>4, <1>5, <2>1, <2>2
  <2>3. CASE n \notin T
    <3>1. n \in DOMAIN st.ptr /\ st.ptr[n] = b
      BY <1>4, <2>1, <2>3 DEF Follows
    <3> QED BY <1>3, <1>5, <2>3, <3>1
  <2> QED BY <2>2, <2>3
<1> QED BY <1>7, <1>8

\* Two memories in which a statement reads the same values get the same result.
LEMMA SameResult ==
  ASSUME NEW a, NEW m, NEW w, \A n \in variables(a) : w[n] = m[n],
         Def(a) \in DOMAIN m, Def(a) \in DOMAIN w
  PROVE  Emitted(a, w)[Def(a)] = Emitted(a, m)[Def(a)]
<1>1. TermValue(a.term, w) = TermValue(a.term, m)
  <2>1. \A n \in TermNames(a.term) : w[n] = m[n]
    BY DEF variables
  <2> QED BY <2>1, SameTermValue
<1>2. a.add => w[Def(a)] = m[Def(a)]
  BY DEF variables, Def
<1>3. Computed(a, w) = Computed(a, m)
  BY <1>1, <1>2, ComputedIs
<1>4. /\ Emitted(a, w)[Def(a)] = Stored(a.result.lay, Computed(a, w))
      /\ Emitted(a, m)[Def(a)] = Stored(a.result.lay, Computed(a, m))
  BY EmittedComputed
<1> QED BY <1>3, <1>4

LEMMA PointFollows ==
  ASSUME Ready, NEW k \in 1 .. Len(cfg), NEW st, NEW mem, Follows(st, k - 1, mem),
         mem \in [InMemory(cfg) -> Values], Emitted(cfg[k], mem) \in [InMemory(cfg) -> Values]
  PROVE  Follows(Point(k, st), k, Emitted(cfg[k], mem))
<1> DEFINE a     == cfg[k]
           d     == Def(a)
           ptr   == PointersAt(k, st)
           names == variables(a) \cup {d}
           m     == [n \in names |-> IF isGlobal(n) THEN st.arg[n] ELSE st.buf[ptr[n]]]
           after == IF Overlaps(a, ptr) THEN Uninitialised ELSE Emitted(a, m)[d]
           next  == Emitted(a, mem)
           new   == Point(k, st)
<1>1. /\ k \in Nat \ {0} /\ (k - 1) + 1 = k
      /\ NoAliasing(a)
      /\ live[k] = (live[k + 1] \ {d}) \cup variables(a)
  BY DEF Ready, LivenessOf
<1>2. /\ variables(a) \subseteq live[k] /\ live[k + 1] \subseteq live[k] \cup {d}
      /\ d \in InMemory(cfg) /\ live[k] \subseteq InMemory(cfg) /\ Global \subseteq InMemory(cfg)
  <2>1. d \in InMemory(cfg)
    BY MemoryNames DEF Ready, InMemory
  <2>2. live[k] \subseteq InMemory(cfg)
    <3>1. k \in 1 .. Len(cfg) + 1
      OBVIOUS
    <3> QED BY <3>1 DEF Ready
  <2> QED BY <1>1, <2>1, <2>2 DEF InMemory, Tensor
<1>3. PICK own : InOwnBuffers(own, k)
  BY DEF Ready
<1>4. /\ ptr \in Dictionaries
      /\ \A n, b : Points(bufferMap, k, n, b) => n \in DOMAIN ptr /\ ptr[n] = b
  BY PointersMoved
<1>5. /\ st \in EmittedStates /\ \A n \in Global : st.arg[n] = mem[n]
      /\ \A n, b : Points(bufferMap, k - 1, n, b) => st.ptr[n] = b
      /\ \A n \in live[k] \ Global : st.buf[st.ptr[n]] = mem[n]
  BY <1>1 DEF Follows
<1> HIDE DEF ptr
<1>6. \A n \in Buffered(k) : ptr[n] = own[n] /\ own[n] \in Buffers
  BY <1>3, <1>4 DEF InOwnBuffers
<1>7. \A n \in live[k] \ Global : st.buf[own[n]] = mem[n] /\ n \in Buffered(k)
  BY <1>3, <1>5 DEF InOwnBuffers, Buffered
<1>8. \A n \in variables(a) : m[n] = mem[n]
  BY <1>2, <1>5, <1>6, <1>7 DEF isGlobal
<1>9. ~ Overlaps(a, ptr)
  <2> SUFFICES ASSUME isRHSExpression(a), NEW n \in TermNames(a.term), isGlobal(n) = isGlobal(d),
                      IF isGlobal(n) THEN n = d ELSE ptr[n] = ptr[d]
               PROVE  FALSE
    BY DEF Overlaps
  <2>1. n # d
    BY <1>1 DEF NoAliasing
  <2>2. n \notin Global /\ d \notin Global /\ ptr[n] = ptr[d]
    BY <2>1 DEF isGlobal
  <2>3. n \in Buffered(k) /\ d \in Buffered(k)
    BY <1>2, <2>2 DEF Buffered, variables
  <2>4. own[n] = own[d]
    BY <1>6, <2>2, <2>3
  <2> QED BY <1>3, <2>1, <2>3, <2>4 DEF InOwnBuffers
<1>10. after = next[d]
  <2>1. d \in DOMAIN m /\ d \in DOMAIN mem
    BY <1>2
  <2> HIDE DEF m, d
  <2>2. Emitted(a, m)[d] = Emitted(a, mem)[d]
    BY <1>8, <2>1, SameResult DEF d
  <2> QED BY <1>9, <2>2
<1>11. next[d] \in Values /\ \A n \in InMemory(cfg) : n # d => next[n] = mem[n]
  <2>1. next = [mem EXCEPT ![d] = Stored(a.result.lay, Computed(a, mem))]
    BY EmittedComputed
  <2>2. \A n \in InMemory(cfg) : n # d => next[n] = mem[n]
    <3> HIDE DEF next, d, a
    <3> QED BY <2>1
  <2>3. next[d] \in Values
    BY <1>2
  <2> QED BY <2>2, <2>3
<1>12. new = IF isGlobal(d) THEN [st EXCEPT !.arg[d] = after, !.ptr = ptr]
             ELSE [st EXCEPT !.buf[ptr[d]] = after, !.ptr = ptr]
  BY DEF Point, PointersAt, ptr
<1> HIDE DEF new, after, next, d, m
<1>13. /\ st.arg \in [Global -> Values] /\ st.buf \in [Buffers -> Values]
       /\ st = [arg |-> st.arg, buf |-> st.buf, ptr |-> st.ptr]
  BY <1>5 DEF EmittedStates
<1>14. CASE d \in Global
  <2>1. /\ new.arg = [st.arg EXCEPT ![d] = after] /\ new.buf = st.buf /\ new.ptr = ptr
        /\ new = [arg |-> new.arg, buf |-> new.buf, ptr |-> new.ptr]
    BY <1>12, <1>13, <1>14 DEF isGlobal
  <2>2. new \in EmittedStates
    BY <1>4, <1>10, <1>11, <1>13, <2>1 DEF EmittedStates
  <2>3. \A n \in Global : new.arg[n] = next[n]
    BY ZenonT(30), <1>2, <1>5, <1>10, <1>11, <1>13, <2>1
  <2>4. ASSUME NEW n \in live[k + 1] \ Global PROVE new.buf[new.ptr[n]] = next[n]
    <3>1. n \in live[k] \ Global /\ n # d /\ n \in InMemory(cfg)
      BY <1>2, <1>14, <2>4
    <3> QED BY <1>6, <1>7, <1>11, <2>1, <3>1
  <2> QED BY <1>4, <2>1, <2>2, <2>3, <2>4 DEF Follows, new, next
<1>15. CASE d \notin Global
  <2>1. /\ new.buf = [st.buf EXCEPT ![ptr[d]] = after] /\ new.arg = st.arg /\ new.ptr = ptr
        /\ new = [arg |-> new.arg, buf |-> new.buf, ptr |-> new.ptr]
    BY <1>12, <1>13, <1>15 DEF isGlobal
  <2>2. d \in Buffered(k) /\ ptr[d] = own[d] /\ own[d] \in Buffers
    <3>1. d \in Buffered(k)
      BY <1>15 DEF Buffered, d
    <3> QED BY <1>6, <3>1
  <2>3. new \in EmittedStates
    BY <1>4, <1>10, <1>11, <1>13, <2>1, <2>2 DEF EmittedStates
  <2>4. \A n \in Global : new.arg[n] = next[n]
    BY <1>2, <1>5, <1>11, <1>15, <2>1
  <2>5. ASSUME NEW n \in live[k + 1] \ Global PROVE new.buf[new.ptr[n]] = next[n]
    <3>1. CASE n = d
      BY <1>10, <1>13, <2>1, <2>2, <3>1
    <3>2. CASE n # d
      <4>1. n \in live[k] \ Global /\ n \in InMemory(cfg)
        BY <1>2, <2>5, <3>2
      <4>2. n \in Buffered(k) /\ ptr[n] = own[n] /\ own[n] \in Buffers /\ st.buf[own[n]] = mem[n]
        BY <1>6, <1>7, <4>1
      <4>3. own[n] # own[d]
        BY <1>3, <2>2, <3>2, <4>2 DEF InOwnBuffers
      <4> QED BY <1>11, <1>13, <2>1, <2>2, <3>2, <4>1, <4>2, <4>3
    <3> QED BY <3>1, <3>2
  <2> QED BY <1>4, <2>1, <2>3, <2>4, <2>5 DEF Follows, new, next
<1> QED BY <1>14, <1>15

LEMMA StartFollows ==
  ASSUME Ready, NEW f, Executes(cfg, TensorValues, f)
  PROVE  Follows(EmittedState, 0, f[0])
<1>1. Uninitialised \in Values
  <2>1. \A c \in Cells : Modulus - c \in 0 .. Modulus - 1
    BY ModOk DEF Cells
  <2> QED BY <2>1 DEF Uninitialised, Values
<1>2. TensorValues \in [Tensor -> Values] /\ Global \subseteq Tensor
  BY KernelAssumption DEF Tensor
<1>3. \A n \in Global : f[0][n] = TensorValues[n]
  <2>1. \A n \in Tensor : Loaded(cfg, TensorValues)[n] = TensorValues[n]
    BY <1>2, LoadedOk
  <2>2. f[0] = Loaded(cfg, TensorValues)
    BY DEF Executes
  <2> QED BY <1>2, <2>1, <2>2
<1>4. [n \in {} |-> 0] \in Dictionaries
  <2>1. [n \in {} |-> 0] \in [{} -> Nat] /\ {} \in SUBSET Name
    OBVIOUS
  <2> QED BY <2>1 DEF Dictionaries
<1>5. EmittedState \in EmittedStates
  BY <1>1, <1>2, <1>4 DEF EmittedState, EmittedStates, Buffers
<1>6. \A n, b : ~ Points(bufferMap, 0, n, b)
  BY DEF Points
<1>7. live[0 + 1] \ Global = {}
  BY DEF Ready
<1> QED BY <1>3, <1>5, <1>6, <1>7 DEF Follows, EmittedState

\* What the emitted code leaves in the arguments is what the program leaves in
\* them.
LEMMA ExecuteRuns ==
  ASSUME Ready
  PROVE  \A n \in Global : Execute[n] = Run(cfg, TensorValues)[n]
<1> DEFINE n == Len(cfg)
           T == EmittedStates
           Eqn(r) == r = [k \in 0 .. n |-> IF k = 0 THEN EmittedState ELSE Point(k, r[k - 1])]
           run == CHOOSE r : Eqn(r)
           next(k, st) == IF Point(k, st) \in T THEN Point(k, st) ELSE EmittedState
           step == [q \in (1 .. n) \X T |-> next(q[1], q[2])]
<1>1. PICK f : Executes(cfg, TensorValues, f)
  BY ExecutionExists, KernelAssumption DEF Ready
<1>2. /\ n \in Nat /\ f \in [0 .. n -> [InMemory(cfg) -> Values]]
      /\ \A k \in 1 .. n : f[k] = Emitted(cfg[k], f[k - 1])
      /\ Run(cfg, TensorValues) = f[n]
  <2>1. n \in Nat
    BY DEF Ready
  <2> HIDE DEF run, step
  <2> QED BY <1>1, <2>1 DEF Executes, InMemory
<1>3. Follows(EmittedState, 0, f[0]) /\ EmittedState \in T
  BY <1>1, StartFollows DEF Follows
<1>4. step \in StepFunctions(n, T)
  <2> HIDE DEF T, n
  <2> QED BY <1>3 DEF StepFunctions
<1> HIDE DEF T, step
<1>5. PICK g : Solves(g, n, T, EmittedState, step)
  BY <1>2, <1>3, <1>4, RecursionSolved
<1>6. /\ g \in [0 .. n -> T] /\ g[0] = EmittedState
      /\ \A k \in 1 .. n : g[k] = step[<<k, g[k - 1]>>]
  BY <1>5 DEF Solves
<1>7. ASSUME NEW k \in 1 .. n, Follows(g[k - 1], k - 1, f[k - 1])
      PROVE  Follows(g[k], k, f[k]) /\ g[k] = Point(k, g[k - 1])
  <2>1. k \in 0 .. n /\ k - 1 \in 0 .. n
    BY <1>2
  <2>2. f[k - 1] \in [InMemory(cfg) -> Values] /\ Emitted(cfg[k], f[k - 1]) \in [InMemory(cfg) -> Values]
    BY <1>2, <2>1
  <2>3. Follows(Point(k, g[k - 1]), k, f[k])
    BY <1>2, <1>7, <2>2, PointFollows
  <2>4. Point(k, g[k - 1]) \in T
    BY <2>3 DEF Follows, T
  <2>5. g[k - 1] \in T
    BY <1>6, <2>1
  <2>6. g[k] = next(k, g[k - 1])
    BY <1>6, <2>5 DEF step
  <2> QED BY <2>3, <2>4, <2>6
<1>8. \A k \in Nat : k <= n => Follows(g[k], k, f[k])
  <2> DEFINE P == {k \in Nat : k <= n => Follows(g[k], k, f[k])}
  <2>1. 0 \in P
    BY <1>3, <1>6
  <2>2. ASSUME NEW k \in Nat, k \in P PROVE k + 1 \in P
    <3> SUFFICES ASSUME k + 1 <= n PROVE Follows(g[k + 1], k + 1, f[k + 1])
      OBVIOUS
    <3>1. k + 1 \in 1 .. n /\ (k + 1) - 1 = k /\ Follows(g[k], k, f[k])
      BY <1>2, <2>2
    <3> QED BY <1>7, <3>1
  <2> HIDE DEF P
  <2>3. Nat \subseteq P
    BY <2>1, <2>2, NatSetInduction
  <2> QED BY <2>3 DEF P
<1>9. \A k \in 1 .. n : g[k] = Point(k, g[k - 1])
  <2> TAKE k \in 1 .. n
  <2>1. k - 1 \in Nat /\ k - 1 <= n
    BY <1>2
  <2> QED BY <1>7, <1>8, <2>1
<1>10. Eqn(g)
  <2>1. \A k \in 0 .. n : k = 0 \/ k \in 1 .. n
    BY <1>2
  <2> HIDE DEF n
  <2> QED BY <1>6, <1>9, <2>1
<1>11. Eqn(run)
  BY <1>10
<1>12. Execute = run[n].arg
  BY DEF Execute
<1> HIDE DEF run
<1>13. /\ run[0] = EmittedState
       /\ \A k \in 1 .. n : run[k] = Point(k, run[k - 1])
  <2>1. 0 \in 0 .. n /\ \A k \in 1 .. n : k \in 0 .. n /\ k # 0
    BY <1>2
  <2> HIDE DEF n
  <2> QED BY <1>11, <2>1
<1> HIDE DEF Eqn
<1>14. \A k \in Nat : k <= n => run[k] = g[k]
  <2> DEFINE P == {k \in Nat : k <= n => run[k] = g[k]}
  <2>1. 0 \in P
    BY <1>6, <1>13
  <2>2. ASSUME NEW k \in Nat, k \in P PROVE k + 1 \in P
    <3> SUFFICES ASSUME k + 1 <= n PROVE run[k + 1] = g[k + 1]
      OBVIOUS
    <3>1. k + 1 \in 1 .. n /\ (k + 1) - 1 = k /\ run[k] = g[k]
      BY <1>2, <2>2
    <3> QED BY <1>9, <1>13, <3>1
  <2> HIDE DEF P
  <2>3. Nat \subseteq P
    BY <2>1, <2>2, NatSetInduction
  <2> QED BY <2>3 DEF P
<1>15. run[n] = g[n] /\ Follows(g[n], n, f[n])
  BY <1>2, <1>8, <1>14
<1> QED BY <1>2, <1>12, <1>15 DEF Follows

-----------------------------------------------------------------------------
(* From the kernel to the emitted code *)

\* The kernels and settings that CodeComputesKernel is about.
Aimed == ~ misplaced /\ (phase = "Optimised" => ForwardedResults(lowered) = {})

Means(prog) == \A n \in Global : Run(prog, TensorValues)[n] = meaning[n]

\* The program that generate is handed is in order and computes the kernel.
Handed ==
  /\ Sound(cfg) /\ Unary(cfg) /\ TempsFlow(cfg)
  /\ live = Liveness(cfg)
  /\ Means(cfg)

PInv ==
  /\ ~ Prepared => TInv /\ KInv /\ DStart
  /\ phase # "Lowering" /\ ~ misplaced => Means(lowered)
  /\ Prepared /\ Aimed => Handed /\ DInv /\ FInv /\ EInv

LEMMA ExposedNames ==
  ASSUME NEW prog \in Seq(Actions), NEW k
  PROVE  UpwardExposed(prog, k) \subseteq Name \cap InMemory(prog)
<1> SUFFICES ASSUME NEW n \in UpwardExposed(prog, k) PROVE n \in Name /\ n \in InMemory(prog)
  OBVIOUS
<1>1. PICK j \in 1 .. Len(prog) : n \in variables(prog[j])
  BY DEF UpwardExposed
<1>2. n \in InMemory(prog)
  BY <1>1, MemoryNames DEF InMemory
<1>3. prog[j] \in Actions
  OBVIOUS
<1>4. /\ prog[j].result \in Variables
      /\ prog[j].term.args \in Seq(Variables)
  BY <1>3 DEF Actions, Terms
<1>5. \A l \in DOMAIN prog[j].term.args : prog[j].term.args[l] \in Variables
  BY <1>4
<1>6. n \in Name
  BY <1>1, <1>4, <1>5 DEF variables, TermNames, Variables
<1> QED BY <1>2, <1>6

\* The live sets of a program in order: before its first statement only
\* arguments of the kernel are live.
LEMMA HandedLive ==
  ASSUME Handed
  PROVE  /\ cfg \in Seq(Actions) /\ LivenessOf(cfg, live) /\ live[1] \subseteq Global
         /\ \A k \in 1 .. Len(cfg) + 1 : live[k] \subseteq InMemory(cfg)
<1>1. cfg \in Seq(Actions) /\ LocalsFlow(cfg) /\ TempsFlow(cfg)
  BY DEF Handed, Sound, Base, Flow
<1> DEFINE m == Len(cfg)
<1>2. m \in Nat /\ 1 \in 1 .. m + 1 /\ m + 1 \in 1 .. m + 1
  BY <1>1
<1>3. live = [k \in 1 .. m + 1 |-> UpwardExposed(cfg, k)]
  BY <1>1, LivenessExact DEF Handed
<1>4. \A k \in 1 .. m + 1 : UpwardExposed(cfg, k) \subseteq Name \cap InMemory(cfg)
  BY <1>1, ExposedNames
<1>5. ASSUME NEW k \in 1 .. m
      PROVE  live[k] = (live[k + 1] \ {Def(cfg[k])}) \cup variables(cfg[k])
  <2>1. k \in 1 .. m + 1 /\ k + 1 \in 1 .. m + 1
    BY <1>2
  <2>2. live[k] = UpwardExposed(cfg, k) /\ live[k + 1] = UpwardExposed(cfg, k + 1)
    BY <1>3, <2>1
  <2>3. UpwardExposed(cfg, k) = (UpwardExposed(cfg, k + 1) \ {Def(cfg[k])}) \cup variables(cfg[k])
    BY <1>1, ExposedStep
  <2> QED BY <2>2, <2>3
<1>6. live[m + 1] = {}
  BY <1>1, <1>2, <1>3, NothingExposedAtEnd
<1>7. UpwardExposed(cfg, 1) \subseteq Global
  <2> SUFFICES ASSUME NEW n \in UpwardExposed(cfg, 1), n \in TempTensor PROVE FALSE
    BY <1>1, FlowInitialised DEF Tensor
  <2>1. PICK j \in 1 .. m : /\ n \in variables(cfg[j])
                            /\ \A l \in 1 .. j - 1 : Def(cfg[l]) # n
    BY DEF UpwardExposed
  <2> QED BY <1>1, <2>1 DEF TempsFlow
<1>8. live[1] \subseteq Global
  BY <1>2, <1>3, <1>7
<1>9. LivenessOf(cfg, live)
  <2>1. live \in [1 .. m + 1 -> SUBSET Name]
    BY <1>3, <1>4
  <2> HIDE DEF m
  <2> QED BY <1>5, <1>6, <2>1 DEF LivenessOf, m
<1> QED BY <1>1, <1>3, <1>4, <1>8, <1>9

LEMMA BuffersStart == Handed /\ DStart => DInv /\ FInv /\ EInv
<1> SUFFICES ASSUME Handed, DStart PROVE DInv /\ FInv /\ EInv
  OBVIOUS
<1>1. cfg \in Seq(Actions) /\ LivenessOf(cfg, live) /\ live[1] \subseteq Global
  BY HandedLive
<1>2. DInit
  BY <1>1 DEF DInit, Tensor
<1> QED BY <1>1, <1>2, InvInit, FitsInit, InitEInv

\* The passes hand over a program in order.
LEMMA OptimisedHanded ==
  TInv /\ KInv /\ phase = "Optimised" /\ Aimed /\ Means(lowered) => Handed
<1> SUFFICES ASSUME TInv, KInv, phase = "Optimised", Aimed, Means(lowered) PROVE Handed
  OBVIOUS
<1>1. Sound(cfg) /\ live = Liveness(cfg)
  BY DEF TInv, CodeSound, Sums
<1>2. Tidy(cfg) /\ SameResults(lowered, cfg, TensorValues)
  BY DEF KInv, Aimed, Comparable, Passing, KeepsResults
<1> QED BY <1>1, <1>2 DEF Handed, Tidy, SameResults, Means

\* So does the lowering.
LEMMA LoweredMeans ==
  LInv /\ ValueInv /\ NInv /\ ~ misplaced =>
    Sound(cfg) /\ Unary(cfg) /\ TempsFlow(cfg) /\ Means(cfg)
<1> SUFFICES ASSUME LInv, ValueInv, NInv, ~ misplaced
             PROVE  Sound(cfg) /\ Unary(cfg) /\ TempsFlow(cfg) /\ Means(cfg)
  OBVIOUS
<1>1. Sound(cfg)
  BY LoweredSound DEF CodeSound
<1>2. Unary(cfg) /\ TempsFlow(cfg)
  BY DEF ValueInv, Sane, NInv, Visible
<1>3. Means(cfg)
  BY ValueInvFaithful DEF LoweringFaithful, Means, Tensor
<1> QED BY <1>1, <1>2, <1>3

\* Where the passes lead.
LEMMA PassShape ==
  TNext =>
    /\ ~ Prepared /\ phase' # "Reference"
    /\ \/ phase = "Lowering" /\ phase' = "Lowering"
       \/ phase = "Lowering" /\ lowered' = cfg /\ cfg' = cfg /\ meaning' = meaning /\ misplaced' = misplaced
       \/ phase # "Lowering" /\ UnchangedLowering
<1> USE DEF Prepared
<1>1. Lower => phase = "Lowering" /\ phase' = "Lowering"
  BY DEF Lower, tvars
<1>2. StartPasses => /\ phase = "Lowering" /\ phase' = "MergeScalarMultiplications" /\ lowered' = cfg
                     /\ cfg' = cfg /\ meaning' = meaning /\ misplaced' = misplaced
  BY DEF StartPasses, lvars
<1>3. MergeScalarStep \/ AnalyseLiveness =>
        /\ phase = "MergeScalarMultiplications" /\ UnchangedLowering
        /\ phase' \in {"MergeScalarMultiplications", "SubstituteForward"}
  BY DEF MergeScalarStep, AnalyseLiveness, Unfinished, Advance
<1>4. SubstituteForwardStep \/ EndSubstituteForward =>
        /\ phase = "SubstituteForward" /\ UnchangedLowering
        /\ phase' \in {"SubstituteForward", "SubstituteBackward"}
  BY DEF SubstituteForwardStep, EndSubstituteForward, Unfinished, Advance
<1>5. SubstituteBackwardStep \/ EndSubstituteBackward =>
        /\ phase = "SubstituteBackward" /\ UnchangedLowering
        /\ phase' \in {"SubstituteBackward", "RemoveEmptyStatements"}
  BY DEF SubstituteBackwardStep, EndSubstituteBackward, Unfinished, Advance
<1>6. RemoveEmptyStatementsStep \/ EndRemoveEmptyStatements =>
        /\ phase = "RemoveEmptyStatements" /\ UnchangedLowering
        /\ phase' \in {"RemoveEmptyStatements", "MergeActions"}
  BY DEF RemoveEmptyStatementsStep, EndRemoveEmptyStatements, Unfinished, Advance
<1>7. MergeActionsStep \/ EndMergeActions =>
        /\ phase = "MergeActions" /\ UnchangedLowering
        /\ phase' \in {"MergeActions", "Optimised"}
  BY DEF MergeActionsStep, EndMergeActions, Unfinished, Advance
<1> QED BY <1>1, <1>2, <1>3, <1>4, <1>5, <1>6, <1>7 DEF TNext, Passes

LEMMA InitPInv == PInit => PInv
BY InitTInv, InitKInv DEF PInit, PInv, TInit, Prepared

LEMMA PassPInv == PInv /\ TNext /\ UNCHANGED bvars => PInv'
<1> SUFFICES ASSUME PInv, TNext, UNCHANGED bvars PROVE PInv'
  OBVIOUS
<1>1. /\ ~ Prepared /\ phase' # "Reference"
      /\ \/ phase = "Lowering" /\ phase' = "Lowering"
         \/ phase = "Lowering" /\ lowered' = cfg /\ cfg' = cfg /\ meaning' = meaning /\ misplaced' = misplaced
         \/ phase # "Lowering" /\ UnchangedLowering
  BY PassShape
<1>2. TInv /\ KInv /\ DStart
  BY <1>1 DEF PInv
<1>3. TInv' /\ KInv' /\ DStart'
  BY <1>2, StepTInv, StepKInv DEF DStart, bvars
<1>4. ASSUME phase' # "Lowering", ~ misplaced' PROVE Means(lowered)'
  <2>1. CASE phase = "Lowering"
    <3>1. Means(cfg)
      BY <1>1, <1>2, <1>4, <2>1, LoweredMeans DEF TInv, KInv
    <3> QED BY <1>1, <1>4, <2>1, <3>1 DEF Means
  <2>2. CASE phase # "Lowering"
    <3>1. lowered' = lowered /\ meaning' = meaning /\ misplaced' = misplaced
      BY <1>1, <2>2 DEF UnchangedLowering
    <3> QED BY <1>4, <2>2, <3>1 DEF PInv, Means
  <2> QED BY <2>1, <2>2
<1>5. ASSUME Prepared', Aimed' PROVE (Handed /\ DInv /\ FInv /\ EInv)'
  <2>1. (phase = "Optimised")' /\ Means(lowered)'
    BY <1>1, <1>4, <1>5 DEF Prepared, Aimed
  <2>2. (TInv /\ KInv /\ phase = "Optimised" /\ Aimed /\ Means(lowered) => Handed)'
    BY OptimisedHanded, PTL
  <2>3. Handed'
    BY <1>3, <1>5, <2>1, <2>2
  <2>4. (Handed /\ DStart => DInv /\ FInv /\ EInv)'
    BY BuffersStart, PTL
  <2> QED BY <1>3, <2>3, <2>4
<1> QED BY <1>3, <1>4, <1>5 DEF PInv

LEMMA UnitTestPInv == PInv /\ PrepareUnitTest => PInv'
<1> SUFFICES ASSUME PInv, PrepareUnitTest PROVE PInv'
  OBVIOUS
<1>1. /\ phase = "Lowering" /\ phase' = "Reference" /\ live' = Liveness(cfg) /\ lowered' = cfg
      /\ cfg' = cfg /\ meaning' = meaning /\ misplaced' = misplaced /\ UNCHANGED bvars
  BY DEF PrepareUnitTest, lvars
<1>2. TInv /\ KInv /\ DStart
  BY <1>1 DEF PInv, Prepared
<1>3. ~ misplaced => Sound(cfg) /\ Unary(cfg) /\ TempsFlow(cfg) /\ Means(cfg)
  BY <1>1, <1>2, LoweredMeans DEF TInv, KInv
<1>4. ~ misplaced' => Means(lowered)' /\ Handed'
  BY <1>1, <1>3 DEF Handed, Means
<1>5. DStart'
  BY <1>1, <1>2 DEF DStart, bvars
<1>6. (Handed /\ DStart => DInv /\ FInv /\ EInv)'
  BY BuffersStart, PTL
<1>7. Prepared'
  BY <1>1 DEF Prepared
<1> QED BY <1>4, <1>5, <1>6, <1>7 DEF PInv, Aimed

LEMMA AssignPInv == PInv /\ AssignBuffers => PInv'
<1> SUFFICES ASSUME PInv, AssignBuffers PROVE PInv'
  OBVIOUS
<1>1. /\ Prepared /\ DNext /\ UNCHANGED <<phase, misplaced, lowered, meaning, cfg, live>>
  BY DEF AssignBuffers, UnchangedLowering, DNext, KeepBuffer, ReuseBuffer, NewBuffer, NoBuffer,
         FreeBuffer, Visit
<1>2. Prepared' /\ (Aimed' <=> Aimed)
  BY <1>1 DEF Prepared, Aimed
<1>3. Means(lowered)' <=> Means(lowered)
  BY <1>1 DEF Means
<1>4. ASSUME Aimed PROVE (Handed /\ DInv /\ FInv /\ EInv)'
  <2>1. Handed /\ DInv /\ FInv /\ EInv
    BY <1>1, <1>4 DEF PInv
  <2>2. Handed'
    BY <1>1, <2>1 DEF Handed, Means
  <2> QED BY <1>1, <2>1, <2>2, InvNext, FitsNext, StepEInv
<1> QED BY <1>1, <1>2, <1>3, <1>4 DEF PInv

LEMMA StutterPInv == PInv /\ UNCHANGED pvars => PInv'
<1> SUFFICES ASSUME PInv, UNCHANGED pvars PROVE PInv'
  OBVIOUS
<1>1. UNCHANGED vars /\ UNCHANGED bvars
  BY DEF pvars
<1>2. /\ UNCHANGED <<cfg, live, phase, misplaced, lowered, meaning>>
      /\ UNCHANGED <<point, pending, used, free, numBuffers, bufferSize, bufferMap>>
  BY <1>1 DEF vars, lvars, tvars, bvars
<1>3. ~ Prepared => (TInv /\ KInv /\ DStart)'
  BY <1>1, <1>2, StutterKeeps, StutterMeans DEF PInv, DStart
<1>4. Prepared /\ Aimed => (Handed /\ DInv /\ FInv /\ EInv)'
  <2> SUFFICES ASSUME Prepared, Aimed PROVE (Handed /\ DInv /\ FInv /\ EInv)'
    OBVIOUS
  <2>1. Handed /\ DInv /\ FInv /\ EInv
    BY DEF PInv
  <2>2. Handed'
    BY <1>2, <2>1 DEF Handed, Means
  <2>3. UNCHANGED dvars
    BY <1>2 DEF dvars
  <2>4. DInv' /\ FInv'
    BY <2>1, <2>3, InvNext, FitsNext
  <2>5. \A own, k : InOwnBuffers(own, k)' <=> InOwnBuffers(own, k)
    BY <1>2 DEF InOwnBuffers, Buffered, Buffers
  <2>6. EInv'
    BY <1>2, <2>1, <2>5 DEF EInv, BuffersBound, PointersUsed, PointersApart
  <2> QED BY <2>2, <2>4, <2>6
<1>5. /\ Prepared' <=> Prepared
      /\ Aimed' <=> Aimed
      /\ Means(lowered)' <=> Means(lowered)
  BY <1>2 DEF Prepared, Aimed, Means
<1> QED BY <1>2, <1>3, <1>4, <1>5 DEF PInv

LEMMA GeneratedComputes == PInv => CodeComputesKernel
<1> SUFFICES ASSUME PInv, Generated, Aimed PROVE \A n \in Global : Execute[n] = meaning[n]
  BY DEF CodeComputesKernel, Aimed
<1>1. Handed /\ DInv /\ FInv /\ EInv /\ point = Len(cfg)
  BY DEF PInv, Generated, Assigned
<1>2. Ready
  BY <1>1, HandedLive DEF Ready, Handed, Sound, DInv, DTypeOK, FInv, EInv, PointersApart
<1>3. \A n \in Global : Execute[n] = Run(cfg, TensorValues)[n]
  BY <1>2, ExecuteRuns
<1> QED BY <1>1, <1>3 DEF Handed, Means

\* Whatever the kernel, its layouts and the values of its tensors: the code that
\* KernelGenerator.generate emits (codegen/visitor.py), over the buffers that
\* DetermineLocalInitialization assigned and after all passes, leaves every
\* argument with the value that the assignments of the kernel give it, for every
\* order in which the buffers of the dying locals were freed; so does the code of
\* the unit test, which is not optimised.  Kernels in which visit_Add converts an
\* addend in the place of another are excluded, and from the optimised ones those
\* that forward a result: the runs addend_order and merge_result show why.
THEOREM GeneratedCodeComputesKernel == PSpec => []CodeComputesKernel
<1>1. PInv /\ [PNext]_pvars => PInv'
  BY PassPInv, UnitTestPInv, AssignPInv, StutterPInv DEF PNext
<1>2. PSpec => []PInv
  BY <1>1, InitPInv, PTL DEF PSpec
<1> QED BY <1>2, GeneratedComputes, PTL

-----------------------------------------------------------------------------
\* Only names occur in the actions of a program.
LEMMA VariablesAreNames ==
  ASSUME NEW prog \in Seq(Actions), NEW k \in 1 .. Len(prog)
  PROVE  variables(prog[k]) \subseteq Name
<1> DEFINE a == prog[k]
<1>1. a \in Actions
  OBVIOUS
<1> HIDE DEF a
<1>2. a.result \in Variables /\ a.term.args \in Seq(Variables)
  BY <1>1 DEF Actions, Terms
<1>3. \A j \in DOMAIN a.term.args : a.term.args[j] \in Variables
  BY <1>2
<1>4. \A v \in Variables : v.name \in Name
  BY DEF Variables
<1> QED
  BY <1>2, <1>3, <1>4 DEF variables, TermNames, a

-----------------------------------------------------------------------------
(* LivenessAnalysis: type correctness and exactness *)

LEMMA WalkTypeInit == AInit => ATypeOK
BY DEF AInit, ATypeOK

LEMMA WalkTypeNext == ATypeOK /\ [ANext]_avars => ATypeOK'
<1> SUFFICES ASSUME ATypeOK, VisitPoint
             PROVE  ATypeOK'
  BY DEF ANext, avars, ATypeOK
<1>1. todo \in 1 .. Len(cfg) /\ todo' = todo - 1 /\ cfg' = cfg
  BY DEF ATypeOK, VisitPoint
<1>2. variables(cfg[todo]) \subseteq Name
  BY <1>1, VariablesAreNames DEF ATypeOK
<1>3. walked[todo + 1] \subseteq Name
  BY <1>1 DEF ATypeOK
<1>4. walked' \in [todo .. Len(cfg) + 1 -> SUBSET Name]
  BY <1>1, <1>2, <1>3 DEF ATypeOK, VisitPoint
<1> QED
  BY <1>1, <1>4 DEF ATypeOK

\* The walk keeps its variables in their types.
THEOREM WalkTypeCorrect == ASpec => []ATypeOK
BY WalkTypeInit, WalkTypeNext, PTL DEF ASpec

\* The live sets of the visited points are exact at every step, for every
\* program: the property LiveExact.
THEOREM LiveSetsExact == ASpec => []LiveExact
<1>1. AInit => LiveExact
  <2> SUFFICES ASSUME AInit PROVE LiveExact
    OBVIOUS
  <2>1. \A k \in todo + 1 .. Len(cfg) + 1 : k = Len(cfg) + 1
    BY DEF AInit
  <2> QED
    BY <2>1, NothingExposedAtEnd DEF AInit, LiveExact
<1>2. ATypeOK /\ LiveExact /\ [ANext]_avars => LiveExact'
  <2> SUFFICES ASSUME ATypeOK, LiveExact, VisitPoint
               PROVE  LiveExact'
    BY DEF ANext, avars, LiveExact
  <2>1. todo \in 1 .. Len(cfg) /\ todo' = todo - 1 /\ cfg' = cfg
    BY DEF ATypeOK, VisitPoint
  <2>2. walked'[todo] = UpwardExposed(cfg, todo)
    <3>1. walked[todo + 1] = UpwardExposed(cfg, todo + 1)
      BY <2>1 DEF LiveExact
    <3>2. walked'[todo] = (walked[todo + 1] \ {Def(cfg[todo])}) \cup variables(cfg[todo])
      BY <2>1 DEF VisitPoint
    <3> QED
      BY <2>1, <3>1, <3>2, ExposedStep DEF ATypeOK
  <2>3. ASSUME NEW k \in todo + 1 .. Len(cfg) + 1
        PROVE  walked'[k] = UpwardExposed(cfg, k)
    <3>1. walked'[k] = walked[k]
      BY <2>1 DEF VisitPoint
    <3> QED
      BY <3>1 DEF LiveExact
  <2>4. \A k \in todo' + 1 .. Len(cfg) + 1 : k = todo \/ k \in todo + 1 .. Len(cfg) + 1
    BY <2>1
  <2> QED
    BY <2>1, <2>2, <2>3, <2>4 DEF LiveExact
<1> QED
  BY <1>1, <1>2, WalkTypeCorrect, PTL DEF ASpec
=============================================================================
