------------------------- MODULE LoopOverGEMMProofs -------------------------
(***************************************************************************)
(* Proofs about the loops around a GEMM, for every size of the loops, of   *)
(* the result and of the part of it that a GEMM writes.                    *)
(***************************************************************************)
EXTENDS LoopOverGEMM, TLAPS

\* The scope of the result: either the statement accumulates, or there is at
\* most one inner loop, so that the peeled pass is a single GEMM.
Covered == OneInnerLoop \/ add

\* What a cell at the current outer point holds.
InProgress ==
  IF assign # {} THEN Old
  ELSE [old   |-> IF add THEN 1 ELSE 0,
        terms |-> [p \in Points |-> IF p \in adds THEN 0 ELSE alpha]]

\* The statement starts by clearing the result.
BeforeLoops == ~ cleared => todo = Outer /\ at = {}

\* Outside of the loop body nothing is left of the inner loops, and the
\* second pass starts when the first is through.
InnerLoops ==
  /\ at = {} => assign = {} /\ adds = {}
  /\ assign # {} => adds = AddPoints

\* The cells that the loops do not write.
OtherCells ==
  \A cell \in Cells \ WriteBox :
    result[cell] = IF cleared THEN Promised[cell] ELSE Old

\* The cells of the outer points to come, of those done and of the current.
LoopCells ==
  \A cell \in WriteBox :
    /\ cell[1] \in todo => result[cell] = Old
    /\ cell[1] \notin todo \cup at => result[cell] = Promised[cell]
    /\ cell[1] \in at => result[cell] = InProgress

LoopsInv ==
  /\ GTypeOK
  /\ BeforeLoops
  /\ InnerLoops
  /\ OtherCells
  /\ Covered => LoopCells

-----------------------------------------------------------------------------
\* The peeled index has a first value (Description.__init__).
LEMMA StartInPeel == Start \in Peel
BY LoopsAssumption DEF Start

\* The two passes visit inner points only.
LEMMA PassesArePoints ==
  AssignPoints \subseteq Points /\ AddPoints \subseteq Points
BY StartInPeel DEF AssignPoints, AddPoints, Points

\* The amounts in a cell are integers.
LEMMA AmountsTyped == Old \in Amounts /\ Zero \in Amounts
BY DEF Old, Zero, Amounts

\* A product keeps the type of a cell.
LEMMA ProductTyped ==
  ASSUME NEW beta \in {0, 1}, NEW p, NEW a \in Amounts, alpha \in Alphas
  PROVE  Product(beta, p, a) \in Amounts
<1>1. alpha \in Int
  BY LoopsAssumption
<1>2. a.old \in Int /\ a.terms \in [Points -> Int]
  BY DEF Amounts
<1>3. beta * a.old \in Int
  BY <1>2
<1>4. \A q \in Points : beta * a.terms[q] + (IF q = p THEN alpha ELSE 0) \in Int
  BY <1>1, <1>2
<1> QED
  BY <1>3, <1>4 DEF Product, Amounts

\* The state of the statement keeps its type, and the body of the loop is
\* never at a point that is visited again.
THEOREM TypeCorrect == GSpec => []GTypeOK
<1>1. GInit => GTypeOK
  BY AmountsTyped, LoopsAssumption DEF GInit, GTypeOK
<1>2. GTypeOK /\ [GNext]_gvars => GTypeOK'
  <2> SUFFICES ASSUME GTypeOK, [GNext]_gvars PROVE GTypeOK'
    OBVIOUS
  <2> USE DEF GTypeOK
  <2>1. CASE InitializeWithZero
    BY <2>1, AmountsTyped DEF InitializeWithZero, AssignPoints, AddPoints
  <2>2. ASSUME NEW o \in todo, EnterOuter(o) PROVE GTypeOK'
    BY <2>2 DEF EnterOuter, AssignPoints, AddPoints
  <2>3. ASSUME NEW p \in assign, AssignGEMM(p) PROVE GTypeOK'
    <3>1. result' \in [Cells -> Amounts]
      BY <2>3, ProductTyped DEF AssignGEMM, GEMM
    <3> QED
      BY <2>3, <3>1 DEF AssignGEMM, AssignPoints, AddPoints
  <2>4. ASSUME NEW p \in adds, AddGEMM(p) PROVE GTypeOK'
    <3>1. result' \in [Cells -> Amounts]
      BY <2>4, ProductTyped DEF AddGEMM, GEMM
    <3> QED
      BY <2>4, <3>1 DEF AddGEMM, AssignPoints, AddPoints
  <2>5. CASE LeaveOuter
    BY <2>5 DEF LeaveOuter, AssignPoints, AddPoints
  <2>6. CASE UNCHANGED gvars
    BY <2>6 DEF gvars, AssignPoints, AddPoints
  <2> QED
    BY <2>1, <2>2, <2>3, <2>4, <2>5, <2>6 DEF GNext
<1> QED
  BY <1>1, <1>2, PTL DEF GSpec

-----------------------------------------------------------------------------
\* Before the loops nothing is written.
LEMMA InvariantInit == GInit => LoopsInv
<1> SUFFICES ASSUME GInit PROVE LoopsInv
  OBVIOUS
<1>1. GTypeOK
  BY AmountsTyped, LoopsAssumption DEF GInit, GTypeOK
<1>2. BeforeLoops /\ InnerLoops
  BY DEF GInit, BeforeLoops, InnerLoops
<1>3. WriteBox \subseteq Cells
  BY LoopsAssumption DEF WriteBox, Cells
<1>4. OtherCells /\ LoopCells
  BY <1>3 DEF GInit, OtherCells, LoopCells, WriteBox
<1> QED
  BY <1>1, <1>2, <1>4 DEF LoopsInv

\* Clearing touches no cell that the loops write.
LEMMA KeptByClearing ==
  ASSUME LoopsInv, InitializeWithZero
  PROVE  BeforeLoops' /\ InnerLoops' /\ OtherCells' /\ (Covered => LoopCells)'
<1> USE DEF LoopsInv, InitializeWithZero
<1>1. WriteBox \subseteq Cells
  BY LoopsAssumption DEF WriteBox, Cells
<1>2. BeforeLoops' /\ InnerLoops'
  BY DEF BeforeLoops, InnerLoops, AddPoints
<1>3. OtherCells'
  BY DEF OtherCells, Promised, Old, Zero
<1>4. \A cell \in WriteBox : result'[cell] = result[cell]
  BY <1>1
<1>5. InProgress' = InProgress /\ Promised' = Promised
  BY DEF InProgress, Promised
<1>6. (Covered => LoopCells)'
  BY <1>4, <1>5 DEF Covered, LoopCells
<1> QED
  BY <1>2, <1>3, <1>6

\* The body starts with a result that holds the old value, whichever pass is
\* the first.
LEMMA KeptByEntering ==
  ASSUME LoopsInv, NEW o \in todo, EnterOuter(o)
  PROVE  BeforeLoops' /\ InnerLoops' /\ OtherCells' /\ (Covered => LoopCells)'
<1> USE DEF LoopsInv, EnterOuter
<1>1. BeforeLoops' /\ InnerLoops'
  BY DEF BeforeLoops, InnerLoops, AddPoints
<1>2. Promised' = Promised
  BY DEF Promised
<1>3. OtherCells'
  BY <1>2 DEF OtherCells
<1>4. InProgress' = Old
  <2>1. CASE add
    BY <2>1 DEF InProgress, AssignPoints, AddPoints, Old
  <2>2. CASE ~ add
    <3>1. AssignPoints # {}
      <4>1. PICK r \in Rest : TRUE
        BY LoopsAssumption
      <4>2. <<Start, r>> \in {Start} \X Rest
        OBVIOUS
      <4> QED
        BY <2>2, <4>2 DEF AssignPoints
    <3> QED
      BY <3>1 DEF InProgress, Old
  <2> QED
    BY <2>1, <2>2
<1>5. ASSUME Covered PROVE LoopCells'
  BY <1>2, <1>4, <1>5 DEF LoopCells, Covered
<1> QED
  BY <1>1, <1>3, <1>5 DEF Covered

\* With one inner loop the peeled pass is one GEMM, which overwrites the old
\* value with the product at the first point.
LEMMA KeptByAssigning ==
  ASSUME LoopsInv, NEW p \in assign, AssignGEMM(p)
  PROVE  BeforeLoops' /\ InnerLoops' /\ OtherCells' /\ (Covered => LoopCells)'
<1> USE DEF LoopsInv, AssignGEMM, GEMM
<1>1. ~ add /\ p \in {Start} \X Rest /\ assign \subseteq {Start} \X Rest
  BY DEF GTypeOK, AssignPoints
<1>2. at # {} /\ cleared
  BY DEF InnerLoops, BeforeLoops
<1>3. BeforeLoops' /\ InnerLoops'
  BY <1>2 DEF BeforeLoops, InnerLoops, AddPoints
<1>4. Promised' = Promised
  BY DEF Promised
<1>5. at \X GEMMRows \subseteq WriteBox /\ WriteBox \subseteq Cells
  BY LoopsAssumption DEF GTypeOK, WriteBox, Cells
<1>6. OtherCells'
  BY <1>4, <1>5 DEF OtherCells
<1>7. ASSUME Covered PROVE LoopCells'
  <2>1. OneInnerLoop
    BY <1>1, <1>7 DEF Covered
  <2>2. assign' = {} /\ adds' = AddPoints
    BY <1>1, <2>1 DEF OneInnerLoop, InnerLoops
  <2>3. \A q \in Points : q \in AddPoints <=> q # p
    BY <1>1, <2>1, StartInPeel DEF Points, AddPoints, OneInnerLoop
  <2>4. alpha \in Int
    BY LoopsAssumption DEF GTypeOK
  <2>5. Product(0, p, Old) = InProgress'
    BY <1>1, <2>2, <2>3, <2>4 DEF Product, Old, InProgress
  <2>6. \A cell \in at \X GEMMRows : result[cell] = Old
    BY <1>5, <1>7 DEF LoopCells, InProgress
  <2>7. \A cell \in at \X GEMMRows : result'[cell] = InProgress'
    BY <1>5, <2>5, <2>6
  <2>8. \A cell \in WriteBox : cell[1] \in at => cell \in at \X GEMMRows
    BY DEF WriteBox
  <2>9. \A cell \in WriteBox : cell[1] \notin at => result'[cell] = result[cell]
    BY <1>5
  <2>10. LoopCells
    BY <1>7
  <2>11. at \cap todo = {}
    BY DEF GTypeOK
  <2> QED
    BY <1>4, <2>7, <2>8, <2>9, <2>10, <2>11 DEF LoopCells
<1> QED
  BY <1>3, <1>6, <1>7 DEF Covered

\* A GEMM of the second pass adds the product at its point.
LEMMA KeptByAdding ==
  ASSUME LoopsInv, NEW p \in adds, AddGEMM(p)
  PROVE  BeforeLoops' /\ InnerLoops' /\ OtherCells' /\ (Covered => LoopCells)'
<1> USE DEF LoopsInv, AddGEMM, GEMM
<1>1. at # {} /\ cleared
  BY DEF InnerLoops, BeforeLoops
<1>2. BeforeLoops' /\ InnerLoops'
  BY <1>1 DEF BeforeLoops, InnerLoops, AddPoints
<1>3. Promised' = Promised
  BY DEF Promised
<1>4. at \X GEMMRows \subseteq WriteBox /\ WriteBox \subseteq Cells
  BY LoopsAssumption DEF GTypeOK, WriteBox, Cells
<1>5. OtherCells'
  BY <1>3, <1>4 DEF OtherCells
<1>6. ASSUME Covered PROVE LoopCells'
  <2>1. alpha \in Int
    BY LoopsAssumption DEF GTypeOK
  <2>2. Product(1, p, InProgress) = InProgress'
    BY <2>1 DEF Product, InProgress
  <2>3. \A cell \in at \X GEMMRows : result'[cell] = InProgress'
    BY <1>4, <1>6, <2>2 DEF LoopCells
  <2>4. \A cell \in WriteBox : cell[1] \in at => cell \in at \X GEMMRows
    BY DEF WriteBox
  <2>5. \A cell \in WriteBox : cell[1] \notin at => result'[cell] = result[cell]
    BY <1>4
  <2>6. LoopCells
    BY <1>6
  <2>7. at \cap todo = {}
    BY DEF GTypeOK
  <2> QED
    BY <1>3, <2>3, <2>4, <2>5, <2>6, <2>7 DEF LoopCells
<1> QED
  BY <1>2, <1>5, <1>6 DEF Covered

\* A body that is through leaves its cells as promised.
LEMMA KeptByLeaving ==
  ASSUME LoopsInv, LeaveOuter
  PROVE  BeforeLoops' /\ InnerLoops' /\ OtherCells' /\ (Covered => LoopCells)'
<1> USE DEF LoopsInv, LeaveOuter
<1>1. BeforeLoops' /\ InnerLoops'
  BY DEF BeforeLoops, InnerLoops
<1>2. Promised' = Promised
  BY DEF Promised
<1>3. OtherCells'
  BY <1>2 DEF OtherCells
<1>4. WriteBox \subseteq Cells
  BY LoopsAssumption DEF WriteBox, Cells
<1>5. \A cell \in WriteBox : InProgress = Promised[cell]
  BY <1>4 DEF InProgress, Promised
<1>6. (Covered => LoopCells)'
  BY <1>2, <1>5 DEF Covered, LoopCells
<1> QED
  BY <1>1, <1>3, <1>6

\* Executing the statement leaves every cell of the result with every product
\* exactly once, for any extent of the loops and any layout of the result, if
\* the statement has at most one inner loop or accumulates.
THEOREM ResultIsComplete == GSpec => []ResultComplete
<1>1. LoopsInv /\ GTypeOK' /\ [GNext]_gvars => LoopsInv'
  <2> SUFFICES ASSUME LoopsInv, GTypeOK', [GNext]_gvars PROVE LoopsInv'
    OBVIOUS
  <2>1. CASE UNCHANGED gvars
    <3>1. Promised' = Promised /\ InProgress' = InProgress /\ AddPoints' = AddPoints
      BY <2>1 DEF gvars, Promised, InProgress, AddPoints
    <3> QED
      BY <2>1, <3>1 DEF gvars, LoopsInv, BeforeLoops, InnerLoops, OtherCells,
        Covered, LoopCells
  <2>2. CASE InitializeWithZero
    BY <2>2, KeptByClearing DEF LoopsInv
  <2>3. ASSUME NEW o \in todo, EnterOuter(o) PROVE LoopsInv'
    BY <2>3, KeptByEntering DEF LoopsInv
  <2>4. ASSUME NEW p \in assign, AssignGEMM(p) PROVE LoopsInv'
    BY <2>4, KeptByAssigning DEF LoopsInv
  <2>5. ASSUME NEW p \in adds, AddGEMM(p) PROVE LoopsInv'
    BY <2>5, KeptByAdding DEF LoopsInv
  <2>6. CASE LeaveOuter
    BY <2>6, KeptByLeaving DEF LoopsInv
  <2> QED
    BY <2>1, <2>2, <2>3, <2>4, <2>5, <2>6 DEF GNext
<1>2. LoopsInv => ResultComplete
  <2> SUFFICES ASSUME LoopsInv, Executed, Covered PROVE result = Promised
    BY DEF ResultComplete, Covered
  <2>1. \A cell \in Cells : result[cell] = Promised[cell]
    <3>1. \A cell \in WriteBox : result[cell] = Promised[cell]
      BY DEF LoopsInv, LoopCells, Executed
    <3>2. \A cell \in Cells \ WriteBox : result[cell] = Promised[cell]
      BY DEF LoopsInv, OtherCells, Executed
    <3> QED
      BY <3>1, <3>2
  <2> QED
    BY <2>1 DEF LoopsInv, GTypeOK, Promised
<1> QED
  BY InvariantInit, TypeCorrect, <1>1, <1>2, PTL DEF GSpec
=============================================================================
