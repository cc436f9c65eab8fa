---------------------------- MODULE LoopOverGEMM ----------------------------
(***************************************************************************)
(* The statement emitted for a contraction (codegen/log): loops around a   *)
(* GEMM.  An outer loop index belongs to the result, an inner one is       *)
(* summed over.  Statements that do not accumulate (beta = 0) clear what   *)
(* the loops do not write, assign in a first pass over the inner loops,    *)
(* which is peeled off the first inner index, and add in a second pass.    *)
(*                                                                         *)
(* A cell of the result is abstracted to how often it contains each        *)
(* contribution: what it held before (old), and the product at each point  *)
(* of the inner loops (terms).  The order of a loop's iterations is left   *)
(* open.                                                                   *)
(***************************************************************************)
EXTENDS Integers

CONSTANTS
  Outer,        \* the points of the outer loops, one point if there are none
  Peel,         \* the range of the first inner index; one point without any
  Rest,         \* the points of the other inner loops, one if there are none
  ResultOuter,  \* the outer points that the layout of the result stores
  ResultRows,   \* the cells of the result at an outer point
  GEMMRows,     \* the cells that a GEMM writes: the bounding box of m and n
  Alphas        \* the scalars

ASSUME LoopsAssumption ==
  /\ Outer \subseteq ResultOuter
  /\ GEMMRows \subseteq ResultRows
  /\ \E start \in Peel : \A i \in Peel : start <= i
  /\ Peel \subseteq Int
  /\ Rest # {}
  /\ Alphas \subseteq Int \ {0}

VARIABLES
  add,      \* the statement accumulates into its result
  alpha,    \* its scalar
  cleared,  \* initializeWithZero has run
  todo,     \* the outer points still to visit
  at,       \* the outer point of the loop body, {} outside of the loop
  assign,   \* the inner points still to visit with beta = 0
  adds,     \* the inner points still to visit with beta = 1
  result

gvars == <<add, alpha, cleared, todo, at, assign, adds, result>>

Points  == Peel \X Rest
Cells   == ResultOuter \X ResultRows
Amounts == [old : Int, terms : [Points -> Int]]

Old  == [old |-> 1, terms |-> [p \in Points |-> 0]]
Zero == [old |-> 0, terms |-> [p \in Points |-> 0]]

-----------------------------------------------------------------------------
(* Description.__init__: the ranges of the two passes *)

Start == CHOOSE start \in Peel : \A i \in Peel : start <= i

AssignPoints == IF add THEN {} ELSE {Start} \X Rest

\* Mistake: the peeled iteration is not taken out of the second pass.
AddPoints_All == Points

AddPoints == IF add THEN Points ELSE (Peel \ {Start}) \X Rest

\* The box of boundingBoxFromLoopRanges; notWrittenAddresses is the rest.
WriteBox == Outer \X GEMMRows

-----------------------------------------------------------------------------
GInit ==
  /\ add \in BOOLEAN
  /\ alpha \in Alphas
  /\ cleared = FALSE
  /\ todo = Outer
  /\ at = {}
  /\ assign = {}
  /\ adds = {}
  /\ result = [cell \in Cells |-> Old]

InitializeWithZero ==
  /\ ~ cleared
  /\ cleared' = TRUE
  /\ result' = [cell \in Cells |->
                  IF add \/ cell \in WriteBox THEN result[cell] ELSE Zero]
  /\ UNCHANGED <<add, alpha, todo, at, assign, adds>>

\* Mistake: the loop does not advance its index.
EnterOuter_Again(o) ==
  /\ cleared
  /\ at = {}
  /\ at' = {o}
  /\ todo' = todo
  /\ assign' = AssignPoints
  /\ adds' = AddPoints
  /\ UNCHANGED <<add, alpha, cleared, result>>

EnterOuter(o) ==
  /\ cleared
  /\ at = {}
  /\ at' = {o}
  /\ todo' = todo \ {o}
  /\ assign' = AssignPoints
  /\ adds' = AddPoints
  /\ UNCHANGED <<add, alpha, cleared, result>>

\* The amounts in a cell after a product at p; beta is 0 or 1.
Product(beta, p, amounts) ==
  [old   |-> beta * amounts.old,
   terms |-> [q \in Points |->
                beta * amounts.terms[q] + (IF q = p THEN alpha ELSE 0)]]

\* The GEMM at one point of the inner loops.
GEMM(beta, p) ==
  result' = [cell \in Cells |->
    IF cell \in at \X GEMMRows
    THEN Product(beta, p, result[cell]) ELSE result[cell]]

AssignGEMM(p) ==
  /\ GEMM(0, p)
  /\ assign' = assign \ {p}
  /\ UNCHANGED <<add, alpha, cleared, todo, at, adds>>

AddGEMM(p) ==
  /\ assign = {}
  /\ GEMM(1, p)
  /\ adds' = adds \ {p}
  /\ UNCHANGED <<add, alpha, cleared, todo, at, assign>>

LeaveOuter ==
  /\ at # {}
  /\ assign = {}
  /\ adds = {}
  /\ at' = {}
  /\ UNCHANGED <<add, alpha, cleared, todo, assign, adds, result>>

GNext ==
  \/ InitializeWithZero
  \/ \E o \in todo : EnterOuter(o)
  \/ \E p \in assign : AssignGEMM(p)
  \/ \E p \in adds : AddGEMM(p)
  \/ LeaveOuter

GSpec == GInit /\ [][GNext]_gvars

Executed == cleared /\ todo = {} /\ at = {}

-----------------------------------------------------------------------------
(* Properties *)

\* The type of the state; the loop body is at a point that is not to be
\* visited again (the loops of forLoops and their bodies in generate).
GTypeOK ==
  /\ add \in BOOLEAN
  /\ alpha \in Alphas
  /\ cleared \in BOOLEAN
  /\ todo \subseteq Outer
  /\ \/ at = {}
     \/ \E o \in Outer \ todo : at = {o}
  /\ assign \subseteq AssignPoints
  /\ adds \subseteq AddPoints
  /\ result \in [Cells -> Amounts]

\* What the statement promises: the contraction in the cells that the loops
\* write, zero in the others, on top of the old value if it accumulates.
Promised ==
  [cell \in Cells |->
    [old   |-> IF add THEN 1 ELSE 0,
     terms |-> [p \in Points |-> IF cell \in WriteBox THEN alpha ELSE 0]]]

OneInnerLoop == \A p, q \in Rest : p = q

\* Executing the statement leaves every cell of the result with every product
\* exactly once, if it has at most one inner loop or accumulates: peeling
\* (Description.__init__) and clearing (initializeWithZero) fit together.
ResultComplete == Executed /\ (OneInnerLoop \/ add) => result = Promised

\* The reference of the generated unit test sums over all indices at once,
\* and the test compares every writable tensor (codegen/visitor.py:616):
\*   if var.writable:
\*     factory.compare(var, ...)
ResultCompares == Executed => result = Promised
=============================================================================
