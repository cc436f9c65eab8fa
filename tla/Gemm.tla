-------------------------------- MODULE Gemm --------------------------------
(***************************************************************************)
(* The GEMM on a matrix that TermLayout arrived at: the Description takes  *)
(* the ranges of the product from the patterns of its operands             *)
(* (codegen/gemm/factory.py), a tool is chosen (gemm_configuration.py) and *)
(* the call is generated, by the tool (codegen/gemm/gemmgen.py) or as      *)
(* loops (codegen/gemm/generic.py).                                        *)
(*                                                                         *)
(* The left operand is a tensor of two dimensions, the right one and the   *)
(* result are from small sets.  Executing a call means adding, for every   *)
(* stored entry of the left operand and every one of the right operand     *)
(* that meet, the product of the reals found there to a real of the        *)
(* result; a BLAS routine and the routine of a code generator are external *)
(* and do what their arguments say.                                        *)
(***************************************************************************)
EXTENDS TermLayout, GemmTools

CONSTANTS
  Archs,     \* architectures
  Rights,    \* right operands: shape, pattern, layout and transposition
  Scales     \* texts of alpha

ASSUME RightsAssumption ==
  \A r \in Rights :
    /\ r.shape \in Seq(Nat \ {0}) /\ Len(r.shape) = 2
    /\ r.spp # {} /\ r.spp \subseteq (0 .. r.shape[1] - 1) \X (0 .. r.shape[2] - 1)
    /\ r.csc \in BOOLEAN /\ r.aligned \in BOOLEAN /\ r.trans \in BOOLEAN

VARIABLE gemm  \* the call, as a set of at most one

gvars == <<vars, gemm>>

\* An entry of a product as an entry of its operand, and the other way round.
Turned(e, trans) == IF trans THEN <<e[2], e[1]>> ELSE e

\* The nonzeros of a layout that is that of a tensor.
PatternOf(base) ==
  IF base.csc THEN base.spp
  ELSE Cells(IF base.range0 = <<>> THEN base.bbox ELSE [base.bbox EXCEPT ![1] = base.range0[1]])

RightLayout(r) ==
  Layout(IF r.csc THEN CSCLayout(r.shape, r.spp, r.aligned)
         ELSE DenseLayout(r.shape, BoundingBoxOf(r.spp), r.aligned))

-----------------------------------------------------------------------------
(* Description *)

Meet(r, s) == Interval(Max({r.start, s.start}), Min({r.stop, s.stop}))

\* The rows are extended to whole vectors if both columns may be.
Alignment(alignedA, alignedC, m) ==
  LET both  == alignedA /\ alignedC
      start == checkAlignment(m.start)
  IN  [m |-> IF both THEN aligned(m) ELSE m,
       A |-> alignedA /\ (both \/ start), C |-> alignedC /\ (both \/ start)]

\* The parts of the patterns that meet the other operand, and what comes of it.
Meeting(sppA, sppB) ==
  [A |-> {x \in sppA : \E y \in sppB : y[1] = x[2]},
   B |-> {y \in sppB : \E x \in sppA : x[2] = y[1]},
   C |-> UNION {{<<x[1], y[2]>> : y \in {y \in sppB : y[1] = x[2]}} : x \in sppA}]

\* Description of left * right, for a result whose layout holds the box of the
\* product or more than that.
Description(left, transA, right, transB, result, eqspp) ==
  LET boxA  == BoundingBoxOf(eqspp.A)
      boxB  == BoundingBoxOf(eqspp.B)
      align == Alignment(~ transA /\ alignedStride(left), alignedStride(result), boxA[1])
  IN  [A |-> left, transA |-> transA, B |-> right, transB |-> transB, C |-> result,
       m |-> align.m, n |-> boxB[2], k |-> Meet(boxA[2], boxB[1]),
       alignedA |-> align.A, alignedC |-> align.C]

\* What the choice of a tool depends on.
CallOf(d, alpha, beta) ==
  [m |-> size(d.m), n |-> size(d.n), k |-> size(d.k), target |-> "cpu",
   sparseA |-> d.A.base.csc, sparseB |-> d.B.base.csc, transA |-> d.transA, transB |-> d.transB,
   alpha |-> alpha, beta |-> beta, alignedA |-> d.alignedA, alignedC |-> d.alignedC]

\* generator(): the tool for the call, as a set of at most one; without one,
\* loops are generated.
toolFor(arch, d, alpha, beta) ==
  LET memLayoutOk == \A lay \in {d.A, d.B, d.C} : lay.base.csc \/ lay.base.stride[1] = 1
  IN  IF memLayoutOk THEN getGemmTool(DefaultTools(arch), arch, CallOf(d, alpha, beta)) ELSE {}

-----------------------------------------------------------------------------
(* Generating the call *)

\* The ranges of an operand in the order of its own dimensions.
Box(r, s, trans) == IF trans THEN <<s, r>> ELSE <<r, s>>

\* Mistake: the pointer of a transposed operand skips rows for columns.
Start_NotTurned(r, s, trans) == <<r.start, s.start>>

\* _offset
Start(r, s, trans) == Turned(<<r.start, s.start>>, trans)

\* subtensorOffset of the operand has assertions of its own, and so have the
\* entries of a sparse one.
OffsetRaises(lay, start) ==
  \/ \E d \in 1 .. 2 : start[d] \notin Numbers(bboxOf(lay)[d])
  \/ lay.base.csc /\ start[1] > lay.base.bbox[1].start
EntriesRaise(lay, box) == lay.base.csc /\ lay.base.bbox[1].start < box[1].start

\* The assertions of GemmGen.generate; a CSC layout asks for its box, too.
ToolRaises(d) ==
  \/ ~ BoxInLayout(d.A, Box(d.m, d.k, d.transA))
  \/ ~ BoxInLayout(d.B, Box(d.k, d.n, d.transB))
  \/ ~ BoxInLayout(d.C, <<d.m, d.n>>)

Raises(d) ==
  \/ OffsetRaises(d.A, Start(d.m, d.k, d.transA)) \/ EntriesRaise(d.A, Box(d.m, d.k, d.transA))
  \/ OffsetRaises(d.B, Start(d.k, d.n, d.transB)) \/ EntriesRaise(d.B, Box(d.k, d.n, d.transB))
  \/ OffsetRaises(d.C, <<d.m.start, d.n.start>>)

offset(lay, start) ==
  IF lay.base.csc THEN lay.base.colPtr[start[2]] ELSE address(lay, start)

\* The reals that the call reads of an operand, each with its row and column in
\* the product: a nonzero is found by its number, an entry of a dense operand
\* by the strides.
Operand(lay, r, s, trans) ==
  LET box == Box(r, s, trans)
      o   == offset(lay, Start(r, s, trans))
      nz  == cscEntries(lay.base, box[1], box[2])
  IN  IF lay.base.csc
      THEN {[at |-> o + i - 1, e |-> Turned(nz[i], trans)] : i \in DOMAIN nz}
      ELSE {[at |-> o + e[1] * lay.base.stride[1] + e[2] * lay.base.stride[2], e |-> Turned(e, trans)] :
              e \in (0 .. size(box[1]) - 1) \X (0 .. size(box[2]) - 1)}

\* The products, each with the real it is added to.  Loops over one sparse
\* operand leave out what is beyond the ranges.
Products(d) ==
  LET o == offset(d.C, <<d.m.start, d.n.start>>)
      pairs == {p \in Operand(d.A, d.m, d.k, d.transA) \X Operand(d.B, d.k, d.n, d.transB) :
                  p[1].e[2] = p[2].e[1]}
      inside == {p \in pairs : p[1].e[1] < size(d.m) /\ p[2].e[2] < size(d.n)}
      both == d.A.base.csc /\ d.B.base.csc
  IN  {[at |-> o + p[1].e[1] * d.C.base.stride[1] + p[2].e[2] * d.C.base.stride[2],
        a |-> p[1].at, b |-> p[2].at] : p \in IF both THEN pairs ELSE inside}

\* beta = 0: the box of the GEMM is overwritten, and initializeWithZero has
\* cleared what is around it.
Overwritten(d) ==
  {address(d.C, e) : e \in Cells(<<d.m, d.n>>)} \cup notWritten(d.C, <<d.m, d.n>>)

-----------------------------------------------------------------------------
GInit == TInit /\ gemm = {}

\* The term is the left operand, as it is or transposed.
IsLeft ==
  /\ phase = "Matrix"
  /\ gemm = {}
  /\ ~ isOp
  /\ Len(term.base.shape) = 2
  /\ term.views = <<>>
  /\ groups \in {<<{1}, {2}>>, <<{2}, {1}>>}

Multiply(r, whole, alignC, arch, alpha, beta) ==
  LET transA == groups[1] = {2}
      sppA   == {Turned(e, transA) : e \in PatternOf(term.base)}
      sppB   == {Turned(e, r.trans) : e \in r.spp}
      eqspp  == Meeting(sppA, sppB)
      rows   == Turned(term.base.shape, transA)[1]
      shapeC == <<rows, Turned(r.shape, r.trans)[2]>>
      boxC   == IF whole THEN [i \in 1 .. 2 |-> Interval(0, shapeC[i])] ELSE BoundingBoxOf(eqspp.C)
      d      == Description(term, transA, RightLayout(r), r.trans,
                            Layout(DenseLayout(shapeC, boxC, alignC)), eqspp)
      tool   == toolFor(arch, d, alpha, beta)
  IN  /\ IsLeft
      /\ Turned(term.base.shape, transA)[2] = Turned(r.shape, r.trans)[1]
      /\ eqspp.C # {}
      /\ gemm' = {[descr |-> d, tool |-> tool, beta |-> beta, sppA |-> sppA, sppB |-> sppB,
                   raised |-> Raises(d) \/ (tool # {} /\ ToolRaises(d))]}
      /\ UNCHANGED vars

GNext ==
  \/ TNext /\ UNCHANGED gemm
  \/ \E r \in Rights, whole, alignC \in BOOLEAN, arch \in Archs, alpha \in Scales, beta \in {"0", "1"} :
       Multiply(r, whole, alignC, arch, alpha, beta)

GSpec == GInit /\ [][GNext]_gvars

-----------------------------------------------------------------------------
(* Properties *)

\* The reals of an operand: those of the nonzeros differ, padding is zero.
Reals(lay, spp, trans, weight) ==
  [x \in {address(lay, Turned(e, trans)) : e \in spp} |->
     LET e == CHOOSE e \in spp : address(lay, Turned(e, trans)) = x
     IN  1 + e[1] + weight * e[2]]
At(reals, x) == IF x \in DOMAIN reals THEN reals[x] ELSE 0

\* The result of a call: every entry has the sum of its products, added to what
\* it was if beta is one.
Computes(g) ==
  LET d        == g.descr
      realsA   == Reals(d.A, g.sppA, d.transA, 4)
      realsB   == Reals(d.B, g.sppB, d.transB, 16)
      added(p) == At(realsA, p.a) * At(realsB, p.b)
      zeroed   == IF g.beta = "0" THEN Overwritten(d) ELSE {}
      old      == 1000
  IN  \A e \in Cells(d.C.base.bbox) :
        LET x == address(d.C, e)
            prods   == {p \in Products(d) : p.at = x}
            factors == {y \in g.sppA : y[1] = e[1] /\ <<y[2], e[2]>> \in g.sppB}
            product(y) == added([a |-> address(d.A, Turned(y, d.transA)),
                                 b |-> address(d.B, Turned(<<y[2], e[2]>>, d.transB))])
        IN  (IF x \in zeroed THEN 0 ELSE old) + SumFunction([p \in prods |-> added(p)])
              = (IF g.beta = "0" THEN 0 ELSE old) + SumFunction([y \in factors |-> product(y)])

\* A call computes the product, whatever the layouts of the operands, whether
\* they are sparse, padded or transposed, and whether loops are generated or a
\* tool is called, which takes the rows that it was told are aligned.
GemmComputes == \A g \in gemm : ~ g.raised => Computes(g)
=============================================================================
