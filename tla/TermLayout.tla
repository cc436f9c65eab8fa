----------------------------- MODULE TermLayout -----------------------------
(***************************************************************************)
(* The layout of one operand or result of a contraction: it starts as that *)
(* of a tensor or of an operation, is sliced or permuted, becomes the      *)
(* layout of a matrix (_memLayout of codegen/log/generic.py), and its      *)
(* matrix is described to a GEMM (codegen/gemm/factory.py).                *)
(*                                                                         *)
(* A step whose method the class lacks, or whose assertion fails, is not   *)
(* taken: the generator ends there with an exception.                      *)
(***************************************************************************)
EXTENDS MemoryLayout

CONSTANTS
  Shapes,     \* shapes of terms
  MaxSlices   \* bound on the slices of a term

ASSUME ShapesAssumption ==
  /\ MaxSlices \in Nat
  /\ \A s \in Shapes : s \in Seq(Nat \ {0}) /\ s # <<>>

VARIABLES
  phase,      \* "Node", then "Matrix", then "Described"
  term,       \* the layout of the term
  isOp,       \* the term is an operation, whose indices may be permuted
  groups,     \* the positions that are fused to the rows, and to the columns
  matrix,     \* the layout handed to the GEMM
  descr       \* the ranges of the GEMM and of the loops around it

vars == <<phase, term, isOp, groups, matrix, descr>>

Dims == DOMAIN shapeOf(term)

SubRanges(n) == {Interval(a, b) : a \in 0 .. n - 1, b \in 1 .. n}
NonEmpty(R)  == {r \in R : size(r) > 0}
Boxes(shape) ==
  {b \in [DOMAIN shape -> UNION {SubRanges(shape[d]) : d \in DOMAIN shape}] :
     \A d \in DOMAIN shape : b[d] \in NonEmpty(SubRanges(shape[d]))}

NoRange   == Interval(0, 0)
NotYet    == [m |-> NoRange, n |-> NoRange, loops |-> <<>>, claim |-> FALSE]

-----------------------------------------------------------------------------
(* The layouts a term starts with *)

TensorLayouts(shape) ==
  {Layout(DenseLayout(shape, bbox, a)) : bbox \in Boxes(shape), a \in BOOLEAN}
    \cup (IF Len(shape) # 2 THEN {}
          ELSE {Layout(CSCLayout(shape, spp, a)) : a \in BOOLEAN,
                  spp \in (SUBSET ((0 .. shape[1] - 1) \X (0 .. shape[2] - 1))) \ {{}}})

\* computeMemoryLayout; the offset comes from the operands.
OpLayouts(shape) ==
  {fromSpp(shape, bbox, a, offset) :
     bbox \in Boxes(shape), a \in BOOLEAN, offset \in 0 .. AlignedReals - 1}

TInit ==
  /\ phase = "Node"
  /\ \E shape \in Shapes :
       \/ isOp = FALSE /\ term \in TensorLayouts(shape)
       \/ isOp = TRUE /\ term \in OpLayouts(shape)
  /\ groups = <<{}, {}>>
  /\ matrix = term
  /\ descr = NotYet

-----------------------------------------------------------------------------
(* SliceView and setIndexPermutation *)

Subslice(d, r) ==
  /\ phase = "Node"
  /\ Len(term.views) < MaxSlices
  /\ term' = subslice(term, d, r.start, r.stop)
  /\ isOp' = FALSE
  /\ matrix' = term'
  /\ UNCHANGED <<phase, groups, descr>>

Permute(p) ==
  /\ phase = "Node"
  /\ isOp
  /\ term' = permuted(term, p)
  /\ matrix' = term'
  /\ UNCHANGED <<phase, isOp, groups, descr>>

-----------------------------------------------------------------------------
(* _memLayout *)

\* Two dimensions are not unfolded, not even if they are transposed.
MatrixOf(I, J) ==
  IF I = {} /\ J = {} THEN Layout(DenseLayout(<<1, 1>>, <<Interval(0, 1), Interval(0, 1)>>, FALSE))
  ELSE IF I = {} \/ J = {} THEN Layout(withDummyDimension(vec(term.base, I \cup J)))
  ELSE IF Cardinality(Dims) = 2 THEN term
  ELSE unfold(term, I, J)

\* A view has no vec; a CSC layout, which is a matrix, has none either and no
\* addressString.
HasMethod(I, J) ==
  /\ (I = {}) # (J = {}) => term.views = <<>>
  /\ term.base.csc => I # {} /\ J # {}

\* LoG fuses neighbours that the layout may fuse (fusedVariants).
FusedVariants == {S \in SUBSET Dims : S = {} \/ (S = Min(S) .. Max(S) /\ mayFuse(term, S))}

MakeMatrix(I, J) ==
  /\ phase = "Node"
  /\ I \cap J = {}
  /\ HasMethod(I, J)
  /\ groups' = <<I, J>>
  /\ matrix' = MatrixOf(I, J)
  /\ phase' = "Matrix"
  /\ UNCHANGED <<term, isOp, descr>>

-----------------------------------------------------------------------------
(* The Description of the GEMM *)

\* The dimensions that the loops around the GEMM run over.
Looped == Dims \ (groups[1] \cup groups[2])

\* The part of a layout that its storage holds.
Held(lay, d) ==
  LET r == lay.base.bbox[d]
      s == Shift(lay, d)
  IN  IF d \in Viewed(lay)
      THEN Interval(Max({r.start - s, 0}), Min({r.stop - s, shapeOf(lay)[d]}))
      ELSE r

\* The ranges of a sparsity pattern that the layout is compatible with.
Patterns(lay, d) == {r \in NonEmpty(SubRanges(shapeOf(lay)[d])) : Within(r, Held(lay, d))}

\* isAlignedAddressString: the pointer that the loops move stays aligned.
alignedStart ==
  IF term.base.csc THEN Looped = {} \/ 1 \in Looped
  ELSE \A d \in Looped : checkAlignment(term.base.stride[d])

\* In the result and in a left operand that is not transposed, the rows are
\* those of the product; they are extended to whole vectors if both allow it.
Describe(m, n, loops, ofProduct, other) ==
  LET mine == ofProduct /\ alignedStart /\ alignedStride(matrix)
  IN  /\ phase' = "Described"
      /\ descr' = [m |-> IF mine /\ other THEN aligned(m) ELSE m, n |-> n, loops |-> loops,
                   claim |-> mine /\ (other \/ checkAlignment(m.start))]
      /\ UNCHANGED <<term, isOp, groups, matrix>>

TNext ==
  \/ \E d \in Dims : \E r \in NonEmpty(SubRanges(shapeOf(term)[d])) : Subslice(d, r)
  \/ \E p \in Bijection(Dims, Dims) : Permute(p)
  \/ \E I, J \in FusedVariants : MakeMatrix(I, J)
  \/ /\ phase = "Matrix"
     /\ \E m \in Patterns(matrix, 1), n \in Patterns(matrix, 2) :
          \E loops \in [Looped -> UNION {Patterns(term, d) : d \in Looped}] :
            /\ \A d \in Looped : loops[d] \in Patterns(term, d)
            /\ \E ofProduct, other \in BOOLEAN : Describe(m, n, loops, ofProduct, other)

TSpec == TInit /\ [][TNext]_vars

-----------------------------------------------------------------------------
(* Where the program accesses memory *)

\* The groups in the order of the dimensions of the matrix.
First  == IF groups[2] # {} /\ (groups[1] = {} \/ Min(groups[2]) < Min(groups[1]))
          THEN groups[2] ELSE groups[1]
Second == IF First = groups[1] THEN groups[2] ELSE groups[1]

Fused(S, e) == Number(shapeOf(term), S, e)
MatrixEntry(e) == <<Fused(First, e), Fused(Second, e)>>

\* addressString, by which the loops move the pointer.
LoopAddress(e) ==
  SumFunction([d \in Looped |-> term.base.stride[d] * (e[d] + Shift(term, d) - term.base.bbox[d].start)])

\* The entries that a CSC layout was made for, as <<row, column>>.
Nonzeros == StoredOf(term.base.spp, term.base.aligned)

StoredEntries ==
  {e \in Cells([d \in Dims |-> Held(term, d)]) : term.base.csc => relidx(term, e) \in Nonzeros}
Addresses == {address(term, e) : e \in StoredEntries}

\* What the loops and the GEMM write, and what is cleared before them.
Written ==
  {LoopAddress(l) + address(matrix, <<i, j>>) :
     l \in Cells(descr.loops), i \in Numbers(descr.m), j \in Numbers(descr.n)}

\* The code takes a range apart by the layout of the operand that has the rows or
\* the columns; the result has the same sizes, unless one of them slices a group.
rangesOf(S, r) == IF Cardinality(S) = 1 THEN [d \in S |-> r] ELSE defuse(term, r, S)
writeBB == [d \in Dims |-> IF d \in Looped THEN descr.loops[d]
                           ELSE IF d \in First THEN rangesOf(First, descr.m)[d]
                           ELSE rangesOf(Second, descr.n)[d]]
Cleared == notWritten(term, writeBB)

-----------------------------------------------------------------------------
(* Conditions under which the code works; it checks none of them *)

\* The storage and its slices start where a vector starts.
AlignedOrigin ==
  /\ checkAlignment(matrix.base.bbox[1].start)
  /\ \A v \in Views(matrix) : v.index = 1 => checkAlignment(v.start)

\* A slice of a fused dimension is found again if the groups keep their order.
SlicesKeepPlace ==
  \/ Cardinality(Dims) = 2 \/ First = groups[1]
  \/ Viewed(term) \cap (First \cup Second) = {}

\* The slices are of different dimensions, which the storage holds from their
\* first entry on and of which none is fused with another, and only the last
\* one starts after the first entry.
SimpleSlices ==
  /\ Cardinality(Viewed(term)) = Len(term.views)
  /\ \A k \in 1 .. Len(term.views) - 1 : term.views[k].start = 0
  /\ \A v \in Views(term) :
       /\ term.base.bbox[v.index].start = 0
       /\ \A S \in {First, Second} : v.index \in S => S = {v.index}

-----------------------------------------------------------------------------
(* Properties *)

\* Different entries of a term have different addresses within its storage,
\* however it was sliced and permuted.
StoredApart ==
  phase = "Node" =>
    /\ Cardinality(Addresses) = Cardinality(StoredEntries)
    /\ Addresses \subseteq 0 .. requiredReals(term.base) - 1

\* The pointer that the loops move and the matrix that the GEMM sees lead to
\* the same real as the address of the entry does.
SplitAddress ==
  phase = "Matrix" /\ SlicesKeepPlace =>
    \A e \in StoredEntries : address(term, e) = LoopAddress(e) + address(matrix, MatrixEntry(e))

\* The box of a term before its rows were extended to whole vectors.
Unaligned(lay, d) ==
  IF d = 1 /\ lay.base.range0 # <<>> THEN Shifted(lay.base.range0[1], -Shift(lay, 1))
  ELSE Shifted(lay.base.bbox[d], -Shift(lay, d))

\* A permutation moves sizes, boxes and offset of the dimensions together; of
\* an operation with an offset, if it is its own inverse.
MovesTogether ==
  \A p \in Bijection(Dims, Dims) :
    Permute(p) /\ (term.views = <<>> \/ \A d \in Dims : p[p[d]] = d)
      => \A d \in Dims : /\ shapeOf(term')[d] = shapeOf(term)[p[d]]
                        /\ Unaligned(term', d) = Unaligned(term, p[d])
PermutedTogether == [][MovesTogether]_vars

\* A sparse GEMM enumerates all nonzeros of its columns, and they lie one
\* after the other, from the offset of the submatrix on.
EntriesAddressed ==
  phase = "Node" /\ term.base.csc =>
    \A cols \in Patterns(term, 2) :
      LET rows  == term.base.bbox[1]
          at    == Shifted(cols, Shift(term, 2))
          nz    == cscEntries(term.base, rows, at)
          entry(k) == <<rows.start + nz[k][1], at.start + nz[k][2]>>
      IN  /\ {entry(k) : k \in DOMAIN nz} = {x \in Nonzeros : x[2] \in Numbers(at)}
          /\ \A k \in DOMAIN nz :
               CSCAddress(term.base, entry(k)) = term.base.colPtr[at.start] + k - 1

\* A GEMM that is told that its columns are aligned accesses aligned columns,
\* and the rows it adds for that are stored.
AlignedAccess ==
  phase = "Described" /\ descr.claim /\ AlignedOrigin =>
    /\ Within(descr.m, Held(matrix, 1))
    /\ \A j \in Numbers(descr.n), l \in Cells(descr.loops) :
         checkAlignment(LoopAddress(l) +
           (IF matrix.base.csc THEN matrix.base.colPtr[j + Shift(matrix, 2)]
            ELSE address(matrix, <<descr.m.start, j>>)))

\* Between them the clearing and the GEMM touch every real of the result and,
\* if it is a slice, none of the tensor around it.
ResultCovered ==
  phase = "Described" /\ ~ term.base.csc /\ SimpleSlices /\ SlicesKeepPlace
    /\ (descr.claim => AlignedOrigin)
    => Cleared \cup Written = Addresses

\* What GemmGen.generate asserts: the rows and the columns of the GEMM are in
\* the layout of its operand.
OperandInLayout ==
  phase = "Described" => BoxInLayout(matrix, <<descr.m, descr.n>>)
=============================================================================
