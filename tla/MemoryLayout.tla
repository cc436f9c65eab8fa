---------------------------- MODULE MemoryLayout ----------------------------
(***************************************************************************)
(* Memory layouts (memory.py).  A layout is the storage at its base and    *)
(* the views over it, the outermost last: a MemoryLayoutView passes every  *)
(* request on to its base.                                                 *)
(*                                                                         *)
(* Dimensions are numbered from 1; entries and addresses count from 0 as   *)
(* in the code.                                                            *)
(***************************************************************************)
EXTENDS Integers, Sequences, SequencesExt

CONSTANT AlignedReals  \* Architecture.alignedReals, the length of a vector

ASSUME AlignmentAssumption == AlignedReals \in Nat \ {0}

alignedLower(k)   == k - (k % AlignedReals)
alignedUpper(k)   == k + ((AlignedReals - (k % AlignedReals)) % AlignedReals)
checkAlignment(k) == k % AlignedReals = 0

-----------------------------------------------------------------------------
(* Range and BoundingBox (ast/indices.py) *)

Interval(a, b) == [start |-> a, stop |-> b]
size(r)        == r.stop - r.start
Numbers(r)     == r.start .. r.stop - 1
Within(r, s)   == s.start <= r.start /\ r.stop <= s.stop
aligned(r)     == Interval(alignedLower(r.start), alignedUpper(r.stop))
Shifted(r, k)  == Interval(r.start + k, r.stop + k)

BoxWithin(box, bbox) == \A d \in DOMAIN bbox : Within(box[d], bbox[d])

\* The entries of a box.
Cells(box) == {e \in [DOMAIN box -> UNION {Numbers(box[d]) : d \in DOMAIN box}] :
                 \A d \in DOMAIN box : e[d] \in Numbers(box[d])}

\* The product over S of the members of a sequence, and the distance between
\* two numbers of position p when the positions S are counted through together.
Times(s, S)    == FoldFunctionOnSet(LAMBDA a, b : a * b, 1, s, S)
Scale(s, S, p) == Times(s, {q \in S : q < p})

\* The number of x when its positions S are counted through together.
Number(s, S, x) == SumFunction([p \in S |-> Scale(s, S, p) * x[p]])

-----------------------------------------------------------------------------
(* DenseMemoryLayout *)

Strides(bbox) == [d \in DOMAIN bbox |-> Scale([q \in DOMAIN bbox |-> size(bbox[q])], DOMAIN bbox, d)]

WithStride(shape, bbox, stride) ==
  [csc |-> FALSE, shape |-> shape, bbox |-> bbox, stride |-> stride, range0 |-> <<>>]

\* Mistake: the strides are those of the shape.
DenseLayout_ShapeStrides(shape, bbox, alignStride) ==
  LET new == IF alignStride THEN [bbox EXCEPT ![1] = aligned(@)] ELSE bbox
  IN  [WithStride(shape, new, Strides([d \in DOMAIN shape |-> Interval(0, shape[d])])) EXCEPT
         !.range0 = IF alignStride THEN <<bbox[1]>> ELSE <<>>]

\* _alignBB keeps the range it replaces.
DenseLayout(shape, bbox, alignStride) ==
  LET new == IF alignStride THEN [bbox EXCEPT ![1] = aligned(@)] ELSE bbox
  IN  [WithStride(shape, new, Strides(new)) EXCEPT
         !.range0 = IF alignStride THEN <<bbox[1]>> ELSE <<>>]

DenseAddress(base, e) ==
  SumFunction([d \in DOMAIN base.bbox |-> (e[d] - base.bbox[d].start) * base.stride[d]])

requiredReals(base) ==
  IF base.csc THEN Len(base.rowIndex)
  ELSE size(Last(base.bbox)) * Last(base.stride)

\* Mistake: the padding of the first dimension moves with it.
permutedBase_Padded(base, p) ==
  DenseLayout([d \in DOMAIN p |-> base.shape[p[d]]],
              [d \in DOMAIN p |-> base.bbox[p[d]]], base.range0 # <<>>)

permutedBase(base, p) ==
  LET unaligned == IF base.range0 # <<>> THEN [base.bbox EXCEPT ![1] = base.range0[1]]
                   ELSE base.bbox
  IN  DenseLayout([d \in DOMAIN p |-> base.shape[p[d]]],
                  [d \in DOMAIN p |-> unaligned[p[d]]], base.range0 # <<>>)

\* _subShape, _subRange and _firstStride of the positions that are fused
subShape(base, S) == Times(base.shape, S)
subRange(base, S) ==
  Interval(Number(base.shape, S, [p \in S |-> base.bbox[p].start]),
           Number(base.shape, S, [p \in S |-> base.bbox[p].stop - 1]) + 1)
firstStride(base, S) == base.stride[Min(S)]

vec(base, S) ==
  WithStride(<<subShape(base, S)>>, <<subRange(base, S)>>, <<firstStride(base, S)>>)

withDummyDimension(base) ==
  WithStride(Append(base.shape, 1), Append(base.bbox, Interval(0, 1)),
             Append(base.stride, size(Last(base.bbox)) * Last(base.stride)))

\* S is the group of positions that starts first.
unfoldBase(base, S, T) ==
  WithStride(<<subShape(base, S), subShape(base, T)>>,
             <<subRange(base, S), subRange(base, T)>>,
             <<firstStride(base, S), firstStride(base, T)>>)

\* The digits of the first and of the last number of a fused range.
defuseBase(base, r, S) ==
  LET digit(k, p) ==
        IF p = Max(S) THEN k \div Scale(base.shape, S, p)
        ELSE (k \div Scale(base.shape, S, p)) % base.shape[p]
  IN  [p \in S |-> Interval(digit(r.start, p), digit(r.stop - 1, p) + 1)]

-----------------------------------------------------------------------------
(* CSCMemoryLayout, for a sparsity pattern of <<row, column>> pairs *)

BoundingBoxOf(spp) ==
  [d \in 1 .. 2 |-> Interval(Min({x[d] : x \in spp}), Max({x[d] : x \in spp}) + 1)]

\* Every nonzero becomes the block of the vector it lies in.
Blocks(spp) ==
  UNION {{<<r, x[2]>> : r \in alignedLower(x[1]) .. alignedLower(x[1]) + AlignedReals - 1} :
           x \in spp}
StoredOf(spp, alignStride) == IF alignStride THEN Blocks(spp) ELSE spp

\* Mistake: the empty columns before a new column are passed over.
ColPointer_SkipsEmpty(nonzeros, columns) ==
  LET step(c, k) == [c EXCEPT !.ptr[nonzeros[k][2]] =
                       IF c.last = nonzeros[k][2] THEN @ ELSE k - 1,
                     !.last = nonzeros[k][2]]
      end == FoldLeftDomain(step, [ptr |-> [j \in 0 .. columns |-> 0], last |-> 0], nonzeros)
  IN  [j \in 0 .. columns |-> IF j > end.last THEN Len(nonzeros) ELSE end.ptr[j]]

\* The loop over the sorted nonzeros: when it comes to a new column, the
\* columns since the last one start here.
ColPointer(nonzeros, columns) ==
  LET step(c, k) ==
        [ptr  |-> [j \in DOMAIN c.ptr |->
                     IF c.last < j /\ j <= nonzeros[k][2] THEN k - 1 ELSE c.ptr[j]],
         last |-> nonzeros[k][2]]
      end == FoldLeftDomain(step, [ptr |-> [j \in 0 .. columns |-> 0], last |-> 0], nonzeros)
  IN  [j \in 0 .. columns |-> IF j > end.last THEN Len(nonzeros) ELSE end.ptr[j]]

CSCLayout(shape, spp, alignStride) ==
  LET box      == BoundingBoxOf(spp)
      stored   == StoredOf(spp, alignStride)
      before(x) == {y \in stored : y[2] < x[2] \/ (y[2] = x[2] /\ y[1] < x[1])}
      nonzeros == [k \in 1 .. Cardinality(stored) |->
                     CHOOSE x \in stored : Cardinality(before(x)) = k - 1]
  IN  [csc |-> TRUE, shape |-> shape, spp |-> spp, aligned |-> alignStride,
       bbox     |-> IF alignStride THEN [box EXCEPT ![1] = aligned(@)] ELSE box,
       rowIndex |-> [k \in DOMAIN nonzeros |-> nonzeros[k][1]],
       colPtr   |-> ColPointer(nonzeros, shape[2])]

\* The places of rowIndex that belong to a column.
Column(base, c) == base.colPtr[c] + 1 .. base.colPtr[c + 1]
CSCAddress(base, e) == (CHOOSE k \in Column(base, e[2]) : base.rowIndex[k] = e[1]) - 1

cscEntries(base, rows, cols) ==
  LET from == base.colPtr[cols.start]
      col(k) == CHOOSE c \in Numbers(cols) : k \in Column(base, c)
  IN  [k \in 1 .. base.colPtr[cols.stop] - from |->
         <<base.rowIndex[from + k] - rows.start, col(from + k) - cols.start>>]

-----------------------------------------------------------------------------
(* Layouts: a base and the MemoryLayoutViews over it *)

Layout(base) == [base |-> base, views |-> <<>>]
View(index, start, stop) == [index |-> index, start |-> start, stop |-> stop]

subslice(lay, index, start, stop) ==
  [lay EXCEPT !.views = Append(@, View(index, start, stop))]

Views(lay) == {lay.views[k] : k \in DOMAIN lay.views}
Viewed(lay) == {v.index : v \in Views(lay)}

shapeOf(lay) ==
  FoldLeft(LAMBDA s, v : [s EXCEPT ![v.index] = v.stop - v.start], lay.base.shape, lay.views)

\* The distance that the views move a dimension by.
Shift(lay, d) ==
  SumFunction([k \in DOMAIN lay.views |-> IF lay.views[k].index = d THEN lay.views[k].start ELSE 0])

relidx(lay, e)  == [d \in DOMAIN e |-> e[d] + Shift(lay, d)]
address(lay, e) == IF lay.base.csc THEN CSCAddress(lay.base, relidx(lay, e))
                   ELSE DenseAddress(lay.base, relidx(lay, e))

\* One view clips the box that it moves; boxes pass from the outermost view in.
relbox(v, box) ==
  [box EXCEPT ![v.index] = Interval(Max({@.start + v.start, v.start}),
                                    Min({@.stop + v.start, v.stop}))]
relboxes(views, box) == FoldRight(LAMBDA v, b : relbox(v, b), views, box)

BoxInLayout(lay, box) == BoxWithin(relboxes(lay.views, box), lay.base.bbox)

\* MemoryLayoutView.bbox: the box of the base, moved by every view.
bboxOf(lay) == FoldLeft(LAMBDA b, v : relbox(v, b), lay.base.bbox, lay.views)

\* Mistake: the size of a slice does not count.
alignedStride_IgnoresSlices(lay) ==
  IF lay.base.csc THEN lay.base.aligned
  ELSE /\ lay.base.stride[1] = 1
       /\ Len(lay.base.stride) > 1 => checkAlignment(lay.base.stride[2])
       /\ checkAlignment(size(lay.base.bbox[1]))

alignedStride(lay) ==
  /\ IF lay.base.csc THEN lay.base.aligned
     ELSE /\ lay.base.stride[1] = 1
          /\ Len(lay.base.stride) > 1 => checkAlignment(lay.base.stride[2])
          /\ checkAlignment(size(lay.base.bbox[1]))
  /\ \A v \in Views(lay) : v.index = 1 => checkAlignment(v.stop - v.start)

mayFuse(lay, S) ==
  /\ IF lay.base.csc THEN Cardinality(S) = 1
     ELSE \A q \in S, p \in S :
            (p < q /\ \A x \in S : x <= p \/ q <= x)
              => lay.base.stride[q] = lay.base.shape[p] * lay.base.stride[p]
  /\ \A v \in Views(lay) : v.index \in S => v.index = Max(S)

\* DenseMemoryLayout.fromSpp: with an offset the layout is a view of a layout
\* that is as much longer.
fromSpp(shape, bbox, alignStride, alignOffset) ==
  IF alignStride /\ alignOffset > 0
  THEN LET long == [shape EXCEPT ![1] = @ + alignOffset]
       IN  subslice(Layout(DenseLayout(long, [bbox EXCEPT ![1] = Shifted(@, alignOffset)], TRUE)),
                    1, alignOffset, long[1])
  ELSE Layout(DenseLayout(shape, bbox, alignStride))

\* A view over dimension d becomes one over dimension p[d].
permuted(lay, p) ==
  [base  |-> permutedBase(lay.base, p),
   views |-> [k \in DOMAIN lay.views |-> [lay.views[k] EXCEPT !.index = p[@]]]]

\* Mistake: the bounds of a slice are not scaled.
unfold_NoScale(lay, I, J) ==
  LET S == IF Min(I) < Min(J) THEN I ELSE J
      T == IF Min(I) < Min(J) THEN J ELSE I
      over(views, v) == IF v.index \in I \cup J
                        THEN Append(views, View(IF v.index \in I THEN 1 ELSE 2, v.start, v.stop))
                        ELSE views
  IN  [base |-> unfoldBase(lay.base, S, T), views |-> FoldLeft(over, <<>>, lay.views)]

\* A view whose dimension is fused becomes a view of the fused dimension; the
\* others are passed over.  Which of the two dimensions it is depends on the
\* name of the group, not on its place.
unfoldView(base, I, J, v) ==
  LET scale == Scale(base.shape, IF v.index \in I THEN I ELSE J, v.index)
  IN  View(IF v.index \in I THEN 1 ELSE 2, v.start * scale, v.stop * scale)

unfold(lay, I, J) ==
  LET S == IF Min(I) < Min(J) THEN I ELSE J
      T == IF Min(I) < Min(J) THEN J ELSE I
      over(views, v) ==
        IF v.index \in I \cup J THEN Append(views, unfoldView(lay.base, I, J, v)) ELSE views
  IN  [base |-> unfoldBase(lay.base, S, T), views |-> FoldLeft(over, <<>>, lay.views)]

\* The outside of a view is what its own box leaves of the base.
notWrittenBase(base, box) == {DenseAddress(base, e) : e \in Cells(base.bbox) \ Cells(box)}

\* Mistake: the outside of the view is cleared, too.
notWritten_Outside(lay, box) == notWrittenBase(lay.base, relboxes(lay.views, box))

notWritten(lay, box) ==
  LET inner(k)   == SubSeq(lay.views, 1, k)
      outside(k) == notWrittenBase(lay.base,
                      relboxes(inner(k - 1), bboxOf([lay EXCEPT !.views = inner(k)])))
  IN  notWrittenBase(lay.base, relboxes(lay.views, box))
        \ UNION {outside(k) : k \in DOMAIN lay.views}

\* Every view over a fused position puts its own share in place of the range.
defuse(lay, r, S) ==
  LET share(v, q) ==
        LET slice == size(q) \div (v.stop - v.start)
        IN  IF v.index \in S THEN Interval(slice * v.start, slice * v.stop) ELSE q
  IN  defuseBase(lay.base, FoldRight(share, lay.views, r), S)
=============================================================================
