----------------------------- MODULE GemmProofs -----------------------------
(***************************************************************************)
(* Proofs about the GEMM (Gemm): a call computes the product, for matrices *)
(* of any size, with any pattern and layout, transposed or not, and        *)
(* vectors of any length.                                                  *)
(***************************************************************************)
EXTENDS Gemm, TermLayoutProofs

\* A call leaves the layouts alone.
LEMMA GemmStep == [GNext]_gvars => [TNext]_vars
<1>1. ASSUME NEW r \in Rights, NEW whole \in BOOLEAN, NEW alignC \in BOOLEAN, NEW arch \in Archs,
             NEW alpha \in Scales, NEW beta \in {"0", "1"}, Multiply(r, whole, alignC, arch, alpha, beta)
      PROVE  UNCHANGED vars
  BY <1>1 DEF Multiply
<1>2. GNext => TNext \/ UNCHANGED vars
  BY <1>1 DEF GNext
<1>3. UNCHANGED gvars => UNCHANGED vars
  BY DEF gvars
<1> QED BY <1>2, <1>3

\* A GEMM reads the matrix and leaves the term as it is (Gemm, LoopOverGEMM), so
\* that all this holds in every session of Gemm.
THEOREM GemmKeepsLayouts == GSpec => TSpec
<1>1. GInit => TInit
  BY DEF GInit
<1>2. [GNext]_gvars => [TNext]_vars
  BY GemmStep
<1> QED BY <1>1, <1>2, PTL DEF GSpec, TSpec

-----------------------------------------------------------------------------
(* The call, and what it was made of *)

LeftOk(base) == Len(base.shape) = 2 /\ ((DenseBase(base) /\ StorageFits(base)) \/ CscBase(base))

\* The call that Multiply makes of a left operand.
Made(g, base, r, transA, whole, alignC) ==
  LET sppA   == {Turned(e, transA) : e \in PatternOf(base)}
      sppB   == {Turned(e, r.trans) : e \in r.spp}
      eqspp  == Meeting(sppA, sppB)
      shapeC == <<Turned(base.shape, transA)[1], Turned(r.shape, r.trans)[2]>>
      boxC   == IF whole THEN [i \in 1 .. 2 |-> Interval(0, shapeC[i])] ELSE BoundingBoxOf(eqspp.C)
      d      == Description(Layout(base), transA, RightLayout(r), r.trans,
                            Layout(DenseLayout(shapeC, boxC, alignC)), eqspp)
  IN  /\ eqspp.C # {}
      /\ g.descr = d /\ g.sppA = sppA /\ g.sppB = sppB
      /\ ~ g.raised => ~ Raises(d)

CallOk(g) ==
  \E base : \E r \in Rights, transA \in BOOLEAN, whole \in BOOLEAN, alignC \in BOOLEAN :
    LeftOk(base) /\ Made(g, base, r, transA, whole, alignC)
CallInv == \A g \in gemm : CallOk(g)

LEMMA CallNext == TermInv /\ FitsInv /\ CallInv /\ [GNext]_gvars => CallInv'
<1> SUFFICES ASSUME TermInv, FitsInv, CallInv, [GNext]_gvars PROVE CallInv'
  OBVIOUS
<1>1. CASE UNCHANGED gemm
  BY <1>1 DEF CallInv
<1>2. ASSUME NEW r \in Rights, NEW whole \in BOOLEAN, NEW alignC \in BOOLEAN, NEW arch \in Archs,
             NEW alpha \in Scales, NEW beta \in {"0", "1"}, Multiply(r, whole, alignC, arch, alpha, beta)
      PROVE  CallInv'
  <2> DEFINE transA == groups[1] = {2}
             sppA   == {Turned(e, transA) : e \in PatternOf(term.base)}
             sppB   == {Turned(e, r.trans) : e \in r.spp}
             eqspp  == Meeting(sppA, sppB)
             shapeC == <<Turned(term.base.shape, transA)[1], Turned(r.shape, r.trans)[2]>>
             boxC   == IF whole THEN [i \in 1 .. 2 |-> Interval(0, shapeC[i])] ELSE BoundingBoxOf(eqspp.C)
             dd     == Description(term, transA, RightLayout(r), r.trans,
                                   Layout(DenseLayout(shapeC, boxC, alignC)), eqspp)
             tool   == toolFor(arch, dd, alpha, beta)
             call   == [descr |-> dd, tool |-> tool, beta |-> beta, sppA |-> sppA, sppB |-> sppB,
                        raised |-> Raises(dd) \/ (tool # {} /\ ToolRaises(dd))]
  <2>1. /\ IsLeft /\ eqspp.C # {} /\ gemm' = {call}
    BY <1>2 DEF Multiply
  <2>2. term = Layout(term.base) /\ LeftOk(term.base)
    <3>1. term = [base |-> term.base, views |-> term.views] /\ term.views = <<>>
      BY <2>1 DEF IsLeft, TermInv, LayoutOk
    <3>2. Len(term.base.shape) = 2 /\ (DenseBase(term.base) \/ CscBase(term.base))
      BY <2>1 DEF IsLeft, TermInv, LayoutOk
    <3>3. DenseBase(term.base) => StorageFits(term.base)
      BY DEF FitsInv, DenseBase
    <3> QED BY <3>1, <3>2, <3>3 DEF Layout, LeftOk
  <2>3. transA \in BOOLEAN
    OBVIOUS
  <2>4. dd = Description(Layout(term.base), transA, RightLayout(r), r.trans,
                         Layout(DenseLayout(shapeC, boxC, alignC)), eqspp)
    BY <2>2
  <2>5. /\ call.descr = dd /\ call.sppA = sppA /\ call.sppB = sppB
        /\ ~ call.raised => ~ Raises(dd)
    <3> HIDE DEF dd, sppA, sppB, tool
    <3> QED OBVIOUS
  <2>6. Made(call, term.base, r, transA, whole, alignC)
    <3> HIDE DEF call, dd
    <3> QED BY <2>1, <2>4, <2>5 DEF Made
  <2>7. CallOk(call)
    <3> HIDE DEF call, transA
    <3> QED BY <2>2, <2>3, <2>6 DEF CallOk
  <2> HIDE DEF call
  <2> QED BY <2>1, <2>7 DEF CallInv
<1>3. GNext => UNCHANGED gemm \/ CallInv'
  BY <1>2 DEF GNext
<1> QED BY <1>1, <1>3 DEF gvars

\* A sum is that of the addends that are not zero, under other names.
LEMMA SumRenamed ==
  ASSUME NEW S, IsFiniteSet(S), NEW s, Naturals(S, s), NEW T, IsFiniteSet(T), NEW t, Naturals(T, t),
         NEW f \in [T -> S], \A x, y \in T : f[x] = f[y] => x = y, \A x \in T : s[f[x]] = t[x],
         \A z \in S : s[z] # 0 => \E x \in T : f[x] = z
  PROVE  SumFunction(Part(s, S)) = SumFunction(Part(t, T))
<1> DEFINE Img(U) == {f[x] : x \in U}
           P == {U \in SUBSET T : SumFunction(Part(s, Img(U))) = SumFunction(Part(t, U))}
<1>1. {} \in P
  <2>1. Img({}) = {} /\ {} \in SUBSET S /\ {} \in SUBSET T
    OBVIOUS
  <2>2. SumFunction(Part(s, {})) = 0 /\ SumFunction(Part(t, {})) = 0
    BY <2>1, PartStep
  <2> QED BY <2>1, <2>2
<1>2. ASSUME NEW U \in SUBSET T, U # {}, \A x \in U : U \ {x} \in P PROVE U \in P
  <2>1. PICK x \in U : TRUE
    BY <1>2
  <2> DEFINE V == Img(U)
  <2>2. V \in SUBSET S /\ f[x] \in V /\ V \ {f[x]} = Img(U \ {x})
    BY <2>1
  <2>3. SumFunction(Part(t, U)) = t[x] + SumFunction(Part(t, U \ {x}))
    BY <2>1, PartStep
  <2>4. SumFunction(Part(s, V)) = s[f[x]] + SumFunction(Part(s, V \ {f[x]}))
    <3> DEFINE z == f[x]
    <3>1. z \in V
      BY <2>2
    <3> HIDE DEF V, z
    <3>2. SumFunction(Part(s, V)) = s[z] + SumFunction(Part(s, V \ {z}))
      BY <2>2, <3>1, PartStep
    <3> QED BY <3>2 DEF z
  <2>5. SumFunction(Part(s, Img(U \ {x}))) = SumFunction(Part(t, U \ {x}))
    BY <1>2, <2>1
  <2>6. s[f[x]] = t[x]
    BY <2>1
  <2> QED BY <2>2, <2>3, <2>4, <2>5, <2>6
<1> DEFINE Q == Img(T)
<1>3. SumFunction(Part(s, Q)) = SumFunction(Part(t, T))
  <2> HIDE DEF P
  <2>1. T \in P
    BY <1>1, <1>2, FiniteSetInduction
  <2> QED BY <2>1 DEF P
<1>4. Q \in SUBSET S /\ \A z \in S \ Q : s[z] = 0
  OBVIOUS
<1> HIDE DEF P, Img, Q
<1> DEFINE R == S \ Q
<1>5. IsFiniteSet(R) /\ R \in SUBSET S
  BY FS_Subset
<1>6. SumFunction(Part(s, R)) = 0
  <2>1. Naturals(R, s) /\ \A z \in R : s[z] = 0
    BY <1>4, <1>5 DEF Naturals
  <2> HIDE DEF R
  <2> QED BY <1>5, <2>1, ZeroSum
<1>7. SumFunction(Part(s, S)) = SumFunction(Part(s, Q)) + SumFunction(Part(s, R))
  BY <1>4, SumSplits
<1>8. SumFunction(Part(s, Q)) \in Nat
  BY <1>4, PartStep
<1> HIDE DEF R
<1> QED BY <1>3, <1>6, <1>7, <1>8

\* The places of cscEntries are those of the nonzeros of the columns, in order.
LEMMA CscReads ==
  ASSUME NEW b, CscBase(b), NEW rows, rows.start \in Nat, NEW at,
         at.start \in 0 .. b.shape[2], at.stop \in 0 .. b.shape[2], at.start < at.stop
  PROVE  LET nz   == cscEntries(b, rows, at)
             from == b.colPtr[at.start]
             all  == Entries(b)
             n    == Cardinality(Stored(b))
         IN  /\ IsFiniteSet(DOMAIN nz) /\ Placed(b, all, n) /\ from \in Nat
             /\ \A k \in DOMAIN nz :
                  /\ k \in Nat /\ from + k \in 1 .. n
                  /\ nz[k] = <<all[from + k][1] - rows.start, all[from + k][2] - at.start>>
             /\ \A x \in Stored(b) : x[2] \in Numbers(at) => \E k \in DOMAIN nz : all[from + k] = x
<1> DEFINE nz == cscEntries(b, rows, at)
           all == Entries(b)
           n == Cardinality(Stored(b))
           m == b.shape[2]
           from == b.colPtr[at.start]
           to == b.colPtr[at.stop]
<1>1. Placed(b, all, n)
  BY CscPlaced
<1>2. at.start \in 0 .. m /\ at.stop \in 0 .. m /\ at.start < at.stop
  OBVIOUS
<1>3. DOMAIN nz = 1 .. to - from
      /\ \A k \in 1 .. to - from :
           nz[k] = <<b.rowIndex[from + k] - rows.start,
                     (CHOOSE c \in Numbers(at) : from + k \in Column(b, c)) - at.start>>
  BY DEF cscEntries
<1> HIDE DEF nz, all, n, m, from, to
<1>4. /\ from \in 0 .. n /\ to \in 0 .. n /\ n \in Nat /\ m \in Nat
      /\ \A l \in 1 .. n : /\ l <= from <=> all[l][2] < at.start
                           /\ l <= to <=> all[l][2] < at.stop
  BY <1>1, <1>2 DEF Placed, Listed, m, from, to
<1>5. \A l \in 1 .. n : all[l] \in Nat \X Nat /\ all[l] \in Stored(b) /\ all[l][2] \in 0 .. m - 1
  BY <1>1 DEF Placed, Listed, Pairs, m
<1>6. ASSUME NEW k \in DOMAIN nz
      PROVE  /\ k \in Nat /\ from + k \in 1 .. n
             /\ nz[k] = <<all[from + k][1] - rows.start, all[from + k][2] - at.start>>
  <2> DEFINE l == from + k
  <2>1. k \in 1 .. to - from
    BY <1>3
  <2>2. l \in 1 .. n /\ ~ l <= from /\ l <= to /\ k \in Nat
    BY <1>4, <2>1
  <2>3. ~ all[l][2] < at.start /\ all[l][2] < at.stop
    BY <1>4, <2>2
  <2> HIDE DEF l
  <2>4. all[l][2] \in Nat /\ at.start \in Nat /\ at.stop \in Nat
    BY <1>2, <1>4, <1>5, <2>2
  <2>5. all[l][2] \in Numbers(at)
    BY <2>3, <2>4 DEF Numbers
  <2>6. ASSUME NEW c \in Numbers(at) PROVE l \in Column(b, c) <=> c = all[l][2]
    <3>1. c \in 0 .. b.shape[2] - 1
      BY <1>2, <1>4, <2>4 DEF Numbers, m
    <3>2. l \in Column(b, c) <=> l \in 1 .. n /\ all[l][2] = c
      BY <1>1, <3>1, ColumnPlaces
    <3> QED BY <2>2, <3>2
  <2>7. (CHOOSE c \in Numbers(at) : l \in Column(b, c)) = all[l][2]
    BY <2>5, <2>6
  <2>8. b.rowIndex[l] = all[l][1]
    BY <1>1, <2>2 DEF Placed
  <2> QED BY <1>3, <2>1, <2>2, <2>7, <2>8 DEF l
<1>7. ASSUME NEW x \in Stored(b), x[2] \in Numbers(at) PROVE \E k \in DOMAIN nz : all[from + k] = x
  <2>1. PICK l \in 1 .. n : all[l] = x
    BY <1>1 DEF Placed, Listed
  <2>2. ~ all[l][2] < at.start /\ all[l][2] < at.stop
    BY <1>2, <1>4, <1>5, <1>7, <2>1 DEF Numbers
  <2>3. ~ l <= from /\ l <= to
    BY <1>4, <2>2
  <2>4. l - from \in 1 .. to - from /\ from + (l - from) = l
    BY <1>4, <2>3
  <2> QED BY <1>3, <2>1, <2>4
<1>8. IsFiniteSet(DOMAIN nz)
  <2>1. IsFiniteSet(1 .. to - from)
    BY <1>4, FS_Interval
  <2> QED BY <1>3, <2>1
<1>9. from \in Nat
  BY <1>4
<1> QED BY <1>1, <1>6, <1>7, <1>8, <1>9 DEF nz, all, n, from

\* The addresses of a base without views.
LEMMA PlainEntry ==
  ASSUME NEW b, NEW e \in Int \X Int
  PROVE  relidx(Layout(b), e) = e
<1>1. Layout(b).views = <<>>
  BY DEF Layout
<1>2. \A d : Shift(Layout(b), d) = 0
  <2> TAKE d
  <2>1. Shift(Layout(b), d) = Moved(<<>>, d)
    BY <1>1 DEF Shift, Moved
  <2> QED BY <2>1, NothingMoved
<1>3. e = [d \in DOMAIN e |-> e[d]] /\ DOMAIN e = 1 .. 2 /\ e[1] \in Int /\ e[2] \in Int
  OBVIOUS
<1>4. \A d \in DOMAIN e : e[d] + Shift(Layout(b), d) = e[d]
  BY <1>2, <1>3
<1>5. relidx(Layout(b), e) = [d \in DOMAIN e |-> e[d]]
  BY <1>4 DEF relidx
<1> QED BY <1>3, <1>5

\* A matrix of which the rows are those of two ranges.
Matrix2(b) == DenseBase(b) /\ Len(b.shape) = 2
InMatrix(b, e) == e \in Int \X Int /\ e[1] \in Numbers(b.bbox[1]) /\ e[2] \in Numbers(b.bbox[2])

LEMMA MatrixNumbers ==
  ASSUME NEW b, Matrix2(b)
  PROVE  /\ b.csc = FALSE /\ IsPair(b) /\ IsRange(b.bbox[1]) /\ IsRange(b.bbox[2])
         /\ b.bbox = [d \in 1 .. 2 |-> b.bbox[d]] /\ DOMAIN b.bbox = 1 .. 2
         /\ b.stride[1] \in Nat /\ b.stride[2] \in Nat
<1>1. IsPair(b)
  BY DensePair DEF Matrix2
<1>2. IsBox(b.bbox, 2) /\ b.csc = FALSE
  BY DEF Matrix2, DenseBase
<1>3. 1 \in 1 .. 2 /\ 2 \in 1 .. 2
  OBVIOUS
<1>4. IsRange(b.bbox[1]) /\ IsRange(b.bbox[2]) /\ b.bbox = [d \in 1 .. 2 |-> b.bbox[d]]
  BY <1>2, <1>3 DEF IsBox
<1>5. DOMAIN b.bbox = 1 .. 2
  BY <1>4
<1> QED BY <1>1, <1>2, <1>4, <1>5 DEF IsPair

LEMMA PlainDense ==
  ASSUME NEW b, Matrix2(b), NEW p, NEW q, InMatrix(b, <<p, q>>)
  PROVE  /\ address(Layout(b), <<p, q>>)
              = (p - b.bbox[1].start) * b.stride[1] + (q - b.bbox[2].start) * b.stride[2]
         /\ p - b.bbox[1].start \in Nat /\ q - b.bbox[2].start \in Nat
<1> DEFINE r1 == b.bbox[1]
           r2 == b.bbox[2]
           s1 == b.stride[1]
           s2 == b.stride[2]
           z == 0
<1>1. PairBase(Layout(b).base, r1, r2, s1, s2) /\ s1 \in Nat /\ s2 \in Nat
  BY MatrixNumbers DEF IsPair, Layout
<1>2. MovedBy(Layout(b).views, z, z)
  BY NothingMoved DEF MovedBy, Layout
<1>3. IsRange(r1) /\ IsRange(r2) /\ p \in Int /\ q \in Int /\ p \in Numbers(r1) /\ q \in Numbers(r2)
  BY MatrixNumbers DEF InMatrix
<1> HIDE DEF r1, r2, s1, s2
<1>4. p - r1.start \in Nat /\ q - r2.start \in Nat /\ r1.start \in Nat /\ r2.start \in Nat
  BY <1>3 DEF IsRange, Numbers
<1>5. Offset(p, z, r1, s1) = (p - r1.start) * s1 /\ Offset(q, z, r2, s2) = (q - r2.start) * s2
  <2>1. (p + z) - r1.start = p - r1.start /\ (q + z) - r2.start = q - r2.start
    BY <1>3, <1>4
  <2> HIDE DEF z
  <2> QED BY <2>1 DEF Offset
<1>6. Offset(p, z, r1, s1) \in Nat /\ Offset(q, z, r2, s2) \in Nat
  <2> DEFINE u == p - r1.start
             v == q - r2.start
  <2>1. u \in Nat /\ v \in Nat
    BY <1>4
  <2> HIDE DEF u, v
  <2>2. u * s1 \in Nat /\ v * s2 \in Nat
    BY <1>1, <2>1
  <2> QED BY <1>5, <2>2 DEF u, v
<1> HIDE DEF z
<1>7. address(Layout(b), <<p, q>>) = Offset(p, z, r1, s1) + Offset(q, z, r2, s2)
  BY <1>1, <1>2, <1>6, PairAddress
<1> QED BY <1>4, <1>5, <1>7 DEF r1, r2, s1, s2

\* The address of an entry, from that of another one above and left of it.
LEMMA PlainMoved ==
  ASSUME NEW b, Matrix2(b), NEW p, NEW q, InMatrix(b, <<p, q>>),
         NEW i \in Nat, NEW j \in Nat, InMatrix(b, <<p + i, q + j>>)
  PROVE  address(Layout(b), <<p + i, q + j>>)
           = address(Layout(b), <<p, q>>) + i * b.stride[1] + j * b.stride[2]
<1> DEFINE s1 == b.stride[1]
           s2 == b.stride[2]
           u == p - b.bbox[1].start
           v == q - b.bbox[2].start
           pi == p + i
           qj == q + j
           x == pi - b.bbox[1].start
           y == qj - b.bbox[2].start
<1>1. s1 \in Nat /\ s2 \in Nat
  BY MatrixNumbers
<1>2. address(Layout(b), <<p, q>>) = u * s1 + v * s2 /\ u \in Nat /\ v \in Nat
  BY PlainDense
<1>3. address(Layout(b), <<pi, qj>>) = x * s1 + y * s2 /\ x \in Nat /\ y \in Nat
  <2>1. InMatrix(b, <<pi, qj>>)
    OBVIOUS
  <2> HIDE DEF pi, qj
  <2> QED BY <2>1, PlainDense
<1>4. x = u + i /\ y = v + j
  <2>1. p \in Int /\ q \in Int
    BY DEF InMatrix
  <2>2. b.bbox[1].start \in Nat /\ b.bbox[2].start \in Nat
    BY MatrixNumbers DEF IsRange
  <2> QED BY <2>1, <2>2
<1> HIDE DEF s1, s2, u, v, x, y
<1>5. (u + i) * s1 = u * s1 + i * s1 /\ (v + j) * s2 = v * s2 + j * s2
  BY <1>1, <1>2
<1>6. u * s1 \in Nat /\ v * s2 \in Nat /\ i * s1 \in Nat /\ j * s2 \in Nat
  BY <1>1, <1>2
<1>7. x * s1 + y * s2 = (u * s1 + v * s2) + i * s1 + j * s2
  BY <1>4, <1>5, <1>6
<1> QED BY <1>2, <1>3, <1>7 DEF s1, s2, pi, qj

LEMMA PlainApart ==
  ASSUME NEW b, Matrix2(b), NEW e, InMatrix(b, e), NEW f, InMatrix(b, f),
         address(Layout(b), e) = address(Layout(b), f)
  PROVE  e = f
<1>1. \A d \in 1 .. 2 : e[d] \in Numbers(b.bbox[d]) /\ f[d] \in Numbers(b.bbox[d])
  BY DEF InMatrix
<1>2. InBox(b, e) /\ InBox(b, f) /\ DenseBase(b)
  BY <1>1 DEF InBox, Matrix2
<1>3. relidx(Layout(b), e) = e /\ relidx(Layout(b), f) = f
  BY PlainEntry DEF InMatrix
<1>4. Layout(b).base = b /\ b.csc = FALSE
  BY MatrixNumbers DEF Layout
<1>5. DenseAddress(b, e) = DenseAddress(b, f)
  BY <1>3, <1>4 DEF address
<1>6. \A d \in 1 .. Len(b.shape) : e[d] = f[d]
  <2>1. DenseAddress(b, e) = DenseAddress(b, f) => \A d \in 1 .. Len(b.shape) : e[d] = f[d]
    BY <1>2, DenseApart
  <2> QED BY <1>5, <2>1
<1>7. e[1] = f[1] /\ e[2] = f[2]
  BY <1>6 DEF Matrix2
<1> QED BY <1>7 DEF InMatrix

\* What a call reads of an operand, by the rows and columns of the operand.
ReadsOf(b, rows, cols) ==
  LET o  == offset(Layout(b), <<rows.start, cols.start>>)
      nz == cscEntries(b, rows, cols)
  IN  IF b.csc THEN {[at |-> o + i - 1, e |-> nz[i]] : i \in DOMAIN nz}
      ELSE {[at |-> o + e[1] * b.stride[1] + e[2] * b.stride[2], e |-> e] :
              e \in (0 .. size(rows) - 1) \X (0 .. size(cols) - 1)}

Readable(b, spp, rows, cols) ==
  /\ IsRange(rows) /\ IsRange(cols)
  /\ \/ /\ Matrix2(b) /\ Within(rows, b.bbox[1]) /\ Within(cols, b.bbox[2])
        /\ \A y \in spp : InMatrix(b, y)
     \/ /\ CscBase(b) /\ spp \subseteq Stored(b)
        /\ cols.start \in 0 .. b.shape[2] /\ cols.stop \in 0 .. b.shape[2]

\* The read of an entry: where it is, and its place in the box.
IsReadOf(u, b, rows, cols, y) ==
  /\ u.at = address(Layout(b), y)
  /\ u.e[1] = y[1] - rows.start /\ u.e[2] = y[2] - cols.start

\* Every nonzero of the box is read, no nonzero is read as another, and each has
\* a real of its own.
ReadsRight(R, b, spp, rows, cols) ==
  /\ IsFiniteSet(R)
  /\ spp \subseteq Nat \X Nat
  /\ \A y \in spp : y[1] \in Numbers(rows) /\ y[2] \in Numbers(cols)
                      => \E u \in R : IsReadOf(u, b, rows, cols, y)
  /\ \A u \in R, y \in spp : u.at = address(Layout(b), y) => IsReadOf(u, b, rows, cols, y)
  /\ \A y, z \in spp : address(Layout(b), y) = address(Layout(b), z) => y = z

LEMMA FiniteImage ==
  ASSUME NEW S, IsFiniteSet(S), NEW f
  PROVE  IsFiniteSet({f[x] : x \in S})
<1> DEFINE T == {f[x] : x \in S}
           g == [x \in S |-> f[x]]
<1>1. g \in Surjection(S, T)
  BY DEF Surjection
<1> HIDE DEF T, g
<1>2. IsFiniteSet(T)
  BY <1>1, FS_Surjection
<1> QED BY <1>2 DEF T

LEMMA DenseReads ==
  ASSUME NEW b, NEW spp, NEW rows, NEW cols, IsRange(rows), IsRange(cols), Matrix2(b),
         Within(rows, b.bbox[1]), Within(cols, b.bbox[2]), \A y \in spp : InMatrix(b, y)
  PROVE  ReadsRight(ReadsOf(b, rows, cols), b, spp, rows, cols)
<1> DEFINE o == offset(Layout(b), <<rows.start, cols.start>>)
           pairs == (0 .. size(rows) - 1) \X (0 .. size(cols) - 1)
           read(e) == [at |-> o + e[1] * b.stride[1] + e[2] * b.stride[2], e |-> e]
           R == ReadsOf(b, rows, cols)
           p == rows.start
           q == cols.start
<1>1. b.csc = FALSE /\ IsRange(b.bbox[1]) /\ IsRange(b.bbox[2])
  BY MatrixNumbers
<1>2. R = {read(e) : e \in pairs}
  BY <1>1 DEF ReadsOf
<1>3. p \in Nat /\ q \in Nat /\ rows.stop \in Nat /\ cols.stop \in Nat /\ p < rows.stop /\ q < cols.stop
  BY DEF IsRange
<1>4. /\ b.bbox[1].start \in Nat /\ b.bbox[1].stop \in Nat /\ b.bbox[2].start \in Nat /\ b.bbox[2].stop \in Nat
      /\ b.bbox[1].start <= p /\ rows.stop <= b.bbox[1].stop
      /\ b.bbox[2].start <= q /\ cols.stop <= b.bbox[2].stop
  BY <1>1 DEF IsRange, Within
<1>5. \A i \in 0 .. size(rows) - 1 : p + i \in Numbers(b.bbox[1]) /\ i \in Nat
  BY <1>3, <1>4 DEF Numbers, size
<1>6. \A j \in 0 .. size(cols) - 1 : q + j \in Numbers(b.bbox[2]) /\ j \in Nat
  BY <1>3, <1>4 DEF Numbers, size
<1>7. InMatrix(b, <<p, q>>)
  BY <1>3, <1>4 DEF InMatrix, Numbers
<1>8. o = address(Layout(b), <<p, q>>)
  BY <1>1 DEF offset, Layout
<1> HIDE DEF o, R, p, q
<1>9. ASSUME NEW i \in 0 .. size(rows) - 1, NEW j \in 0 .. size(cols) - 1
      PROVE  /\ InMatrix(b, <<p + i, q + j>>)
             /\ read(<<i, j>>).at = address(Layout(b), <<p + i, q + j>>)
             /\ read(<<i, j>>).e[1] = i /\ read(<<i, j>>).e[2] = j /\ <<i, j>> \in pairs
  <2>1. InMatrix(b, <<p + i, q + j>>)
    BY <1>3, <1>5, <1>6 DEF InMatrix
  <2>2. i \in Nat /\ j \in Nat
    BY <1>5, <1>6
  <2>3. address(Layout(b), <<p + i, q + j>>)
           = address(Layout(b), <<p, q>>) + i * b.stride[1] + j * b.stride[2]
    BY <1>7, <2>1, <2>2, PlainMoved
  <2> QED BY <1>8, <2>1, <2>3
<1>10. \A y \in spp : /\ y \in Nat \X Nat /\ y = <<y[1], y[2]>> /\ InMatrix(b, y)
                      /\ y[1] \in Nat /\ y[2] \in Nat
  <2> TAKE y \in spp
  <2>1. InMatrix(b, y)
    OBVIOUS
  <2>2. y[1] \in Nat /\ y[2] \in Nat
    BY <1>4, <2>1 DEF InMatrix, Numbers
  <2>3. y = <<y[1], y[2]>>
    BY <2>1 DEF InMatrix
  <2> QED BY <2>1, <2>2, <2>3
<1>11. ASSUME NEW y \in spp, y[1] \in Numbers(rows), y[2] \in Numbers(cols)
       PROVE  \E u \in R : IsReadOf(u, b, rows, cols, y)
  <2> DEFINE i == y[1] - p
             j == y[2] - q
  <2>1. i \in 0 .. size(rows) - 1 /\ j \in 0 .. size(cols) - 1 /\ p + i = y[1] /\ q + j = y[2]
    BY <1>3, <1>10, <1>11 DEF Numbers, size, p, q
  <2>2. i = y[1] - rows.start /\ j = y[2] - cols.start
    BY DEF p, q
  <2> HIDE DEF i, j
  <2>3. <<p + i, q + j>> = y
    BY <1>10, <2>1
  <2>4. read(<<i, j>>) \in R /\ read(<<i, j>>).at = address(Layout(b), y)
    BY <1>2, <1>9, <2>1, <2>3
  <2> QED BY <1>9, <2>1, <2>2, <2>4 DEF IsReadOf
<1>12. ASSUME NEW u \in R, NEW y \in spp, u.at = address(Layout(b), y)
       PROVE  IsReadOf(u, b, rows, cols, y)
  <2>1. PICK i \in 0 .. size(rows) - 1, j \in 0 .. size(cols) - 1 : u = read(<<i, j>>)
    BY <1>2
  <2> DEFINE x == <<p + i, q + j>>
  <2>2. InMatrix(b, x) /\ u.at = address(Layout(b), x) /\ u.e[1] = i /\ u.e[2] = j
    BY <1>9, <2>1
  <2>3. x[1] = p + i /\ x[2] = q + j
    OBVIOUS
  <2> HIDE DEF x, read
  <2>4. x = y
    BY <1>10, <1>12, <2>2, PlainApart
  <2>5. i = y[1] - p /\ j = y[2] - q
    BY <1>3, <1>5, <1>6, <2>3, <2>4
  <2> QED BY <1>12, <2>2, <2>5 DEF IsReadOf, p, q
<1>13. IsFiniteSet(R)
  <2>1. IsFiniteSet(0 .. size(rows) - 1) /\ IsFiniteSet(0 .. size(cols) - 1)
    <3> DEFINE i == size(rows) - 1
               j == size(cols) - 1
               zero == 0
    <3>1. i \in Int /\ j \in Int /\ zero \in Int
      BY <1>3 DEF size, p, q
    <3> HIDE DEF i, j, zero
    <3>2. IsFiniteSet(zero .. i) /\ IsFiniteSet(zero .. j)
      BY <3>1, FS_Interval
    <3> QED BY <3>2 DEF i, j, zero
  <2>2. IsFiniteSet(pairs)
    BY <2>1, FS_Product
  <2> DEFINE f == [e \in pairs |-> read(e)]
  <2>3. R = {f[e] : e \in pairs}
    <3> HIDE DEF read
    <3> QED BY <1>2
  <2> HIDE DEF pairs, f
  <2> QED BY <2>2, <2>3, FiniteImage
<1>14. \A y, z \in spp : address(Layout(b), y) = address(Layout(b), z) => y = z
  BY PlainApart
<1>15. spp \subseteq Nat \X Nat
  BY <1>10
<1> QED BY <1>11, <1>12, <1>13, <1>14, <1>15 DEF ReadsRight, R

LEMMA SparseReads ==
  ASSUME NEW b, NEW spp, NEW rows, NEW cols, IsRange(rows), IsRange(cols), CscBase(b),
         spp \subseteq Stored(b), cols.start \in 0 .. b.shape[2], cols.stop \in 0 .. b.shape[2]
  PROVE  ReadsRight(ReadsOf(b, rows, cols), b, spp, rows, cols)
<1> DEFINE from == b.colPtr[cols.start]
           nz == cscEntries(b, rows, cols)
           all == Entries(b)
           n == Cardinality(Stored(b))
           R == ReadsOf(b, rows, cols)
<1>1. /\ rows.start \in Nat /\ rows.stop \in Nat /\ cols.start \in Nat /\ cols.stop \in Nat
      /\ cols.start < cols.stop
  BY DEF IsRange
<1>2. /\ IsFiniteSet(DOMAIN nz) /\ Placed(b, all, n) /\ from \in Nat
      /\ \A k \in DOMAIN nz :
           /\ k \in Nat /\ from + k \in 1 .. n
           /\ nz[k] = <<all[from + k][1] - rows.start, all[from + k][2] - cols.start>>
      /\ \A x \in Stored(b) : x[2] \in Numbers(cols) => \E k \in DOMAIN nz : all[from + k] = x
  BY <1>1, CscReads
<1>3. b.csc
  BY CscOk
<1>4. R = {[at |-> from + i - 1, e |-> nz[i]] : i \in DOMAIN nz}
  <2>1. offset(Layout(b), <<rows.start, cols.start>>) = from
    BY <1>3 DEF offset, Layout
  <2> QED BY <1>3, <2>1 DEF ReadsOf
<1> HIDE DEF from, nz, all, n, R
<1>5. /\ Stored(b) \subseteq Nat \X Nat /\ n \in Nat
      /\ \A l \in 1 .. n : all[l] \in Stored(b)
      /\ \A x \in Stored(b) : \E l \in 1 .. n : all[l] = x
  BY <1>2 DEF Placed, Listed, Pairs
<1>6. ASSUME NEW l \in 1 .. n PROVE address(Layout(b), all[l]) = l - 1
  <2> DEFINE e == all[l]
  <2>1. e \in Int \X Int /\ e[1] = all[l][1] /\ e[2] = all[l][2]
    BY <1>5
  <2> HIDE DEF e
  <2>2. CSCAddress(b, e) = l - 1
    BY <1>2, <2>1, CscPlace
  <2>3. relidx(Layout(b), e) = e
    BY <2>1, PlainEntry
  <2>4. Layout(b).base = b
    BY DEF Layout
  <2>5. address(Layout(b), e) = CSCAddress(b, e)
    BY <1>3, <2>3, <2>4 DEF address
  <2> QED BY <2>2, <2>5 DEF e
<1>7. ASSUME NEW k \in DOMAIN nz
      PROVE  IsReadOf([at |-> from + k - 1, e |-> nz[k]], b, rows, cols, all[from + k])
  <2> DEFINE l == from + k
             u == [at |-> from + k - 1, e |-> nz[k]]
  <2>1. l \in 1 .. n /\ nz[k] = <<all[l][1] - rows.start, all[l][2] - cols.start>> /\ k \in Nat
    BY <1>2
  <2>2. from + k - 1 = l - 1
    BY <1>2, <2>1
  <2> HIDE DEF l
  <2>3. u.at = address(Layout(b), all[l])
    BY <1>6, <2>1, <2>2
  <2>4. u.e[1] = all[l][1] - rows.start /\ u.e[2] = all[l][2] - cols.start
    BY <2>1
  <2> HIDE DEF u
  <2>5. IsReadOf(u, b, rows, cols, all[l])
    BY <2>3, <2>4 DEF IsReadOf
  <2> QED BY <2>5 DEF l, u
<1>8. ASSUME NEW y \in Stored(b), NEW z \in Stored(b), address(Layout(b), y) = address(Layout(b), z)
      PROVE  y = z
  <2>1. PICK k \in 1 .. n : all[k] = y
    BY <1>5
  <2>2. PICK l \in 1 .. n : all[l] = z
    BY <1>5
  <2>3. k - 1 = l - 1
    BY <1>6, <1>8, <2>1, <2>2
  <2>4. k = l
    BY <1>5, <2>3
  <2> QED BY <2>1, <2>2, <2>4
<1>9. ASSUME NEW y \in spp, y[2] \in Numbers(cols)
      PROVE  \E u \in R : IsReadOf(u, b, rows, cols, y)
  <2>1. PICK k \in DOMAIN nz : all[from + k] = y
    BY <1>2, <1>9
  <2>2. [at |-> from + k - 1, e |-> nz[k]] \in R
    BY <1>4
  <2> QED BY <1>7, <2>1, <2>2
<1>10. ASSUME NEW u \in R, NEW y \in spp, u.at = address(Layout(b), y)
       PROVE  IsReadOf(u, b, rows, cols, y)
  <2>1. PICK k \in DOMAIN nz : u = [at |-> from + k - 1, e |-> nz[k]]
    BY <1>4
  <2> DEFINE x == all[from + k]
  <2>2. IsReadOf(u, b, rows, cols, x)
    BY <1>7, <2>1
  <2>3. x \in Stored(b) /\ y \in Stored(b)
    BY <1>2, <1>5
  <2> HIDE DEF x
  <2>4. x = y
    BY <1>8, <1>10, <2>2, <2>3 DEF IsReadOf
  <2> QED BY <2>2, <2>4
<1>11. IsFiniteSet(R)
  <2> DEFINE f == [i \in DOMAIN nz |-> [at |-> from + i - 1, e |-> nz[i]]]
             S == DOMAIN nz
  <2>1. R = {f[i] : i \in S}
    BY <1>4
  <2>2. IsFiniteSet(S)
    BY <1>2
  <2> HIDE DEF f, S
  <2> QED BY <2>1, <2>2, FiniteImage
<1> QED
  <2>1. spp \subseteq Nat \X Nat
    BY <1>5
  <2>2. \A y, z \in spp : address(Layout(b), y) = address(Layout(b), z) => y = z
    BY <1>8
  <2> QED BY <1>9, <1>10, <1>11, <2>1, <2>2 DEF ReadsRight, R

LEMMA ReadableReads ==
  ASSUME NEW b, NEW spp, NEW rows, NEW cols, Readable(b, spp, rows, cols)
  PROVE  ReadsRight(ReadsOf(b, rows, cols), b, spp, rows, cols)
BY DenseReads, SparseReads DEF Readable

LEMMA TurnedTwice ==
  ASSUME NEW e \in Nat \X Nat, NEW trans \in BOOLEAN
  PROVE  /\ Turned(Turned(e, trans), trans) = e /\ Turned(e, trans) \in Nat \X Nat
         /\ Turned(e, trans)[1] = IF trans THEN e[2] ELSE e[1]
         /\ Turned(e, trans)[2] = IF trans THEN e[1] ELSE e[2]
BY DEF Turned

\* An operand in the rows and columns of the product.
IsTermOf(q, lay, r, s, trans, y) ==
  /\ q.at = address(lay, Turned(y, trans))
  /\ q.e[1] = y[1] - r.start /\ q.e[2] = y[2] - s.start

OperandRight(O, lay, spp, r, s, trans) ==
  /\ IsFiniteSet(O)
  /\ spp \subseteq Nat \X Nat
  /\ \A y \in spp : y[1] \in Numbers(r) /\ y[2] \in Numbers(s)
                      => \E q \in O : IsTermOf(q, lay, r, s, trans, y)
  /\ \A q \in O, y \in spp : q.at = address(lay, Turned(y, trans)) => IsTermOf(q, lay, r, s, trans, y)
  /\ \A y, z \in spp : address(lay, Turned(y, trans)) = address(lay, Turned(z, trans)) => y = z

LEMMA OperandTurns ==
  ASSUME NEW b, NEW r, NEW s, NEW trans \in BOOLEAN, NEW rows, NEW cols,
         rows = IF trans THEN s ELSE r, cols = IF trans THEN r ELSE s
  PROVE  Operand(Layout(b), r, s, trans)
           = {[at |-> u.at, e |-> Turned(u.e, trans)] : u \in ReadsOf(b, rows, cols)}
<1> DEFINE lay == Layout(b)
           box == Box(r, s, trans)
           o == offset(lay, <<rows.start, cols.start>>)
           nz == cscEntries(b, rows, cols)
           turn(u) == [at |-> u.at, e |-> Turned(u.e, trans)]
<1>1. lay.base = b /\ box[1] = rows /\ box[2] = cols
  BY DEF Layout, Box
<1>2. Start(r, s, trans) = <<rows.start, cols.start>>
  BY DEF Start, Turned
<1>3. CASE b.csc
  <2>1. ReadsOf(b, rows, cols) = {[at |-> o + i - 1, e |-> nz[i]] : i \in DOMAIN nz}
    BY <1>3 DEF ReadsOf
  <2>2. Operand(lay, r, s, trans) = {[at |-> o + i - 1, e |-> Turned(nz[i], trans)] : i \in DOMAIN nz}
    BY <1>1, <1>2, <1>3 DEF Operand
  <2> DEFINE u(i) == [at |-> o + i - 1, e |-> nz[i]]
  <2>3. \A i : turn(u(i)) = [at |-> o + i - 1, e |-> Turned(nz[i], trans)]
    OBVIOUS
  <2>4. Operand(lay, r, s, trans) = {turn(u(i)) : i \in DOMAIN nz}
    <3> HIDE DEF nz, o, lay, turn, u
    <3> QED BY <2>2, <2>3
  <2>5. ReadsOf(b, rows, cols) = {u(i) : i \in DOMAIN nz}
    BY <2>1
  <2> HIDE DEF u, nz, o, lay, turn
  <2>6. Operand(lay, r, s, trans) = {turn(v) : v \in ReadsOf(b, rows, cols)}
    BY <2>4, <2>5
  <2> QED BY <2>6 DEF lay, turn
<1>4. CASE ~ b.csc
  <2> DEFINE D == (0 .. size(rows) - 1) \X (0 .. size(cols) - 1)
             at(e) == o + e[1] * b.stride[1] + e[2] * b.stride[2]
  <2>1. ReadsOf(b, rows, cols) = {[at |-> at(e), e |-> e] : e \in D}
    BY <1>4 DEF ReadsOf
  <2>2. Operand(lay, r, s, trans) = {[at |-> at(e), e |-> Turned(e, trans)] : e \in D}
    BY <1>1, <1>2, <1>4 DEF Operand
  <2> DEFINE u(e) == [at |-> at(e), e |-> e]
  <2>3. \A e : turn(u(e)) = [at |-> at(e), e |-> Turned(e, trans)]
    <3> HIDE DEF at
    <3> QED OBVIOUS
  <2>4. Operand(lay, r, s, trans) = {turn(u(e)) : e \in D}
    <3> HIDE DEF D, at, lay, turn, u
    <3> QED BY <2>2, <2>3
  <2>5. ReadsOf(b, rows, cols) = {u(e) : e \in D}
    BY <2>1
  <2> HIDE DEF u, D, at, lay, turn
  <2>6. Operand(lay, r, s, trans) = {turn(v) : v \in ReadsOf(b, rows, cols)}
    BY <2>4, <2>5
  <2> QED BY <2>6 DEF lay, turn
<1> QED BY <1>3, <1>4

LEMMA OperandReads ==
  ASSUME NEW b, NEW own, NEW r, NEW s, NEW trans \in BOOLEAN, NEW spp,
         spp = {Turned(e, trans) : e \in own},
         Readable(b, own, IF trans THEN s ELSE r, IF trans THEN r ELSE s)
  PROVE  OperandRight(Operand(Layout(b), r, s, trans), Layout(b), spp, r, s, trans)
<1> DEFINE rows == IF trans THEN s ELSE r
           cols == IF trans THEN r ELSE s
           R == ReadsOf(b, rows, cols)
           O == Operand(Layout(b), r, s, trans)
           turn(u) == [at |-> u.at, e |-> Turned(u.e, trans)]
<1>1. ReadsRight(R, b, own, rows, cols)
  BY ReadableReads
<1>2. O = {turn(u) : u \in R}
  BY OperandTurns
<1>3. \A e \in own : /\ e \in Nat \X Nat /\ Turned(e, trans) \in spp /\ Turned(Turned(e, trans), trans) = e
                     /\ Turned(e, trans) \in Nat \X Nat
  BY <1>1, TurnedTwice DEF ReadsRight
<1>4. \A y \in spp : /\ Turned(y, trans) \in own /\ Turned(Turned(y, trans), trans) = y
                     /\ y \in Nat \X Nat
  BY <1>3
<1>5. ASSUME NEW u \in R, NEW y \in spp, IsReadOf(u, b, rows, cols, Turned(y, trans))
      PROVE  IsTermOf(turn(u), Layout(b), r, s, trans, y)
  <2>1. CASE trans
    <3>1. Turned(y, trans)[1] = y[2] /\ Turned(y, trans)[2] = y[1] /\ rows = s /\ cols = r
      BY <1>4, <2>1, TurnedTwice
    <3>2. turn(u).e[1] = u.e[2] /\ turn(u).e[2] = u.e[1] /\ turn(u).at = u.at
      BY <2>1 DEF Turned
    <3> HIDE DEF rows, cols, turn
    <3> QED BY <1>5, <3>1, <3>2 DEF IsReadOf, IsTermOf
  <2>2. CASE ~ trans
    <3>1. Turned(y, trans)[1] = y[1] /\ Turned(y, trans)[2] = y[2] /\ rows = r /\ cols = s
      BY <1>4, <2>2, TurnedTwice
    <3>2. turn(u).e[1] = u.e[1] /\ turn(u).e[2] = u.e[2] /\ turn(u).at = u.at
      BY <2>2 DEF Turned
    <3> HIDE DEF rows, cols, turn
    <3> QED BY <1>5, <3>1, <3>2 DEF IsReadOf, IsTermOf
  <2> QED BY <2>1, <2>2
<1>6. ASSUME NEW y \in spp, y[1] \in Numbers(r), y[2] \in Numbers(s)
      PROVE  \E q \in O : IsTermOf(q, Layout(b), r, s, trans, y)
  <2> DEFINE x == Turned(y, trans)
  <2>1. x \in own /\ x[1] \in Numbers(rows) /\ x[2] \in Numbers(cols)
    BY <1>4, <1>6, TurnedTwice
  <2> HIDE DEF rows, cols, x, R
  <2>2. PICK u \in R : IsReadOf(u, b, rows, cols, x)
    BY <1>1, <2>1 DEF ReadsRight
  <2>3. IsTermOf(turn(u), Layout(b), r, s, trans, y)
    BY <1>5, <2>2 DEF x
  <2> HIDE DEF turn
  <2> QED BY <1>2, <2>3
<1>7. ASSUME NEW q \in O, NEW y \in spp, q.at = address(Layout(b), Turned(y, trans))
      PROVE  IsTermOf(q, Layout(b), r, s, trans, y)
  <2>1. PICK u \in R : q = turn(u)
    BY <1>2
  <2>2. u.at = q.at
    BY <2>1
  <2> HIDE DEF rows, cols, R, turn, O
  <2>3. IsReadOf(u, b, rows, cols, Turned(y, trans))
    BY <1>1, <1>4, <1>7, <2>2 DEF ReadsRight
  <2> QED BY <1>5, <2>1, <2>3
<1>8. \A y, z \in spp : address(Layout(b), Turned(y, trans)) = address(Layout(b), Turned(z, trans)) => y = z
  <2> TAKE y, z \in spp
  <2> HAVE address(Layout(b), Turned(y, trans)) = address(Layout(b), Turned(z, trans))
  <2> HIDE DEF rows, cols, R
  <2>1. Turned(y, trans) = Turned(z, trans)
    BY <1>1, <1>4 DEF ReadsRight
  <2> QED BY <1>4, <2>1
<1>9. IsFiniteSet(O)
  <2> DEFINE f == [u \in R |-> turn(u)]
  <2>1. O = {f[u] : u \in R}
    <3> HIDE DEF turn, O, R
    <3> QED BY <1>2
  <2>2. IsFiniteSet(R)
    <3> HIDE DEF R
    <3> QED BY <1>1 DEF ReadsRight
  <2> HIDE DEF f, R, O
  <2> QED BY <2>1, <2>2, FiniteImage
<1>10. spp \subseteq Nat \X Nat
  BY <1>4
<1> HIDE DEF O
<1> QED BY <1>6, <1>7, <1>8, <1>9, <1>10 DEF OperandRight, O

LeftReads(d)  == Operand(d.A, d.m, d.k, d.transA)
RightReads(d) == Operand(d.B, d.k, d.n, d.transB)

\* The product of two reals, and where it is added.
Adds(d, u, v) ==
  [at |-> offset(d.C, <<d.m.start, d.n.start>>) + u.e[1] * d.C.base.stride[1] + v.e[2] * d.C.base.stride[2],
   a |-> u.at, b |-> v.at]

LEMMA ProductsOf ==
  ASSUME NEW d, IsFiniteSet(LeftReads(d)), IsFiniteSet(RightReads(d))
  PROVE  /\ IsFiniteSet(Products(d))
         /\ \A u \in LeftReads(d), v \in RightReads(d) :
              u.e[2] = v.e[1] /\ u.e[1] < size(d.m) /\ v.e[2] < size(d.n) => Adds(d, u, v) \in Products(d)
         /\ \A p \in Products(d) : \E u \in LeftReads(d), v \in RightReads(d) :
              u.e[2] = v.e[1] /\ p = Adds(d, u, v)
<1> DEFINE L == LeftReads(d)
           R == RightReads(d)
           pairs == {p \in L \X R : p[1].e[2] = p[2].e[1]}
           inside == {p \in pairs : p[1].e[1] < size(d.m) /\ p[2].e[2] < size(d.n)}
           chosen == IF d.A.base.csc /\ d.B.base.csc THEN pairs ELSE inside
           f == [p \in chosen |-> Adds(d, p[1], p[2])]
<1>1. Products(d) = {Adds(d, p[1], p[2]) : p \in chosen}
  BY DEF Products, Adds, LeftReads, RightReads
<1>2. chosen \subseteq L \X R /\ inside \subseteq chosen /\ \A p \in chosen : p[1].e[2] = p[2].e[1]
  OBVIOUS
<1>3. IsFiniteSet(chosen)
  <2>1. IsFiniteSet(L \X R)
    <3> HIDE DEF L, R
    <3>1. IsFiniteSet(L) /\ IsFiniteSet(R)
      BY DEF L, R
    <3> QED BY <3>1, FS_Product
  <2> HIDE DEF chosen, L, R
  <2> QED BY <1>2, <2>1, FS_Subset
<1>4. ASSUME NEW u \in L, NEW v \in R, u.e[2] = v.e[1], u.e[1] < size(d.m), v.e[2] < size(d.n)
      PROVE  <<u, v>> \in chosen
  BY <1>4
<1> HIDE DEF chosen, L, R, inside, pairs
<1>5. Products(d) = {f[p] : p \in chosen}
  BY <1>1
<1>6. IsFiniteSet(Products(d))
  <2> HIDE DEF f
  <2> QED BY <1>3, <1>5, FiniteImage
<1>7. ASSUME NEW u \in L, NEW v \in R, u.e[2] = v.e[1], u.e[1] < size(d.m), v.e[2] < size(d.n)
      PROVE  Adds(d, u, v) \in Products(d)
  <2>1. <<u, v>> \in chosen /\ <<u, v>>[1] = u /\ <<u, v>>[2] = v
    BY <1>4, <1>7
  <2> QED BY <1>1, <2>1
<1>8. ASSUME NEW p \in Products(d)
      PROVE  \E u \in L, v \in R : u.e[2] = v.e[1] /\ p = Adds(d, u, v)
  <2>1. PICK w \in chosen : p = Adds(d, w[1], w[2])
    BY <1>1
  <2>2. w[1] \in L /\ w[2] \in R /\ w[1].e[2] = w[2].e[1]
    BY <1>2
  <2> QED BY <2>1, <2>2
<1> QED BY <1>6, <1>7, <1>8 DEF L, R

\* What the operands and the result of a call hold.
CallReady(d, sppA, sppB) ==
  /\ OperandRight(LeftReads(d), d.A, sppA, d.m, d.k, d.transA)
  /\ OperandRight(RightReads(d), d.B, sppB, d.k, d.n, d.transB)
  /\ d.C = Layout(d.C.base) /\ Matrix2(d.C.base)
  /\ IsRange(d.m) /\ IsRange(d.n) /\ IsRange(d.k)
  /\ \A i \in Numbers(d.m), j \in Numbers(d.n) : InMatrix(d.C.base, <<i, j>>)
  /\ \A y \in sppA, z \in sppB :
       y[2] = z[1] => y[1] \in Numbers(d.m) /\ y[2] \in Numbers(d.k) /\ z[2] \in Numbers(d.n)

LEMMA AddsAt ==
  ASSUME NEW d, NEW sppA, NEW sppB, CallReady(d, sppA, sppB), NEW y \in sppA, NEW z \in sppB, y[2] = z[1],
         NEW u, IsTermOf(u, d.A, d.m, d.k, d.transA, y), NEW v, IsTermOf(v, d.B, d.k, d.n, d.transB, z)
  PROVE  /\ u.e[2] = v.e[1] /\ u.e[1] < size(d.m) /\ v.e[2] < size(d.n)
         /\ Adds(d, u, v).at = address(d.C, <<y[1], z[2]>>)
         /\ Adds(d, u, v).a = address(d.A, Turned(y, d.transA))
         /\ Adds(d, u, v).b = address(d.B, Turned(z, d.transB))
         /\ InMatrix(d.C.base, <<y[1], z[2]>>)
<1> DEFINE c == d.C.base
           p == d.m.start
           q == d.n.start
           i == u.e[1]
           j == v.e[2]
<1>1. /\ y[1] \in Numbers(d.m) /\ z[2] \in Numbers(d.n)
      /\ \A x \in Numbers(d.m), w \in Numbers(d.n) : InMatrix(c, <<x, w>>)
      /\ d.C = Layout(c) /\ Matrix2(c) /\ IsRange(d.m) /\ IsRange(d.n)
  BY DEF CallReady
<1>2. /\ u.e[1] = y[1] - d.m.start /\ u.e[2] = y[2] - d.k.start
      /\ v.e[1] = z[1] - d.k.start /\ v.e[2] = z[2] - d.n.start
      /\ u.at = address(d.A, Turned(y, d.transA)) /\ v.at = address(d.B, Turned(z, d.transB))
  BY DEF IsTermOf
<1>3. /\ p \in Nat /\ q \in Nat /\ p \in Numbers(d.m) /\ q \in Numbers(d.n)
      /\ d.m.stop \in Nat /\ d.n.stop \in Nat
  BY <1>1 DEF IsRange, Numbers
<1>4. i \in Nat /\ j \in Nat /\ p + i = y[1] /\ q + j = z[2] /\ i < size(d.m) /\ j < size(d.n)
  <2>1. y[1] \in p .. d.m.stop - 1 /\ z[2] \in q .. d.n.stop - 1
    BY <1>1 DEF Numbers
  <2>2. i = y[1] - p /\ j = z[2] - q
    BY <1>2
  <2> HIDE DEF p, q, i, j
  <2>3. i \in Nat /\ j \in Nat /\ p + i = y[1] /\ q + j = z[2] /\ i < d.m.stop - p /\ j < d.n.stop - q
    BY <1>3, <2>1, <2>2
  <2> QED BY <2>3 DEF size, p, q
<1>5. InMatrix(c, <<p, q>>) /\ InMatrix(c, <<y[1], z[2]>>)
  BY <1>1, <1>3
<1> HIDE DEF p, q, i, j, c
<1>6. address(Layout(c), <<p + i, q + j>>)
        = address(Layout(c), <<p, q>>) + i * c.stride[1] + j * c.stride[2]
  BY <1>1, <1>4, <1>5, PlainMoved
<1>7. offset(d.C, <<p, q>>) = address(d.C, <<p, q>>)
  <2>1. c.csc = FALSE
    BY <1>1, MatrixNumbers
  <2> QED BY <2>1 DEF offset, c
<1>8. Adds(d, u, v).at = address(d.C, <<y[1], z[2]>>)
  <2>1. Adds(d, u, v).at = offset(d.C, <<p, q>>) + i * c.stride[1] + j * c.stride[2]
    BY DEF Adds, p, q, i, j, c
  <2> QED BY <1>1, <1>4, <1>6, <1>7, <2>1
<1>9. u.e[2] = v.e[1]
  BY <1>2
<1> QED BY <1>2, <1>4, <1>5, <1>8, <1>9 DEF Adds, i, j, c

\* The reals of a storage: what is not that of a nonzero is zero.
StoredReals(reals, lay, spp, trans) ==
  /\ \A x : At(reals, x) \in Nat
  /\ \A x : At(reals, x) # 0 => \E y \in spp : x = address(lay, Turned(y, trans))

\* The products added to an entry are those of its definition, each once, and
\* others that are zero; whatever reals the operands hold.
SumsEqual(d, sppA, sppB, realsA, realsB, e) ==
  LET added(p)   == At(realsA, p.a) * At(realsB, p.b)
      x          == address(d.C, e)
      prods      == {p \in Products(d) : p.at = x}
      factors    == {y \in sppA : y[1] = e[1] /\ <<y[2], e[2]>> \in sppB}
      product(y) == added([a |-> address(d.A, Turned(y, d.transA)),
                           b |-> address(d.B, Turned(<<y[2], e[2]>>, d.transB))])
  IN  SumFunction([p \in prods |-> added(p)]) = SumFunction([y \in factors |-> product(y)])

LEMMA SumsAgree ==
  ASSUME NEW d, NEW sppA, NEW sppB, CallReady(d, sppA, sppB), NEW e, InMatrix(d.C.base, e),
         NEW realsA, StoredReals(realsA, d.A, sppA, d.transA),
         NEW realsB, StoredReals(realsB, d.B, sppB, d.transB)
  PROVE  SumsEqual(d, sppA, sppB, realsA, realsB, e)
<1> DEFINE added(p)   == At(realsA, p.a) * At(realsB, p.b)
           x          == address(d.C, e)
           prods      == {p \in Products(d) : p.at = x}
           factors    == {y \in sppA : y[1] = e[1] /\ <<y[2], e[2]>> \in sppB}
           atA(y)     == address(d.A, Turned(y, d.transA))
           atB(z)     == address(d.B, Turned(z, d.transB))
           product(y) == added([a |-> atA(y), b |-> atB(<<y[2], e[2]>>)])
           f == [y \in factors |-> [at |-> x, a |-> atA(y), b |-> atB(<<y[2], e[2]>>)]]
           s == [p \in prods |-> added(p)]
           t == [y \in factors |-> product(y)]
<1>1. /\ OperandRight(LeftReads(d), d.A, sppA, d.m, d.k, d.transA)
      /\ OperandRight(RightReads(d), d.B, sppB, d.k, d.n, d.transB)
      /\ d.C = Layout(d.C.base) /\ Matrix2(d.C.base)
      /\ \A y \in sppA, z \in sppB :
           y[2] = z[1] => y[1] \in Numbers(d.m) /\ y[2] \in Numbers(d.k) /\ z[2] \in Numbers(d.n)
  BY DEF CallReady
<1>2. /\ IsFiniteSet(Products(d))
      /\ \A u \in LeftReads(d), v \in RightReads(d) :
           u.e[2] = v.e[1] /\ u.e[1] < size(d.m) /\ v.e[2] < size(d.n) => Adds(d, u, v) \in Products(d)
      /\ \A p \in Products(d) : \E u \in LeftReads(d), v \in RightReads(d) :
           u.e[2] = v.e[1] /\ p = Adds(d, u, v)
  <2>1. IsFiniteSet(LeftReads(d)) /\ IsFiniteSet(RightReads(d))
    BY <1>1 DEF OperandRight
  <2> QED BY <2>1, ProductsOf
<1>3. e = <<e[1], e[2]>>
  BY DEF InMatrix
<1> HIDE DEF atA, atB
<1>4. ASSUME NEW y \in sppA, NEW z \in sppB, y[2] = z[1]
      PROVE  \E p \in Products(d) : p = [at |-> address(d.C, <<y[1], z[2]>>), a |-> atA(y), b |-> atB(z)]
  <2>1. y[1] \in Numbers(d.m) /\ y[2] \in Numbers(d.k) /\ z[1] \in Numbers(d.k) /\ z[2] \in Numbers(d.n)
    BY <1>1, <1>4
  <2>2. PICK u \in LeftReads(d) : IsTermOf(u, d.A, d.m, d.k, d.transA, y)
    BY <1>1, <2>1 DEF OperandRight
  <2>3. PICK v \in RightReads(d) : IsTermOf(v, d.B, d.k, d.n, d.transB, z)
    BY <1>1, <2>1 DEF OperandRight
  <2>4. /\ u.e[2] = v.e[1] /\ u.e[1] < size(d.m) /\ v.e[2] < size(d.n)
        /\ Adds(d, u, v).at = address(d.C, <<y[1], z[2]>>)
        /\ Adds(d, u, v).a = atA(y) /\ Adds(d, u, v).b = atB(z)
    BY <1>4, <2>2, <2>3, AddsAt DEF atA, atB
  <2>5. Adds(d, u, v) \in Products(d)
    BY <1>2, <2>4
  <2>6. Adds(d, u, v) = [at |-> Adds(d, u, v).at, a |-> Adds(d, u, v).a, b |-> Adds(d, u, v).b]
    BY DEF Adds
  <2>7. Adds(d, u, v) = [at |-> address(d.C, <<y[1], z[2]>>), a |-> atA(y), b |-> atB(z)]
    BY <2>4, <2>6
  <2> QED BY <2>5, <2>7
<1>5. f \in [factors -> prods]
  <2> SUFFICES ASSUME NEW y \in factors PROVE [at |-> x, a |-> atA(y), b |-> atB(<<y[2], e[2]>>)] \in prods
    OBVIOUS
  <2> DEFINE z == <<y[2], e[2]>>
             r == [at |-> x, a |-> atA(y), b |-> atB(z)]
  <2>1. y \in sppA /\ z \in sppB /\ y[2] = z[1] /\ <<y[1], z[2]>> = e
    BY <1>3
  <2> HIDE DEF z
  <2>2. r \in Products(d)
    BY <1>4, <2>1
  <2>3. r.at = x
    OBVIOUS
  <2> HIDE DEF r
  <2>4. r \in prods
    BY <2>2, <2>3
  <2> QED BY <2>4 DEF r, z
<1>6. \A y, z \in factors : f[y] = f[z] => y = z
  <2> TAKE y, z \in factors
  <2> HAVE f[y] = f[z]
  <2>1. f[y].a = atA(y) /\ f[z].a = atA(z)
    OBVIOUS
  <2>2. atA(y) = atA(z)
    BY <2>1
  <2> QED BY <1>1, <2>2 DEF OperandRight, atA
<1>7. IsFiniteSet(prods)
  BY <1>2, FS_Subset
<1>8. IsFiniteSet(factors)
  <2> HIDE DEF f, factors, prods
  <2>1. f \in Injection(factors, prods)
    BY <1>5, <1>6 DEF Injection, IsInjective
  <2> QED BY <1>7, <2>1, FS_Injection
<1>9. \A p : added(p) \in Nat
  <2> TAKE p
  <2>1. At(realsA, p.a) \in Nat /\ At(realsB, p.b) \in Nat
    BY DEF StoredReals
  <2> QED BY <2>1
<1>10. ASSUME NEW p \in prods, s[p] # 0 PROVE \E y \in factors : f[y] = p
  <2>1. p \in Products(d) /\ p.at = x /\ At(realsA, p.a) * At(realsB, p.b) # 0
    BY <1>10
  <2>2. At(realsA, p.a) # 0 /\ At(realsB, p.b) # 0
    <3> DEFINE va == At(realsA, p.a)
               vb == At(realsB, p.b)
    <3>1. va \in Nat /\ vb \in Nat /\ va * vb # 0
      BY <2>1 DEF StoredReals
    <3> HIDE DEF va, vb
    <3>2. va # 0 /\ vb # 0
      BY <3>1
    <3> QED BY <3>2 DEF va, vb
  <2>3. PICK y \in sppA : p.a = atA(y)
    BY <2>2 DEF StoredReals, atA
  <2>4. PICK z \in sppB : p.b = atB(z)
    BY <2>2 DEF StoredReals, atB
  <2>5. PICK u \in LeftReads(d), v \in RightReads(d) : u.e[2] = v.e[1] /\ p = Adds(d, u, v)
    BY <1>2, <2>1
  <2>6. u.at = p.a /\ v.at = p.b
    BY <2>5 DEF Adds
  <2>7. IsTermOf(u, d.A, d.m, d.k, d.transA, y)
    BY <1>1, <2>3, <2>6 DEF OperandRight, atA
  <2>8. IsTermOf(v, d.B, d.k, d.n, d.transB, z)
    BY <1>1, <2>4, <2>6 DEF OperandRight, atB
  <2>9. y[2] = z[1]
    <3>1. y[2] \in Nat /\ z[1] \in Nat
      BY <1>1 DEF OperandRight
    <3>2. d.k.start \in Nat
      BY DEF CallReady, IsRange
    <3>3. y[2] - d.k.start = z[1] - d.k.start
      BY <2>5, <2>7, <2>8 DEF IsTermOf
    <3> QED BY <3>1, <3>2, <3>3
  <2>10. /\ p.at = address(d.C, <<y[1], z[2]>>) /\ InMatrix(d.C.base, <<y[1], z[2]>>)
    BY <2>5, <2>7, <2>8, <2>9, AddsAt
  <2>11. <<y[1], z[2]>> = e
    <3> DEFINE c == d.C.base
               g == <<y[1], z[2]>>
    <3>1. address(Layout(c), g) = address(Layout(c), e) /\ InMatrix(c, g) /\ InMatrix(c, e) /\ Matrix2(c)
      BY <1>1, <2>1, <2>10
    <3> HIDE DEF c, g
    <3>2. g = e
      BY <3>1, PlainApart
    <3> QED BY <3>2 DEF g
  <2>12. y[1] = e[1] /\ z = <<y[2], e[2]>>
    <3>1. z = <<z[1], z[2]>>
      BY <1>1 DEF OperandRight
    <3>2. e[1] = y[1] /\ e[2] = z[2]
      BY <2>11
    <3> QED BY <2>9, <3>1, <3>2
  <2>13. y \in factors
    BY <2>12
  <2>14. p = [at |-> x, a |-> atA(y), b |-> atB(z)]
    <3>1. p = [at |-> p.at, a |-> p.a, b |-> p.b]
      BY <2>5 DEF Adds
    <3> QED BY <2>1, <2>3, <2>4, <3>1
  <2> HIDE DEF factors, x
  <2> QED BY <2>12, <2>13, <2>14
<1>11. \A y \in factors : s[f[y]] = t[y]
  <2> TAKE y \in factors
  <2>1. f[y] \in prods /\ f[y].a = atA(y) /\ f[y].b = atB(<<y[2], e[2]>>)
    BY <1>5
  <2> HIDE DEF f, prods, factors
  <2>2. s[f[y]] = At(realsA, f[y].a) * At(realsB, f[y].b)
    BY <2>1
  <2>3. t[y] = At(realsA, atA(y)) * At(realsB, atB(<<y[2], e[2]>>))
    OBVIOUS
  <2> QED BY <2>1, <2>2, <2>3
<1>12. Naturals(prods, s) /\ Naturals(factors, t)
  <2> HIDE DEF added, prods, factors
  <2> QED BY <1>9 DEF Naturals
<1>13. s = Part(s, prods) /\ t = Part(t, factors)
  BY DEF Part
<1> HIDE DEF s, t, f, prods, factors
<1>14. \A p \in prods : s[p] # 0 => \E y \in factors : f[y] = p
  BY <1>10
<1>15. SumFunction(Part(s, prods)) = SumFunction(Part(t, factors))
  BY <1>5, <1>6, <1>7, <1>8, <1>11, <1>12, <1>14, SumRenamed
<1> QED BY <1>13, <1>15 DEF SumsEqual, s, t, prods, factors, atA, atB

LEMMA BoundsOf ==
  ASSUME NEW T, Pairs(T), T # {}, NEW d \in 1 .. 2
  PROVE  LET r == BoundingBoxOf(T)[d]
         IN  /\ IsRange(r)
             /\ \A y \in T : y[d] \in Numbers(r)
             /\ \E y \in T : y[d] = r.start
             /\ \E y \in T : y[d] = r.stop - 1
<1> DEFINE f == [x \in T |-> x[d]]
           N == {x[d] : x \in T}
           r == BoundingBoxOf(T)[d]
<1>1. IsFiniteSet(N)
  <2>1. N = {f[x] : x \in T}
    OBVIOUS
  <2> HIDE DEF f, N
  <2> QED BY <2>1, FiniteImage DEF Pairs
<1>2. N \subseteq Nat /\ N \subseteq Int /\ N # {}
  <2>1. \A x \in T : x[1] \in Nat /\ x[2] \in Nat
    BY DEF Pairs
  <2>2. \A x \in T : x[d] \in Nat
    BY <2>1
  <2> QED BY <2>2
<1>3. r = Interval(Min(N), Max(N) + 1)
  BY DEF BoundingBoxOf
<1>4. \A x \in T : x[d] \in N
  OBVIOUS
<1>5. \A k \in N : \E x \in T : x[d] = k
  OBVIOUS
<1> HIDE DEF N, r
<1>6. Min(N) \in N /\ Max(N) \in N /\ \A x \in N : Min(N) <= x /\ x <= Max(N)
  BY <1>1, <1>2, MinOk, MaxOk
<1>7. Min(N) \in Nat /\ Max(N) \in Nat /\ Min(N) <= Max(N)
  BY <1>2, <1>6
<1> DEFINE a == Min(N)
           z == Max(N)
<1>8. a \in Nat /\ z \in Nat /\ a <= z /\ r.start = a /\ r.stop = z + 1 /\ r = Interval(r.start, r.stop)
  BY <1>3, <1>7 DEF Interval
<1>9. \A x \in N : x \in Nat /\ a <= x /\ x <= z
  BY <1>2, <1>6
<1>10. a \in N /\ z \in N
  BY <1>6
<1> HIDE DEF a, z
<1>11. IsRange(r)
  BY <1>8 DEF IsRange
<1>12. \A y \in T : y[d] \in Numbers(r)
  <2> TAKE y \in T
  <2> DEFINE k == y[d]
  <2>1. k \in N
    BY <1>4
  <2> HIDE DEF k
  <2>2. k \in Numbers(r)
    BY <1>8, <1>9, <2>1 DEF Numbers
  <2> QED BY <2>2 DEF k
<1>13. r.stop - 1 = z
  BY <1>8
<1> QED BY <1>5, <1>8, <1>10, <1>11, <1>12, <1>13 DEF r

LEMMA BoundsWithin ==
  ASSUME NEW T, Pairs(T), T # {}, NEW d \in 1 .. 2, NEW s, s.start \in Int, s.stop \in Int,
         \A y \in T : y[d] \in Numbers(s)
  PROVE  Within(BoundingBoxOf(T)[d], s)
<1> DEFINE r == BoundingBoxOf(T)[d]
<1>1. /\ IsRange(r)
      /\ \E y \in T : y[d] = r.start
      /\ \E y \in T : y[d] = r.stop - 1
  BY BoundsOf
<1> HIDE DEF r
<1>2. r.start \in Numbers(s) /\ r.stop - 1 \in Numbers(s) /\ r.start \in Nat /\ r.stop \in Nat
  BY <1>1 DEF IsRange
<1>3. s.start <= r.start /\ r.stop <= s.stop
  BY <1>2 DEF Numbers
<1> QED BY <1>3 DEF Within, r

LEMMA BoundsAgree ==
  ASSUME NEW T, NEW c \in 1 .. 2, NEW U, NEW d \in 1 .. 2, {x[c] : x \in T} = {y[d] : y \in U}
  PROVE  BoundingBoxOf(T)[c] = BoundingBoxOf(U)[d]
<1>1. BoundingBoxOf(T)[c] = Interval(Min({x[c] : x \in T}), Max({x[c] : x \in T}) + 1)
  BY DEF BoundingBoxOf
<1>2. BoundingBoxOf(U)[d] = Interval(Min({x[d] : x \in U}), Max({x[d] : x \in U}) + 1)
  BY DEF BoundingBoxOf
<1> QED BY <1>1, <1>2

\* Rows that are extended to whole vectors stay in a storage that ends with one.
LEMMA ExtendedWithin ==
  ASSUME NEW r, IsRange(r), NEW s, IsRange(s), Within(r, s), aligned(r).start \in Numbers(s),
         \/ \E t : IsRange(t) /\ s = aligned(t)
         \/ checkAlignment(size(s)) /\ (s.start = 0 \/ s.start = r.start)
  PROVE  Within(aligned(r), s)
<1>1. /\ r.start \in Nat /\ r.stop \in Nat /\ s.start \in Nat /\ s.stop \in Nat /\ s.start < s.stop
      /\ s.start <= r.start /\ r.stop <= s.stop
  BY DEF IsRange, Within
<1>2. aligned(r).start = alignedLower(r.start) /\ aligned(r).stop = alignedUpper(r.stop)
  BY DEF aligned, Interval
<1>3. s.start <= alignedLower(r.start) /\ alignedLower(r.start) <= r.start /\ alignedLower(r.start) \in Nat
  <2>1. s.start <= alignedLower(r.start)
    BY <1>1, <1>2 DEF Numbers
  <2> QED BY <1>1, <2>1, AlignedNumbers
<1>4. Multiple(s.stop)
  <2>1. CASE \E t : IsRange(t) /\ s = aligned(t)
    <3>1. PICK t : IsRange(t) /\ s = aligned(t)
      BY <2>1
    <3>2. s.stop = alignedUpper(t.stop) /\ t.stop \in Nat
      BY <3>1 DEF IsRange, aligned, Interval
    <3> QED BY <3>2, MultipleBounds
  <2>2. CASE checkAlignment(size(s)) /\ (s.start = 0 \/ s.start = r.start)
    <3> DEFINE k == size(s)
    <3>1. k \in Nat /\ k + s.start = s.stop
      BY <1>1 DEF size
    <3>2. checkAlignment(k)
      BY <2>2
    <3> HIDE DEF k
    <3>3. Multiple(k)
      BY <3>1, <3>2, MultipleChecked
    <3>4. Multiple(s.start)
      <4>1. CASE s.start = 0
        BY <4>1, MultipleZero
      <4>2. CASE s.start = r.start
        <5>1. alignedLower(r.start) = s.start
          BY <1>1, <1>3, <4>2
        <5> QED BY <1>1, <5>1, MultipleBounds
      <4> QED BY <2>2, <4>1, <4>2
    <3>5. Multiple(k + s.start)
      BY <3>3, <3>4, MultipleSum
    <3> QED BY <3>1, <3>5
  <2> QED BY <2>1, <2>2
<1>5. alignedUpper(r.stop) <= s.stop
  BY <1>1, <1>4, AlignedWithin
<1> QED BY <1>2, <1>3, <1>5 DEF Within

\* A storage that holds the entries of a pattern.
Holds(b, own) ==
  /\ Pairs(own)
  /\ \/ Matrix2(b) /\ \A y \in own : InMatrix(b, y)
     \/ CscBase(b) /\ own \subseteq Stored(b) /\ \A y \in own : y[2] \in 0 .. b.shape[2] - 1

InShape(s, own) == \A y \in own : y[1] \in 0 .. s[1] - 1 /\ y[2] \in 0 .. s[2] - 1

LEMMA ShapePairs ==
  ASSUME NEW s, IsShape(s), Len(s) = 2, NEW own, own \subseteq (0 .. s[1] - 1) \X (0 .. s[2] - 1)
  PROVE  /\ Pairs(own) /\ InShape(s, own) /\ s[1] \in Nat \ {0} /\ s[2] \in Nat \ {0}
<1> DEFINE i == s[1] - 1
           j == s[2] - 1
           zero == 0
<1>1. s[1] \in Nat \ {0} /\ s[2] \in Nat \ {0}
  BY ShapeLength
<1>2. i \in Int /\ j \in Int /\ zero \in Int /\ own \subseteq (zero .. i) \X (zero .. j)
      /\ (zero .. i) \X (zero .. j) \subseteq Nat \X Nat
  BY <1>1
<1> HIDE DEF i, j, zero
<1>3. IsFiniteSet(zero .. i) /\ IsFiniteSet(zero .. j)
  BY <1>2, FS_Interval
<1>4. IsFiniteSet((zero .. i) \X (zero .. j))
  BY <1>3, FS_Product
<1>5. IsFiniteSet(own)
  BY <1>2, <1>4, FS_Subset
<1>6. Pairs(own)
  BY <1>2, <1>5 DEF Pairs
<1>7. InShape(s, own)
  BY DEF InShape
<1> QED BY <1>1, <1>6, <1>7

LEMMA StoredHas ==
  ASSUME NEW spp, spp \subseteq Nat \X Nat, NEW a \in BOOLEAN
  PROVE  spp \subseteq StoredOf(spp, a)
<1>1. ASSUME NEW x \in spp PROVE x \in Blocks(spp)
  <2> DEFINE l == alignedLower(x[1])
             A == AlignedReals
  <2>1. x[1] \in Nat /\ x = <<x[1], x[2]>>
    OBVIOUS
  <2>2. l \in Nat /\ l <= x[1] /\ x[1] < l + A /\ A \in Nat
    BY <2>1, AlignedNumbers, MultipleBounds, AlignmentAssumption
  <2> HIDE DEF l, A
  <2>3. x[1] \in l .. l + A - 1
    BY <2>1, <2>2
  <2>4. <<x[1], x[2]>> \in {<<r, x[2]>> : r \in l .. l + A - 1}
    BY <2>3
  <2> QED BY <2>1, <2>4 DEF Blocks, l, A
<1> QED BY <1>1 DEF StoredOf

LEMMA SparseHolds ==
  ASSUME NEW s, IsShape(s), Len(s) = 2, NEW spp, IsPattern(spp, s), NEW a \in BOOLEAN
  PROVE  Holds(CSCLayout(s, spp, a), spp)
<1> DEFINE b == CSCLayout(s, spp, a)
<1>1. CscBase(b) /\ b.spp = spp /\ b.aligned = a /\ b.shape = s
  <2>1. b.spp = spp /\ b.aligned = a /\ b.shape = s
    BY DEF CSCLayout
  <2>2. CscBase(b)
    <3>1. IsShape(s) /\ Len(s) = 2 /\ IsPattern(spp, s) /\ b = CSCLayout(s, spp, a)
      OBVIOUS
    <3> HIDE DEF b
    <3> QED BY <3>1 DEF CscBase
  <2> QED BY <2>1, <2>2
<1> HIDE DEF b
<1>2. Pairs(spp) /\ InShape(s, spp)
  BY ShapePairs DEF IsPattern
<1>3. spp \subseteq Stored(b)
  BY <1>1, <1>2, StoredHas DEF Stored, Pairs
<1>4. Holds(b, spp)
  BY <1>1, <1>2, <1>3 DEF Holds, InShape
<1> QED BY <1>4 DEF b

LEMMA LeftHolds ==
  ASSUME NEW b, LeftOk(b)
  PROVE  /\ Holds(b, PatternOf(b)) /\ InShape(b.shape, PatternOf(b))
         /\ b.shape[1] \in Nat \ {0} /\ b.shape[2] \in Nat \ {0}
<1>1. CASE CscBase(b)
  <2>1. PICK s, spp : \E a \in BOOLEAN : IsShape(s) /\ Len(s) = 2 /\ IsPattern(spp, s) /\ b = CSCLayout(s, spp, a)
    BY <1>1 DEF CscBase
  <2>2. PICK a \in BOOLEAN : IsShape(s) /\ Len(s) = 2 /\ IsPattern(spp, s) /\ b = CSCLayout(s, spp, a)
    BY <2>1
  <2>3. b.csc /\ b.spp = spp /\ b.shape = s
    BY <2>2 DEF CSCLayout
  <2>4. PatternOf(b) = spp
    BY <2>3 DEF PatternOf
  <2>5. Holds(b, spp)
    BY <2>2, SparseHolds
  <2>6. InShape(s, spp) /\ s[1] \in Nat \ {0} /\ s[2] \in Nat \ {0}
    BY <2>2, ShapePairs DEF IsPattern
  <2> QED BY <2>3, <2>4, <2>5, <2>6
<1>2. CASE DenseBase(b) /\ StorageFits(b) /\ Len(b.shape) = 2
  <2> DEFINE box == unalignedBox(b)
             s == b.shape
             own == PatternOf(b)
  <2>1. Matrix2(b) /\ b.csc = FALSE /\ IsShape(s) /\ Len(s) = 2
    BY <1>2, MatrixNumbers DEF Matrix2, DenseBase
  <2>2. own = Cells(box)
    BY <2>1 DEF PatternOf, unalignedBox
  <2>3. /\ IsBox(box, 2)
        /\ \A d \in 1 .. 2 : box[d] = IF d = 1 /\ b.range0 # <<>> THEN b.range0[1] ELSE b.bbox[d]
        /\ \A d \in 1 .. 2 : box[d].stop <= s[d]
    BY <1>2, UnalignedBoxOk DEF StorageFits
  <2>4. DOMAIN box = 1 .. 2 /\ \A d \in 1 .. 2 : IsRange(box[d])
    <3> HIDE DEF box
    <3> QED BY <2>3 DEF IsBox
  <2>5. \A d \in 1 .. 2 : Within(box[d], b.bbox[d])
    <3>1. CASE b.range0 # <<>>
      <4>1. PICK r : IsRange(r) /\ b.range0 = <<r>> /\ b.bbox[1] = aligned(r)
        BY <1>2, <3>1 DEF DenseBase
      <4>2. box[1] = r /\ box[2] = b.bbox[2]
        BY <2>3, <3>1, <4>1
      <4>3. Within(r, aligned(r)) /\ Within(b.bbox[2], b.bbox[2])
        BY <2>4, <4>1, <4>2, AlignedRange DEF Within, IsRange
      <4> QED BY <4>1, <4>2, <4>3
    <3>2. CASE b.range0 = <<>>
      <4>1. \A d \in 1 .. 2 : box[d] = b.bbox[d]
        BY <2>3, <3>2
      <4> HIDE DEF box
      <4> QED BY <2>4, <4>1 DEF Within, IsRange
    <3> QED BY <3>1, <3>2
  <2>6. s[1] \in Nat \ {0} /\ s[2] \in Nat \ {0}
    BY <2>1, ShapeLength
  <2> HIDE DEF box, own, s
  <2>7. ASSUME NEW e \in own
        PROVE  /\ InMatrix(b, e) /\ e \in (0 .. s[1] - 1) \X (0 .. s[2] - 1)
    <3>1. e = [d \in 1 .. 2 |-> e[d]] /\ \A d \in 1 .. 2 : e[d] \in Numbers(box[d])
      BY <2>2, <2>4, CellsOf DEF CellOf
    <3>2. e[1] \in Numbers(box[1]) /\ e[2] \in Numbers(box[2])
      BY <3>1
    <3>3. /\ IsRange(box[1]) /\ IsRange(box[2]) /\ box[1].stop <= s[1] /\ box[2].stop <= s[2]
          /\ Within(box[1], b.bbox[1]) /\ Within(box[2], b.bbox[2])
      BY <2>3, <2>4, <2>5
    <3>4. IsRange(b.bbox[1]) /\ IsRange(b.bbox[2])
      BY <2>1, MatrixNumbers
    <3>5. e[1] \in 0 .. s[1] - 1 /\ e[1] \in Numbers(b.bbox[1]) /\ e[1] \in Int
      BY <2>6, <3>2, <3>3, <3>4 DEF Numbers, IsRange, Within
    <3>6. e[2] \in 0 .. s[2] - 1 /\ e[2] \in Numbers(b.bbox[2]) /\ e[2] \in Int
      BY <2>6, <3>2, <3>3, <3>4 DEF Numbers, IsRange, Within
    <3>7. e = <<e[1], e[2]>>
      BY <3>1
    <3> QED
      <4> DEFINE p == e[1]
                 q == e[2]
      <4>1. e = <<p, q>>
        BY <3>7
      <4> HIDE DEF p, q
      <4>2. p \in 0 .. s[1] - 1 /\ q \in 0 .. s[2] - 1 /\ p \in Int /\ q \in Int
        BY <3>5, <3>6 DEF p, q
      <4>3. e \in Int \X Int /\ e \in (0 .. s[1] - 1) \X (0 .. s[2] - 1)
        BY <4>1, <4>2
      <4> QED BY <3>5, <3>6, <4>3 DEF InMatrix
  <2>8. Pairs(own) /\ InShape(s, own)
    BY <2>1, <2>7, ShapePairs DEF s
  <2>9. Holds(b, own)
    BY <2>1, <2>7, <2>8 DEF Holds
  <2> QED BY <2>6, <2>8, <2>9 DEF s, own
<1> QED BY <1>1, <1>2 DEF LeftOk

LEMMA BoxOf ==
  ASSUME NEW s, IsShape(s), NEW box, IsBox(box, Len(s)), NEW a \in BOOLEAN
  PROVE  LET b == DenseLayout(s, box, a)
         IN  /\ DenseBase(b) /\ b.shape = s
             /\ b.bbox = IF a THEN [box EXCEPT ![1] = aligned(@)] ELSE box
             /\ box = [d \in 1 .. Len(s) |-> box[d]] /\ \A d \in 1 .. Len(s) : IsRange(box[d])
<1> DEFINE b == DenseLayout(s, box, a)
<1>1. DenseBase(b)
  BY DenseLayoutOk
<1>2. /\ b.shape = s
      /\ b.bbox = IF a THEN [box EXCEPT ![1] = aligned(@)] ELSE box
      /\ b.range0 = IF a THEN <<box[1]>> ELSE <<>>
  BY DenseLayoutOk
<1> HIDE DEF b
<1> QED BY <1>1, <1>2 DEF b, IsBox

\* The layout of a matrix with a box holds the box.
BoxStored(s, box, b) ==
  Len(s) = 2 => Matrix2(b) /\ b.bbox[2] = box[2] /\ Within(box[1], b.bbox[1])

LEMMA BoxHolds ==
  ASSUME NEW s, IsShape(s), NEW box, IsBox(box, Len(s)), NEW a \in BOOLEAN, NEW b, b = DenseLayout(s, box, a)
  PROVE  BoxStored(s, box, b)
<1> DEFINE n == Len(s)
<1>1. /\ DenseBase(b) /\ b.shape = s
      /\ b.bbox = IF a THEN [box EXCEPT ![1] = aligned(@)] ELSE box
      /\ box = [d \in 1 .. n |-> box[d]] /\ \A d \in 1 .. n : IsRange(box[d])
  BY BoxOf
<1> SUFFICES ASSUME Len(s) = 2
             PROVE  Matrix2(b) /\ b.bbox[2] = box[2] /\ Within(box[1], b.bbox[1])
  BY DEF BoxStored
<1>2. box = [d \in 1 .. 2 |-> box[d]] /\ IsRange(box[1])
  BY <1>1
<1>5. Matrix2(b)
  BY <1>1 DEF Matrix2
<1>3. CASE a
  <2>1. b.bbox[1] = aligned(box[1]) /\ b.bbox[2] = box[2]
    BY <1>1, <1>2, <1>3
  <2> QED BY <1>2, <1>3, <1>5, <2>1, AlignedRange
<1>4. CASE ~ a
  <2>1. b.bbox = box
    BY <1>1, <1>4
  <2>2. Within(box[1], box[1])
    BY <1>2 DEF Within, IsRange
  <2> QED BY <1>4, <1>5, <2>1, <2>2
<1> QED BY <1>3, <1>4

LEMMA RightHolds ==
  ASSUME NEW r \in Rights
  PROVE  /\ RightLayout(r) = Layout(RightLayout(r).base) /\ Holds(RightLayout(r).base, r.spp)
         /\ InShape(r.shape, r.spp) /\ r.trans \in BOOLEAN
         /\ r.shape[1] \in Nat \ {0} /\ r.shape[2] \in Nat \ {0}
<1> DEFINE b == RightLayout(r).base
<1>1. /\ r.shape \in Seq(Nat \ {0}) /\ Len(r.shape) = 2
      /\ r.spp # {} /\ r.spp \subseteq (0 .. r.shape[1] - 1) \X (0 .. r.shape[2] - 1)
      /\ r.csc \in BOOLEAN /\ r.aligned \in BOOLEAN /\ r.trans \in BOOLEAN
  BY RightsAssumption
<1>2. IsShape(r.shape) /\ IsPattern(r.spp, r.shape)
  BY <1>1 DEF IsShape, IsPattern
<1>3. Pairs(r.spp) /\ InShape(r.shape, r.spp) /\ r.shape[1] \in Nat \ {0} /\ r.shape[2] \in Nat \ {0}
  BY <1>1, <1>2, ShapePairs
<1>4. RightLayout(r) = Layout(b)
  BY DEF RightLayout, Layout
<1>5. b = IF r.csc THEN CSCLayout(r.shape, r.spp, r.aligned)
          ELSE DenseLayout(r.shape, BoundingBoxOf(r.spp), r.aligned)
  BY DEF RightLayout, Layout
<1> HIDE DEF b
<1>6. CASE r.csc
  <2>1. Holds(b, r.spp)
    BY <1>1, <1>2, <1>5, <1>6, SparseHolds
  <2> QED BY <1>1, <1>3, <1>4, <2>1 DEF b
<1>7. CASE ~ r.csc
  <2> DEFINE box == BoundingBoxOf(r.spp)
             T == r.spp
             s == r.shape
             a == r.aligned
  <2>1. box = [d \in 1 .. 2 |-> box[d]]
    BY DEF BoundingBoxOf
  <2>2. \A d \in 1 .. 2 : IsRange(box[d]) /\ \A y \in T : y[d] \in Numbers(box[d])
    <3>1. Pairs(T) /\ T # {}
      BY <1>1, <1>3
    <3> QED BY <3>1, BoundsOf
  <2>3. IsShape(s) /\ Len(s) = 2 /\ a \in BOOLEAN /\ b = DenseLayout(s, box, a)
    BY <1>1, <1>2, <1>5, <1>7
  <2> HIDE DEF box, T, s, a
  <2>4. IsBox(box, Len(s))
    BY <2>1, <2>2, <2>3 DEF IsBox
  <2>5. Matrix2(b) /\ b.bbox[2] = box[2] /\ Within(box[1], b.bbox[1])
    <3>1. /\ IsShape(s) /\ IsBox(box, Len(s)) /\ a \in BOOLEAN /\ b = DenseLayout(s, box, a)
      BY <2>3, <2>4
    <3>2. BoxStored(s, box, b)
      BY ONLY <3>1, BoxHolds
    <3> QED BY <2>3, <3>2 DEF BoxStored
  <2>6. IsRange(box[1]) /\ IsRange(b.bbox[1])
    <3>1. IsRange(box[1])
      BY <2>2
    <3>2. IsRange(b.bbox[1])
      BY <2>5, MatrixNumbers
    <3> QED BY <3>1, <3>2
  <2>7. ASSUME NEW y \in T PROVE InMatrix(b, y)
    <3>1. y \in Nat \X Nat
      BY <1>3 DEF Pairs, T
    <3>2. y[1] \in Numbers(box[1]) /\ y[2] \in Numbers(b.bbox[2])
      BY <2>2, <2>5
    <3>3. y[1] \in Numbers(b.bbox[1])
      BY <2>5, <2>6, <3>2 DEF Numbers, IsRange, Within
    <3> QED BY <3>1, <3>2, <3>3 DEF InMatrix
  <2>8. Holds(b, T)
    BY <1>3, <2>5, <2>7 DEF Holds, T
  <2> QED BY <1>1, <1>3, <1>4, <2>8 DEF b, T
<1> QED BY <1>6, <1>7

LEMMA TurnedPairs ==
  ASSUME NEW own, Pairs(own), NEW trans \in BOOLEAN
  PROVE  LET spp == {Turned(e, trans) : e \in own}
         IN  /\ Pairs(spp)
             /\ \A y \in spp : \E e \in own : /\ y = Turned(e, trans)
                                              /\ e[1] = IF trans THEN y[2] ELSE y[1]
                                              /\ e[2] = IF trans THEN y[1] ELSE y[2]
<1> DEFINE f == [e \in own |-> Turned(e, trans)]
           spp == {Turned(e, trans) : e \in own}
<1>1. IsFiniteSet(spp)
  <2>1. spp = {f[e] : e \in own}
    OBVIOUS
  <2> HIDE DEF f, spp
  <2> QED BY <2>1, FiniteImage DEF Pairs
<1>2. \A e \in own : /\ e \in Nat \X Nat /\ Turned(e, trans) \in Nat \X Nat
                     /\ Turned(e, trans)[1] = IF trans THEN e[2] ELSE e[1]
                     /\ Turned(e, trans)[2] = IF trans THEN e[1] ELSE e[2]
  BY TurnedTwice DEF Pairs
<1>3. ASSUME NEW y \in spp
      PROVE  /\ y \in Nat \X Nat
             /\ \E e \in own : /\ y = Turned(e, trans)
                               /\ e[1] = IF trans THEN y[2] ELSE y[1]
                               /\ e[2] = IF trans THEN y[1] ELSE y[2]
  <2>1. PICK e \in own : y = Turned(e, trans)
    OBVIOUS
  <2> QED BY <1>2, <2>1
<1> HIDE DEF spp
<1>4. Pairs(spp)
  BY <1>1, <1>3 DEF Pairs
<1> QED BY <1>3, <1>4 DEF spp

\* The box of a part of an operand can be read.
LEMMA PartReadable ==
  ASSUME NEW b, NEW own, Holds(b, own), NEW trans \in BOOLEAN,
         NEW part, part \subseteq {Turned(e, trans) : e \in own}, part # {},
         NEW r, NEW s, r = BoundingBoxOf(part)[1], s = BoundingBoxOf(part)[2]
  PROVE  /\ Pairs(part)
         /\ Readable(b, own, IF trans THEN s ELSE r, IF trans THEN r ELSE s)
<1> DEFINE spp == {Turned(e, trans) : e \in own}
           x == IF trans THEN 2 ELSE 1
           w == IF trans THEN 1 ELSE 2
           rows == BoundingBoxOf(part)[x]
           cols == BoundingBoxOf(part)[w]
<1>1. /\ Pairs(spp)
      /\ \A y \in spp : \E e \in own : e[1] = (IF trans THEN y[2] ELSE y[1]) /\ e[2] = (IF trans THEN y[1] ELSE y[2])
  BY TurnedPairs DEF Holds
<1>2. Pairs(part)
  BY <1>1, FS_Subset DEF Pairs
<1>3. \A y \in part : \E e \in own : e[1] = y[x] /\ e[2] = y[w]
  <2> HIDE DEF spp
  <2>1. \A y \in part : y \in spp
    BY DEF spp
  <2> QED BY <1>1, <2>1
<1>4. x \in 1 .. 2 /\ w \in 1 .. 2
  OBVIOUS
<1>5. rows = (IF trans THEN s ELSE r) /\ cols = (IF trans THEN r ELSE s)
  OBVIOUS
<1> HIDE DEF x, w
<1>6. IsRange(rows) /\ IsRange(cols)
  BY <1>2, <1>4, BoundsOf
<1> HIDE DEF rows, cols
<1>7. CASE Matrix2(b) /\ \A y \in own : InMatrix(b, y)
  <2>1. /\ b.bbox[1].start \in Int /\ b.bbox[1].stop \in Int
        /\ b.bbox[2].start \in Int /\ b.bbox[2].stop \in Int
    <3>1. IsRange(b.bbox[1]) /\ IsRange(b.bbox[2])
      BY <1>7, MatrixNumbers
    <3> QED BY <3>1 DEF IsRange
  <2>2. \A y \in part : y[x] \in Numbers(b.bbox[1]) /\ y[w] \in Numbers(b.bbox[2])
    BY <1>3, <1>7 DEF InMatrix
  <2>3. Within(rows, b.bbox[1])
    BY <1>2, <1>4, <2>1, <2>2, BoundsWithin DEF rows
  <2>4. Within(cols, b.bbox[2])
    BY <1>2, <1>4, <2>1, <2>2, BoundsWithin DEF cols
  <2>5. Readable(b, own, rows, cols)
    BY <1>6, <1>7, <2>3, <2>4 DEF Readable
  <2> QED BY <1>2, <1>5, <2>5
<1>8. CASE CscBase(b) /\ own \subseteq Stored(b) /\ \A y \in own : y[2] \in 0 .. b.shape[2] - 1
  <2> DEFINE z == Interval(0, b.shape[2])
  <2>1. b.shape[2] \in Nat \ {0}
    BY <1>8, CscOk, ShapeLength
  <2>2. z.start = 0 /\ z.stop = b.shape[2]
    BY DEF Interval
  <2>3. \A y \in part : y[w] \in Numbers(z)
    BY <1>3, <1>8, <2>2 DEF Numbers
  <2>4. z.start \in Int /\ z.stop \in Int
    BY <2>1, <2>2
  <2> HIDE DEF z
  <2>5. Within(cols, z)
    BY <1>2, <1>4, <2>3, <2>4, BoundsWithin DEF cols
  <2>6. cols.start \in 0 .. b.shape[2] /\ cols.stop \in 0 .. b.shape[2]
    BY <1>6, <2>1, <2>2, <2>5 DEF Within, IsRange
  <2>7. Readable(b, own, rows, cols)
    BY <1>6, <1>8, <2>6 DEF Readable
  <2> QED BY <1>2, <1>5, <2>7
<1> QED BY <1>7, <1>8 DEF Holds

\* The parts of the patterns that meet, and what comes of them.
LEMMA MeetingParts ==
  ASSUME NEW sppA, Pairs(sppA), NEW sppB, Pairs(sppB), NEW p, p = Meeting(sppA, sppB), p.C # {}
  PROVE  /\ p.A \subseteq sppA /\ p.A # {} /\ p.B \subseteq sppB /\ p.B # {}
         /\ {x[1] : x \in p.C} = {x[1] : x \in p.A}
         /\ {x[2] : x \in p.C} = {x[2] : x \in p.B}
         /\ {x[2] : x \in p.A} = {x[1] : x \in p.B}
         /\ \A y \in sppA, z \in sppB : y[2] = z[1] => y \in p.A /\ z \in p.B
<1>1. /\ p.A = {x \in sppA : \E y \in sppB : y[1] = x[2]}
      /\ p.B = {y \in sppB : \E x \in sppA : x[2] = y[1]}
      /\ p.C = UNION {{<<x[1], y[2]>> : y \in {y \in sppB : y[1] = x[2]}} : x \in sppA}
  BY DEF Meeting
<1>2. \A e : e \in p.C <=> \E x \in sppA, y \in sppB : y[1] = x[2] /\ e = <<x[1], y[2]>>
  BY <1>1
<1>3. \E x \in sppA, y \in sppB : y[1] = x[2]
  BY <1>2
<1>4. p.A # {} /\ p.B # {}
  BY <1>1, <1>3
<1>5. {x[1] : x \in p.C} = {x[1] : x \in p.A}
  <2>1. ASSUME NEW e \in p.C PROVE \E x \in p.A : x[1] = e[1]
    BY <1>1, <1>2
  <2>2. ASSUME NEW x \in p.A PROVE \E e \in p.C : e[1] = x[1]
    <3>1. PICK y \in sppB : y[1] = x[2]
      BY <1>1
    <3>2. <<x[1], y[2]>> \in p.C
      BY <1>1, <1>2, <3>1
    <3>3. <<x[1], y[2]>>[1] = x[1]
      OBVIOUS
    <3> QED BY <3>2, <3>3
  <2> QED BY <2>1, <2>2
<1>6. {x[2] : x \in p.C} = {x[2] : x \in p.B}
  <2>1. ASSUME NEW e \in p.C PROVE \E x \in p.B : x[2] = e[2]
    BY <1>1, <1>2
  <2>2. ASSUME NEW y \in p.B PROVE \E e \in p.C : e[2] = y[2]
    <3>1. PICK x \in sppA : x[2] = y[1]
      BY <1>1
    <3>2. <<x[1], y[2]>> \in p.C
      BY <1>1, <1>2, <3>1
    <3>3. <<x[1], y[2]>>[2] = y[2]
      OBVIOUS
    <3> QED BY <3>2, <3>3
  <2> QED BY <2>1, <2>2
<1>7. {x[2] : x \in p.A} = {x[1] : x \in p.B}
  <2>1. ASSUME NEW x \in p.A PROVE \E y \in p.B : y[1] = x[2]
    BY <1>1
  <2>2. ASSUME NEW y \in p.B PROVE \E x \in p.A : x[2] = y[1]
    BY <1>1
  <2> QED BY <2>1, <2>2
<1>8. \A y \in sppA, z \in sppB : y[2] = z[1] => y \in p.A /\ z \in p.B
  BY <1>1
<1> QED BY <1>1, <1>4, <1>5, <1>6, <1>7, <1>8

\* The ranges of the parts that meet are those of the result.
RangesMeet(p, r, k, n) ==
  /\ IsRange(r) /\ IsRange(k) /\ IsRange(n)
  /\ BoundingBoxOf(p.B)[1] = k /\ Meet(k, BoundingBoxOf(p.B)[1]) = k
  /\ BoundingBoxOf(p.C)[1] = r /\ BoundingBoxOf(p.C)[2] = n
  /\ BoundingBoxOf(p.C) = [d \in 1 .. 2 |-> BoundingBoxOf(p.C)[d]]
  /\ \A y \in p.A : y[1] \in Numbers(r) /\ y[2] \in Numbers(k)
  /\ \A z \in p.B : z[2] \in Numbers(n)

\* Their boxes: the ranges of the product.
LEMMA MeetingBoxes ==
  ASSUME NEW sppA, Pairs(sppA), NEW sppB, Pairs(sppB), NEW p, p = Meeting(sppA, sppB), p.C # {},
         NEW r, r = BoundingBoxOf(p.A)[1], NEW k, k = BoundingBoxOf(p.A)[2], NEW n, n = BoundingBoxOf(p.B)[2]
  PROVE  RangesMeet(p, r, k, n)
<1> DEFINE S == p.A
           T == p.B
           U == p.C
<1>1. /\ S \subseteq sppA /\ S # {} /\ T \subseteq sppB /\ T # {}
      /\ {x[1] : x \in U} = {x[1] : x \in S} /\ {x[2] : x \in U} = {x[2] : x \in T}
      /\ {x[2] : x \in S} = {x[1] : x \in T}
  BY MeetingParts
<1>2. r = BoundingBoxOf(S)[1] /\ k = BoundingBoxOf(S)[2] /\ n = BoundingBoxOf(T)[2]
  OBVIOUS
<1> HIDE DEF S, T, U
<1>3. Pairs(S) /\ Pairs(T)
  BY <1>1, FS_Subset DEF Pairs
<1>4. /\ IsRange(r) /\ \A y \in S : y[1] \in Numbers(r)
      /\ IsRange(k) /\ \A y \in S : y[2] \in Numbers(k)
      /\ IsRange(n) /\ \A y \in T : y[2] \in Numbers(n)
  BY <1>1, <1>2, <1>3, BoundsOf
<1>5. BoundingBoxOf(T)[1] = k
  <2>1. {x[1] : x \in T} = {x[2] : x \in S}
    BY <1>1
  <2>2. BoundingBoxOf(T)[1] = BoundingBoxOf(S)[2]
    BY ONLY <2>1 DEF BoundingBoxOf
  <2> QED BY <1>2, <2>2
<1>6. BoundingBoxOf(U)[1] = r
  <2>1. {x[1] : x \in U} = {x[1] : x \in S}
    BY <1>1
  <2>2. BoundingBoxOf(U)[1] = BoundingBoxOf(S)[1]
    BY ONLY <2>1 DEF BoundingBoxOf
  <2> QED BY <1>2, <2>2
<1>7. BoundingBoxOf(U)[2] = n
  <2>1. {x[2] : x \in U} = {x[2] : x \in T}
    BY <1>1
  <2>2. BoundingBoxOf(U)[2] = BoundingBoxOf(T)[2]
    BY ONLY <2>1 DEF BoundingBoxOf
  <2> QED BY <1>2, <2>2
<1>8. BoundingBoxOf(U) = [d \in 1 .. 2 |-> BoundingBoxOf(U)[d]]
  BY DEF BoundingBoxOf
<1>9. Meet(k, k) = k
  <2>1. Max({k.start, k.start}) = k.start /\ Min({k.stop, k.stop}) = k.stop
    <3>1. k.start \in Nat /\ k.stop \in Nat
      BY <1>4 DEF IsRange
    <3> QED BY <3>1 DEF Max, Min
  <2> QED BY <1>4, <2>1 DEF Meet, IsRange
<1> QED BY <1>4, <1>5, <1>6, <1>7, <1>8, <1>9 DEF S, T, U, RangesMeet

LEMMA PlainBox ==
  ASSUME NEW b, Matrix2(b)
  PROVE  bboxOf(Layout(b))[1] = b.bbox[1] /\ bboxOf(Layout(b))[2] = b.bbox[2]
<1> DEFINE lay == Layout(b)
           V == lay.views
<1>1. V = <<>> /\ Len(V) = 0 /\ lay.base = b
  BY DEF Layout
<1> HIDE DEF lay, V
<1>2. BoxViews(V, 2)
  BY <1>1 DEF BoxViews
<1>3. b.bbox \in BoxSet(2)
  <2>1. /\ IsRange(b.bbox[1]) /\ IsRange(b.bbox[2]) /\ b.bbox = [d \in 1 .. 2 |-> b.bbox[d]]
    BY MatrixNumbers
  <2>2. \A d \in 1 .. 2 : b.bbox[d] \in [start : Int, stop : Int]
    BY <2>1 DEF IsRange, Interval
  <2> QED BY <2>1, <2>2 DEF BoxSet
<1>4. MovesBox(lay.views, 2, 1 .. Len(lay.views), lay.base.bbox, bboxOf(lay))
  BY <1>1, <1>2, <1>3, BboxOfOk DEF V
<1>5. \A d \in 1 .. 2 : bboxOf(lay)[d] = b.bbox[d]
  BY <1>1, <1>4 DEF MovesBox, V
<1> QED BY <1>5 DEF lay

\* The rows of a part of an operand, extended to whole vectors.
LEMMA LeftReadable ==
  ASSUME NEW base, LeftOk(base), NEW trans \in BOOLEAN, NEW own, own = PatternOf(base),
         NEW sppA, sppA = {Turned(e, trans) : e \in own}, NEW sppB, Pairs(sppB),
         NEW p, p = Meeting(sppA, sppB), p.C # {},
         NEW r, r = BoundingBoxOf(p.A)[1], NEW k, k = BoundingBoxOf(p.A)[2],
         NEW m, m = r \/ (~ trans /\ alignedStride(Layout(base)) /\ m = aligned(r)),
         Matrix2(base) => m.start \in Numbers(base.bbox[1]) \/ m = r
  PROVE  Readable(base, own, IF trans THEN k ELSE m, IF trans THEN m ELSE k)
<1>1. Holds(base, own)
  BY LeftHolds
<1>2. Pairs(sppA)
  BY <1>1, TurnedPairs DEF Holds
<1>3. p.A \subseteq sppA /\ p.A # {}
  BY <1>2, MeetingParts
<1>4. Readable(base, own, IF trans THEN k ELSE r, IF trans THEN r ELSE k)
  <2>1. p.A \subseteq {Turned(e, trans) : e \in own}
    BY <1>3
  <2> QED BY <1>1, <1>3, <2>1, PartReadable
<1>5. IsRange(r) /\ IsRange(k) /\ \A y \in p.A : y[1] \in Numbers(r)
  <2> DEFINE S == p.A
  <2>1. Pairs(S) /\ S # {}
    BY <1>2, <1>3, FS_Subset DEF Pairs
  <2>2. r = BoundingBoxOf(S)[1] /\ k = BoundingBoxOf(S)[2]
    OBVIOUS
  <2> HIDE DEF S
  <2>3. IsRange(r) /\ \A y \in S : y[1] \in Numbers(r)
    BY ONLY <2>1, <2>2, BoundsOf
  <2>4. IsRange(k)
    BY ONLY <2>1, <2>2, BoundsOf
  <2> QED BY <2>3, <2>4 DEF S
<1>6. CASE m = r
  BY <1>4, <1>6
<1>7. CASE m # r
  <2>1. trans = FALSE /\ alignedStride(Layout(base)) /\ m = aligned(r)
    BY <1>7
  <2>2. IsRange(m)
    BY <1>5, <2>1, AlignedRange
  <2>3. Readable(base, own, r, k)
    BY <1>4, <2>1
  <2>4. CASE CscBase(base) /\ own \subseteq Stored(base)
                /\ k.start \in 0 .. base.shape[2] /\ k.stop \in 0 .. base.shape[2]
    <3>1. Readable(base, own, m, k)
      BY <1>5, <2>2, <2>4 DEF Readable
    <3> QED BY <2>1, <3>1
  <2>5. CASE Matrix2(base) /\ Within(r, base.bbox[1]) /\ Within(k, base.bbox[2])
               /\ \A y \in own : InMatrix(base, y)
    <3> DEFINE s == base.bbox[1]
    <3>1. IsRange(s) /\ base.csc = FALSE
      BY <2>5, MatrixNumbers
    <3>2. m.start \in Numbers(s)
      BY <1>7, <2>5
    <3>3. checkAlignment(size(s))
      BY <2>1, <3>1 DEF alignedStride, Layout
    <3>4. base.range0 # <<>> => \E t : IsRange(t) /\ s = aligned(t)
      BY <2>5 DEF Matrix2, DenseBase
    <3>5. base.range0 = <<>> => s.start = r.start
      <4> SUFFICES ASSUME base.range0 = <<>>
                   PROVE  s.start = r.start
        OBVIOUS
      <4>1. own = Cells(base.bbox)
        BY <3>1 DEF PatternOf
      <4>2. DOMAIN base.bbox = 1 .. 2
        BY <2>5, MatrixNumbers
      <4>3. PICK x \in p.A : TRUE
        BY <1>3
      <4>4. \E y \in sppB : y[1] = x[2]
        BY <4>3 DEF Meeting
      <4>5. sppA = own
        <5>1. \A e \in own : Turned(e, trans) = e
          BY <2>1 DEF Turned
        <5> QED BY <5>1
      <4>6. CellOf(2, x) /\ \A d \in 1 .. 2 : x[d] \in Numbers(base.bbox[d])
        BY <1>3, <4>1, <4>2, <4>5, CellsOf
      <4> DEFINE f == [d \in 1 .. 2 |-> IF d = 1 THEN s.start ELSE x[2]]
      <4>7. f \in Cells(base.bbox)
        <5>1. CellOf(2, f)
          BY DEF CellOf
        <5>2. s.start \in Numbers(s)
          BY <3>1 DEF IsRange, Numbers
        <5>3. \A d \in 1 .. 2 : f[d] \in Numbers(base.bbox[d])
          BY <4>6, <5>2
        <5> HIDE DEF f
        <5> QED BY <4>2, <5>1, <5>3, CellsOf
      <4>8. f[1] = s.start /\ f[2] = x[2]
        OBVIOUS
      <4> HIDE DEF f
      <4>9. f \in p.A
        <5>1. f \in sppA
          BY <4>1, <4>5, <4>7
        <5> QED BY <4>4, <4>8, <5>1 DEF Meeting
      <4>10. s.start \in Numbers(r)
        <5> QED BY <1>5, <4>8, <4>9
      <4> QED BY <1>5, <2>5, <3>1, <4>10 DEF IsRange, Within, Numbers
    <3> HIDE DEF s
    <3>6. Within(m, s)
      <4>1. Within(r, s)
        BY <2>5 DEF s
      <4>2. \/ \E t : IsRange(t) /\ s = aligned(t)
            \/ checkAlignment(size(s)) /\ (s.start = 0 \/ s.start = r.start)
        BY <3>3, <3>4, <3>5
      <4> QED BY <1>5, <2>1, <3>1, <3>2, <4>1, <4>2, ExtendedWithin
    <3>7. Readable(base, own, m, k)
      BY <1>5, <2>2, <2>5, <3>6 DEF Readable, s
    <3> QED BY <2>1, <3>7
  <2> QED BY <2>3, <2>4, <2>5 DEF Readable
<1> DEFINE rows == IF trans THEN k ELSE m
           cols == IF trans THEN m ELSE k
<1>8. Readable(base, own, rows, cols)
  <2>1. m = r => Readable(base, own, rows, cols)
    BY <1>6
  <2>2. m # r => Readable(base, own, rows, cols)
    BY <1>7
  <2> HIDE DEF rows, cols
  <2> QED BY ONLY <2>1, <2>2
<1> QED BY <1>8

\* The result holds the entries of the ranges of the product, extended or not.
LEMMA ResultHolds ==
  ASSUME NEW s, IsShape(s), Len(s) = 2, NEW r, IsRange(r), NEW n, IsRange(n),
         NEW box, IsBox(box, Len(s)), Within(r, box[1]), Within(n, box[2]),
         box[1].start = 0 \/ box[1].start = r.start,
         NEW a \in BOOLEAN, NEW b, b = DenseLayout(s, box, a),
         NEW m, m = r \/ (alignedStride(Layout(b)) /\ m = aligned(r)), m.start \in Numbers(b.bbox[1])
  PROVE  /\ Matrix2(b) /\ IsRange(m)
         /\ \A i \in Numbers(m), j \in Numbers(n) : InMatrix(b, <<i, j>>)
<1>0. IsShape(s) /\ IsBox(box, Len(s)) /\ a \in BOOLEAN /\ b = DenseLayout(s, box, a)
  OBVIOUS
<1>1. Matrix2(b) /\ b.bbox[2] = box[2] /\ Within(box[1], b.bbox[1])
  <2>1. BoxStored(s, box, b)
    BY ONLY <1>0, BoxHolds
  <2> QED BY <2>1 DEF BoxStored
<1>2. /\ b.bbox = IF a THEN [box EXCEPT ![1] = aligned(@)] ELSE box
      /\ box = [d \in 1 .. 2 |-> box[d]] /\ IsRange(box[1]) /\ IsRange(box[2])
  <2> DEFINE n2 == Len(s)
  <2>1. /\ b.bbox = IF a THEN [box EXCEPT ![1] = aligned(@)] ELSE box
        /\ box = [d \in 1 .. n2 |-> box[d]] /\ \A d \in 1 .. n2 : IsRange(box[d])
    BY ONLY <1>0, BoxOf
  <2>2. n2 = 2
    OBVIOUS
  <2> HIDE DEF n2
  <2>3. IsRange(box[1]) /\ IsRange(box[2])
    BY <2>1, <2>2
  <2> QED BY <2>1, <2>2, <2>3
<1> DEFINE t == b.bbox[1]
           u == b.bbox[2]
<1>3. IsRange(t) /\ IsRange(u) /\ b.csc = FALSE
  BY <1>1, MatrixNumbers
<1>4. Within(r, t)
  BY <1>1, <1>2, <1>3 DEF Within, IsRange
<1>5. Within(n, u)
  BY <1>1
<1>6. IsRange(m) /\ Within(m, t)
  <2>1. CASE m = r
    BY <1>4, <2>1
  <2>2. CASE alignedStride(Layout(b)) /\ m = aligned(r)
    <3>1. checkAlignment(size(t))
      BY <1>3, <2>2 DEF alignedStride, Layout
    <3>2. (\E v : IsRange(v) /\ t = aligned(v)) \/ t.start = 0 \/ t.start = r.start
      <4>1. CASE a
        <5>1. t = aligned(box[1])
          BY <1>2, <4>1
        <5> QED BY <1>2, <5>1
      <4>2. CASE ~ a
        <5>1. t = box[1]
          BY <1>2, <4>2
        <5> QED BY <5>1
      <4> QED BY <4>1, <4>2
    <3>3. aligned(r).start \in Numbers(t)
      BY <2>2
    <3> HIDE DEF t
    <3>4. Within(aligned(r), t)
      BY <1>3, <1>4, <3>1, <3>2, <3>3, ExtendedWithin
    <3>5. IsRange(aligned(r))
      BY AlignedRange
    <3> QED BY <2>2, <3>4, <3>5
  <2> QED BY <2>1, <2>2
<1> HIDE DEF t, u
<1>7. ASSUME NEW i \in Numbers(m), NEW j \in Numbers(n)
      PROVE  i \in Int /\ j \in Int /\ i \in Numbers(t) /\ j \in Numbers(u)
  BY <1>3, <1>5, <1>6 DEF IsRange, Within, Numbers
<1>8. ASSUME NEW i \in Numbers(m), NEW j \in Numbers(n)
      PROVE  InMatrix(b, <<i, j>>)
  BY <1>7 DEF InMatrix, t, u
<1> QED BY <1>1, <1>6, <1>8

LEMMA TurnedInShape ==
  ASSUME NEW s, NEW own, Pairs(own), InShape(s, own), NEW trans \in BOOLEAN,
         NEW y \in {Turned(e, trans) : e \in own}
  PROVE  /\ y[1] \in 0 .. Turned(s, trans)[1] - 1
         /\ y[2] \in 0 .. Turned(s, trans)[2] - 1
<1>1. PICK e \in own : /\ e[1] = IF trans THEN y[2] ELSE y[1]
                       /\ e[2] = IF trans THEN y[1] ELSE y[2]
  BY TurnedPairs
<1>2. e[1] \in 0 .. s[1] - 1 /\ e[2] \in 0 .. s[2] - 1
  BY DEF InShape
<1>3. CASE trans
  <2>1. Turned(s, trans)[1] = s[2] /\ Turned(s, trans)[2] = s[1]
    BY <1>3 DEF Turned
  <2> QED BY <1>1, <1>2, <1>3, <2>1
<1>4. CASE ~ trans
  <2>1. Turned(s, trans) = s
    BY <1>4 DEF Turned
  <2> QED BY <1>1, <1>2, <1>4, <2>1
<1> QED BY <1>3, <1>4

\* The box that a result is stored in, and what it has to take.
ResultBoxOf(s, whole, p) == IF whole THEN [i \in 1 .. 2 |-> Interval(0, s[i])] ELSE BoundingBoxOf(p.C)
BoxTakes(s, box, r, n) ==
  /\ IsShape(s) /\ Len(s) = 2 /\ IsBox(box, Len(s))
  /\ Within(r, box[1]) /\ Within(n, box[2])
  /\ box[1].start = 0 \/ box[1].start = r.start

\* The box of a result holds the ranges of the product.
LEMMA ResultBox ==
  ASSUME NEW x \in Nat \ {0}, NEW y \in Nat \ {0}, NEW s, s = <<x, y>>,
         NEW sppA, Pairs(sppA), NEW sppB, Pairs(sppB), NEW p, p = Meeting(sppA, sppB), p.C # {},
         \A e \in sppA : e[1] \in 0 .. x - 1, \A e \in sppB : e[2] \in 0 .. y - 1,
         NEW r, r = BoundingBoxOf(p.A)[1], NEW n, n = BoundingBoxOf(p.B)[2],
         NEW whole \in BOOLEAN,
         NEW box, box = ResultBoxOf(s, whole, p)
  PROVE  BoxTakes(s, box, r, n)
<1>1. IsShape(s) /\ Len(s) = 2 /\ s[1] = x /\ s[2] = y
  <2>1. s \in Seq(Nat \ {0}) /\ s # <<>> /\ Len(s) = 2 /\ s[1] = x /\ s[2] = y
    OBVIOUS
  <2> QED BY <2>1 DEF IsShape
<1> DEFINE S == p.A
           T == p.B
           U == p.C
           k == BoundingBoxOf(S)[2]
<1>2. S \subseteq sppA /\ S # {} /\ T \subseteq sppB /\ T # {}
  BY MeetingParts
<1>3. /\ Pairs(sppA) /\ Pairs(sppB) /\ p = Meeting(sppA, sppB) /\ U # {}
      /\ r = BoundingBoxOf(S)[1] /\ k = BoundingBoxOf(S)[2] /\ n = BoundingBoxOf(T)[2]
  OBVIOUS
<1> HIDE DEF k
<1>4. /\ IsRange(r) /\ IsRange(n)
      /\ BoundingBoxOf(U)[1] = r /\ BoundingBoxOf(U)[2] = n
      /\ BoundingBoxOf(U) = [d \in 1 .. 2 |-> BoundingBoxOf(U)[d]]
  <2>1. /\ Pairs(sppA) /\ Pairs(sppB) /\ p = Meeting(sppA, sppB) /\ p.C # {}
        /\ r = BoundingBoxOf(p.A)[1] /\ k = BoundingBoxOf(p.A)[2] /\ n = BoundingBoxOf(p.B)[2]
    BY <1>3
  <2>2. RangesMeet(p, r, k, n)
    BY ONLY <2>1, MeetingBoxes
  <2> QED BY <2>2 DEF RangesMeet
<1> HIDE DEF S, T, U
<1>5. CASE whole
  <2> DEFINE i == Interval(0, x)
             j == Interval(0, y)
  <2>1. box = [d \in 1 .. 2 |-> box[d]] /\ box[1] = i /\ box[2] = j
    BY <1>1, <1>5 DEF ResultBoxOf
  <2>2. IsRange(i) /\ IsRange(j) /\ i.start = 0
    BY DEF IsRange, Interval
  <2>3. Pairs(S) /\ Pairs(T)
    BY <1>2, FS_Subset DEF Pairs
  <2>4. i.start \in Int /\ i.stop \in Int /\ j.start \in Int /\ j.stop \in Int
    BY <2>2 DEF IsRange
  <2>5. \A e \in S : e[1] \in Numbers(i)
    BY <1>2 DEF Interval, Numbers
  <2>6. \A e \in T : e[2] \in Numbers(j)
    BY <1>2 DEF Interval, Numbers
  <2> HIDE DEF i, j
  <2>7. Within(r, i)
    BY <1>2, <1>3, <2>3, <2>4, <2>5, BoundsWithin
  <2>8. Within(n, j)
    BY <1>2, <1>3, <2>3, <2>4, <2>6, BoundsWithin
  <2>9. IsBox(box, 2)
    BY <2>1, <2>2 DEF IsBox
  <2> QED BY <1>1, <2>1, <2>2, <2>7, <2>8, <2>9 DEF BoxTakes
<1>6. CASE ~ whole
  <2>1. box = BoundingBoxOf(U)
    BY <1>6 DEF U, ResultBoxOf
  <2>2. box = [d \in 1 .. 2 |-> box[d]] /\ box[1] = r /\ box[2] = n
    BY <1>4, <2>1
  <2>3. IsBox(box, 2)
    BY <1>4, <2>2 DEF IsBox
  <2>4. Within(r, r) /\ Within(n, n)
    BY <1>4 DEF IsRange, Within
  <2> QED BY <1>1, <2>2, <2>3, <2>4 DEF BoxTakes
<1> QED BY <1>5, <1>6

\* A call that is made of a layout and can be generated.
LEMMA ReadyCall ==
  ASSUME NEW base, LeftOk(base), NEW r \in Rights, NEW transA \in BOOLEAN, NEW whole \in BOOLEAN,
         NEW alignC \in BOOLEAN, NEW g, Made(g, base, r, transA, whole, alignC), ~ g.raised
  PROVE  CallReady(g.descr, g.sppA, g.sppB)
<1> DEFINE own == PatternOf(base)
           sppA == {Turned(e, transA) : e \in own}
           sppB == {Turned(e, r.trans) : e \in r.spp}
           p == Meeting(sppA, sppB)
           x == Turned(base.shape, transA)[1]
           y == Turned(r.shape, r.trans)[2]
           s == <<x, y>>
           box == IF whole THEN [i \in 1 .. 2 |-> Interval(0, s[i])] ELSE BoundingBoxOf(p.C)
           bB == RightLayout(r).base
           bC == DenseLayout(s, box, alignC)
           R == BoundingBoxOf(p.A)[1]
           K == BoundingBoxOf(p.A)[2]
           N == BoundingBoxOf(p.B)[2]
           d == Description(Layout(base), transA, RightLayout(r), r.trans, Layout(bC), p)
<1>1. p.C # {} /\ g.descr = d /\ g.sppA = sppA /\ g.sppB = sppB /\ ~ Raises(d)
  BY DEF Made
<1>2. /\ Holds(base, own) /\ InShape(base.shape, own)
      /\ base.shape[1] \in Nat \ {0} /\ base.shape[2] \in Nat \ {0}
  BY LeftHolds
<1>3. /\ RightLayout(r) = Layout(bB) /\ Holds(bB, r.spp) /\ InShape(r.shape, r.spp) /\ r.trans \in BOOLEAN
      /\ r.shape[1] \in Nat \ {0} /\ r.shape[2] \in Nat \ {0}
  BY RightHolds
<1>4. Pairs(own) /\ Pairs(r.spp)
  BY <1>2, <1>3 DEF Holds
<1>5. Pairs(sppA) /\ Pairs(sppB)
  BY <1>3, <1>4, TurnedPairs
<1>6. x \in Nat \ {0} /\ y \in Nat \ {0}
  BY <1>2, <1>3 DEF Turned
<1>7. (\A e \in sppA : e[1] \in 0 .. x - 1) /\ (\A e \in sppB : e[2] \in 0 .. y - 1)
  <2>1. ASSUME NEW e \in sppA PROVE e[1] \in 0 .. x - 1
    BY <1>2, <1>4, TurnedInShape
  <2>2. ASSUME NEW e \in sppB PROVE e[2] \in 0 .. y - 1
    BY <1>3, <1>4, TurnedInShape
  <2> QED BY <2>1, <2>2
<1>91. p.C # {}
  BY <1>1
<1>8. /\ d.A = Layout(base) /\ d.transA = transA /\ d.B = RightLayout(r) /\ d.transB = r.trans
      /\ d.C = Layout(bC) /\ d.n = N /\ d.k = Meet(K, BoundingBoxOf(p.B)[1])
      /\ \/ d.m = R
         \/ ~ transA /\ alignedStride(Layout(base)) /\ alignedStride(Layout(bC)) /\ d.m = aligned(R)
  BY DEF Description, Alignment
<1>9. /\ sppA = {Turned(e, transA) : e \in own} /\ sppB = {Turned(e, r.trans) : e \in r.spp}
      /\ p = Meeting(sppA, sppB) /\ R = BoundingBoxOf(p.A)[1] /\ K = BoundingBoxOf(p.A)[2]
      /\ N = BoundingBoxOf(p.B)[2] /\ s = <<x, y>> /\ bC = DenseLayout(s, box, alignC)
      /\ box = (IF whole THEN [i \in 1 .. 2 |-> Interval(0, s[i])] ELSE BoundingBoxOf(p.C))
      /\ own = PatternOf(base)
  OBVIOUS
<1>92. box = ResultBoxOf(s, whole, p)
  BY DEF ResultBoxOf
<1> HIDE DEF own, sppA, sppB, p, x, y, s, box, bB, bC, R, K, N, d
<1>10. /\ IsRange(R) /\ IsRange(K) /\ IsRange(N)
       /\ BoundingBoxOf(p.B)[1] = K /\ Meet(K, BoundingBoxOf(p.B)[1]) = K
       /\ \A e \in p.A : e[1] \in Numbers(R) /\ e[2] \in Numbers(K)
       /\ \A e \in p.B : e[2] \in Numbers(N)
  <2>1. /\ Pairs(sppA) /\ Pairs(sppB) /\ p = Meeting(sppA, sppB) /\ p.C # {}
        /\ R = BoundingBoxOf(p.A)[1] /\ K = BoundingBoxOf(p.A)[2] /\ N = BoundingBoxOf(p.B)[2]
    BY <1>5, <1>9, <1>91
  <2>2. RangesMeet(p, R, K, N)
    BY ONLY <2>1, MeetingBoxes
  <2> QED BY <2>2 DEF RangesMeet
<1>11. /\ p.A \subseteq sppA /\ p.A # {} /\ p.B \subseteq sppB /\ p.B # {}
       /\ \A e \in sppA, f \in sppB : e[2] = f[1] => e \in p.A /\ f \in p.B
  <2>1. Pairs(sppA) /\ Pairs(sppB) /\ p = Meeting(sppA, sppB) /\ p.C # {}
    BY <1>5, <1>9, <1>91
  <2> QED BY ONLY <2>1, MeetingParts
<1>12. /\ IsShape(s) /\ Len(s) = 2 /\ IsBox(box, Len(s))
       /\ Within(R, box[1]) /\ Within(N, box[2])
       /\ box[1].start = 0 \/ box[1].start = R.start
  <2>1. /\ x \in Nat \ {0} /\ y \in Nat \ {0} /\ s = <<x, y>>
        /\ Pairs(sppA) /\ Pairs(sppB) /\ p = Meeting(sppA, sppB) /\ p.C # {}
        /\ (\A e \in sppA : e[1] \in 0 .. x - 1) /\ (\A e \in sppB : e[2] \in 0 .. y - 1)
        /\ R = BoundingBoxOf(p.A)[1] /\ N = BoundingBoxOf(p.B)[2] /\ whole \in BOOLEAN
        /\ box = ResultBoxOf(s, whole, p)
    BY <1>5, <1>6, <1>7, <1>9, <1>91, <1>92
  <2>2. BoxTakes(s, box, R, N)
    BY ONLY <2>1, ResultBox
  <2> QED BY <2>2 DEF BoxTakes
<1> DEFINE m == d.m
<1>13. d.k = K
  BY <1>8, <1>10
<1>14. m.start \in Numbers(bC.bbox[1])
  <2>1. Matrix2(bC)
    <3>1. IsShape(s) /\ IsBox(box, Len(s)) /\ alignC \in BOOLEAN /\ bC = DenseLayout(s, box, alignC)
      BY <1>9, <1>12
    <3>2. BoxStored(s, box, bC)
      BY ONLY <3>1, BoxHolds
    <3> QED BY <1>12, <3>2 DEF BoxStored
  <2>2. ~ OffsetRaises(d.C, <<d.m.start, d.n.start>>)
    BY <1>1 DEF Raises
  <2>3. <<d.m.start, d.n.start>>[1] \in Numbers(bboxOf(d.C)[1])
    BY <2>2 DEF OffsetRaises
  <2> QED BY <1>8, <2>1, <2>3, PlainBox
<1>15. Matrix2(base) => m.start \in Numbers(base.bbox[1]) \/ m = R
  <2> SUFFICES ASSUME Matrix2(base), m # R
               PROVE  m.start \in Numbers(base.bbox[1])
    OBVIOUS
  <2>1. transA = FALSE
    BY <1>8
  <2>2. Start(d.m, d.k, d.transA)[1] = m.start
    BY <1>8, <2>1 DEF Start, Turned
  <2>3. ~ OffsetRaises(d.A, Start(d.m, d.k, d.transA))
    BY <1>1 DEF Raises
  <2>4. Start(d.m, d.k, d.transA)[1] \in Numbers(bboxOf(d.A)[1])
    BY <2>3 DEF OffsetRaises
  <2> QED BY <1>8, <2>2, <2>4, PlainBox
<1>16. m = R \/ (~ transA /\ alignedStride(Layout(base)) /\ m = aligned(R))
  BY <1>8
<1>17. m = R \/ (alignedStride(Layout(bC)) /\ m = aligned(R))
  BY <1>8
<1> HIDE DEF m
<1>18. OperandRight(LeftReads(d), d.A, sppA, d.m, d.k, d.transA)
  <2>1. Readable(base, own, IF transA THEN K ELSE m, IF transA THEN m ELSE K)
    BY <1>1, <1>5, <1>9, <1>15, <1>16, LeftReadable
  <2>2. OperandRight(Operand(Layout(base), m, K, transA), Layout(base), sppA, m, K, transA)
    BY <1>9, <2>1, OperandReads
  <2> QED BY <1>8, <1>13, <2>2 DEF LeftReads, m
<1>19. OperandRight(RightReads(d), d.B, sppB, d.k, d.n, d.transB)
  <2> DEFINE trans == r.trans
             T == p.B
             spp == r.spp
  <2>1. /\ Holds(bB, spp) /\ trans \in BOOLEAN /\ T \subseteq {Turned(e, trans) : e \in spp} /\ T # {}
        /\ K = BoundingBoxOf(T)[1] /\ N = BoundingBoxOf(T)[2]
    BY <1>3, <1>9, <1>10, <1>11
  <2>2. sppB = {Turned(e, trans) : e \in spp}
    BY <1>9
  <2> HIDE DEF trans, T, spp
  <2>3. Readable(bB, spp, IF trans THEN N ELSE K, IF trans THEN K ELSE N)
    BY ONLY <2>1, PartReadable
  <2>4. OperandRight(Operand(Layout(bB), K, N, trans), Layout(bB), sppB, K, N, trans)
    BY <2>1, <2>2, <2>3, OperandReads
  <2> QED BY <1>3, <1>8, <1>13, <2>4 DEF RightReads, trans
<1>20. /\ Matrix2(bC) /\ IsRange(m)
       /\ \A i \in Numbers(m), j \in Numbers(N) : InMatrix(bC, <<i, j>>)
  <2>1. /\ IsShape(s) /\ Len(s) = 2 /\ IsRange(R) /\ IsRange(N) /\ IsBox(box, Len(s))
        /\ Within(R, box[1]) /\ Within(N, box[2])
        /\ box[1].start = 0 \/ box[1].start = R.start
        /\ alignC \in BOOLEAN /\ bC = DenseLayout(s, box, alignC)
        /\ m = R \/ (alignedStride(Layout(bC)) /\ m = aligned(R))
        /\ m.start \in Numbers(bC.bbox[1])
    BY <1>9, <1>10, <1>12, <1>14, <1>17
  <2> QED BY ONLY <2>1, ResultHolds
<1>21. ASSUME NEW e \in sppA, NEW f \in sppB, e[2] = f[1]
       PROVE  e[1] \in Numbers(d.m) /\ e[2] \in Numbers(d.k) /\ f[2] \in Numbers(d.n)
  <2>1. e[1] \in Numbers(R) /\ e[2] \in Numbers(K) /\ f[2] \in Numbers(N)
    BY <1>10, <1>11, <1>21
  <2>2. e[1] \in Numbers(m)
    <3>1. Within(R, m) /\ IsRange(m)
      <4>1. Within(R, R)
        BY <1>10 DEF IsRange, Within
      <4> QED BY <1>10, <1>17, <1>20, <4>1, AlignedRange
    <3> QED BY <1>10, <2>1, <3>1 DEF Numbers, Within, IsRange
  <2> QED BY <1>8, <1>13, <2>1, <2>2 DEF m
<1>22. d.C.base = bC
  BY <1>8 DEF Layout
<1>23. CallReady(d, sppA, sppB)
  BY <1>8, <1>10, <1>13, <1>18, <1>19, <1>20, <1>21, <1>22 DEF CallReady, m
<1> QED BY <1>1, <1>23

\* The reals of an operand are stored where its nonzeros are.
LEMMA RealsStored ==
  ASSUME NEW lay, NEW spp, Pairs(spp), NEW trans, NEW weight \in Nat
  PROVE  StoredReals(Reals(lay, spp, trans, weight), lay, spp, trans)
<1> DEFINE X == {address(lay, Turned(e, trans)) : e \in spp}
           from(x) == CHOOSE e \in spp : address(lay, Turned(e, trans)) = x
           reals == Reals(lay, spp, trans, weight)
<1>1. reals = [x \in X |-> 1 + from(x)[1] + weight * from(x)[2]]
  BY DEF Reals
<1>2. ASSUME NEW x \in X PROVE from(x) \in spp
  OBVIOUS
<1>3. ASSUME NEW x \in X PROVE reals[x] \in Nat
  <2> DEFINE e == from(x)
  <2>1. e[1] \in Nat /\ e[2] \in Nat
    BY <1>2 DEF Pairs
  <2>2. reals[x] = 1 + e[1] + weight * e[2]
    BY <1>1
  <2> HIDE DEF e
  <2>3. weight * e[2] \in Nat
    BY <2>1
  <2> QED BY <2>1, <2>2, <2>3
<1>4. DOMAIN reals = X
  BY <1>1
<1> HIDE DEF reals, from
<1>5. ASSUME NEW x PROVE At(reals, x) \in Nat
  BY <1>3, <1>4 DEF At
<1>6. ASSUME NEW x, At(reals, x) # 0 PROVE \E y \in spp : x = address(lay, Turned(y, trans))
  <2>1. x \in X
    BY <1>4, <1>6 DEF At
  <2> QED BY <2>1
<1> QED BY <1>5, <1>6 DEF StoredReals, reals

\* An entry of the box of a plain matrix.
LEMMA PlainCells ==
  ASSUME NEW b, Matrix2(b), NEW e \in Cells(b.bbox)
  PROVE  /\ e = <<e[1], e[2]>> /\ InMatrix(b, e)
         /\ address(Layout(b), e) = DenseAddress(b, e)
<1>1. /\ b.csc = FALSE /\ IsRange(b.bbox[1]) /\ IsRange(b.bbox[2])
      /\ b.bbox = [d \in 1 .. 2 |-> b.bbox[d]] /\ DOMAIN b.bbox = 1 .. 2
  BY MatrixNumbers
<1>2. e \in [1 .. 2 -> UNION {Numbers(b.bbox[d]) : d \in 1 .. 2}] /\ \A d \in 1 .. 2 : e[d] \in Numbers(b.bbox[d])
  BY <1>1 DEF Cells
<1>3. e[1] \in Numbers(b.bbox[1]) /\ e[2] \in Numbers(b.bbox[2])
  BY <1>2
<1>4. e[1] \in Int /\ e[2] \in Int
  BY <1>1, <1>3 DEF IsRange, Numbers
<1>5. e = <<e[1], e[2]>>
  BY <1>2
<1>6. e \in Int \X Int
  BY <1>4, <1>5
<1>7. relidx(Layout(b), e) = e
  BY <1>6, PlainEntry
<1>8. address(Layout(b), e) = DenseAddress(b, e)
  <2>1. Layout(b).base = b
    BY DEF Layout
  <2> QED BY <1>1, <1>7, <2>1 DEF address
<1> QED BY <1>3, <1>5, <1>6, <1>8 DEF InMatrix

\* A plain matrix is cleared around the box.
LEMMA PlainCleared ==
  ASSUME NEW b, Matrix2(b), NEW X \in BoxSet(2), NEW e \in Cells(b.bbox), e \notin Cells(X)
  PROVE  address(Layout(b), e) \in notWritten(Layout(b), X)
<1> DEFINE lay == Layout(b)
           V == lay.views
           Y == relboxes(V, X)
<1>1. V = <<>> /\ Len(V) = 0 /\ lay.base = b /\ DOMAIN V = {}
  BY DEF Layout
<1> HIDE DEF lay, V
<1>2. BoxViews(V, 2)
  BY <1>1 DEF BoxViews
<1>3. MovesBox(V, 2, 1 .. Len(V), X, Y)
  BY <1>2, RelboxesOk
<1>4. Y \in BoxSet(2) /\ \A d \in 1 .. 2 : Y[d] = X[d]
  BY <1>1, <1>3 DEF MovesBox
<1>5. Y = X
  BY <1>4 DEF BoxSet
<1>6. notWritten(lay, X) = notWrittenBase(b, Y)
  <2> DEFINE outside(k) == notWrittenBase(lay.base, InsideOf(lay, k))
  <2>1. notWritten(lay, X)
          = notWrittenBase(lay.base, relboxes(lay.views, X)) \ UNION {outside(k) : k \in DOMAIN lay.views}
    BY DEF notWritten, InsideOf, Inner
  <2> HIDE DEF outside, lay
  <2>2. UNION {outside(k) : k \in DOMAIN lay.views} = {}
    BY <1>1 DEF V
  <2> QED BY <1>1, <2>1, <2>2 DEF V
<1>7. DenseAddress(b, e) \in notWrittenBase(b, X)
  BY DEF notWrittenBase
<1> QED BY <1>5, <1>6, <1>7, PlainCells DEF lay

\* Without the old values, all of the result is overwritten.
LEMMA AllOverwritten ==
  ASSUME NEW d, NEW sppA, NEW sppB, CallReady(d, sppA, sppB), NEW e \in Cells(d.C.base.bbox)
  PROVE  address(d.C, e) \in Overwritten(d)
<1> DEFINE X == <<d.m, d.n>>
<1>1. d.C = Layout(d.C.base) /\ Matrix2(d.C.base) /\ IsRange(d.m) /\ IsRange(d.n)
  BY DEF CallReady
<1>2. X \in BoxSet(2)
  <2>1. d.m \in [start : Int, stop : Int] /\ d.n \in [start : Int, stop : Int]
    BY <1>1 DEF IsRange, Interval
  <2> QED BY <2>1 DEF BoxSet
<1>3. e \notin Cells(X) => address(Layout(d.C.base), e) \in notWritten(Layout(d.C.base), X)
  <2> HIDE DEF X
  <2> QED BY <1>1, <1>2, PlainCleared
<1> QED BY <1>1, <1>3 DEF Overwritten

\* The patterns of the operands of a call.
LEMMA CallPatterns ==
  ASSUME NEW base, LeftOk(base), NEW r \in Rights, NEW transA \in BOOLEAN, NEW whole \in BOOLEAN,
         NEW alignC \in BOOLEAN, NEW g, Made(g, base, r, transA, whole, alignC)
  PROVE  Pairs(g.sppA) /\ Pairs(g.sppB)
<1> DEFINE own == PatternOf(base)
           sppB == r.spp
           trans == r.trans
<1>1. g.sppA = {Turned(e, transA) : e \in own} /\ g.sppB = {Turned(e, trans) : e \in sppB}
  BY DEF Made
<1>2. Pairs(own)
  BY LeftHolds DEF Holds
<1>3. Pairs(sppB) /\ trans \in BOOLEAN
  BY RightHolds DEF Holds
<1> HIDE DEF own, sppB, trans
<1> QED BY <1>1, <1>2, <1>3, TurnedPairs

\* A call that is ready computes the product.
LEMMA ReadyComputes ==
  ASSUME NEW g, CallReady(g.descr, g.sppA, g.sppB), Pairs(g.sppA), Pairs(g.sppB)
  PROVE  Computes(g)
<1> DEFINE d        == g.descr
           sppA     == g.sppA
           sppB     == g.sppB
           realsA   == Reals(d.A, sppA, d.transA, 4)
           realsB   == Reals(d.B, sppB, d.transB, 16)
           added(p) == At(realsA, p.a) * At(realsB, p.b)
           zeroed   == IF g.beta = "0" THEN Overwritten(d) ELSE {}
           old      == 1000
<1> SUFFICES ASSUME NEW e \in Cells(d.C.base.bbox)
             PROVE  LET x == address(d.C, e)
                        prods   == {p \in Products(d) : p.at = x}
                        factors == {y \in sppA : y[1] = e[1] /\ <<y[2], e[2]>> \in sppB}
                        product(y) == added([a |-> address(d.A, Turned(y, d.transA)),
                                             b |-> address(d.B, Turned(<<y[2], e[2]>>, d.transB))])
                    IN  (IF x \in zeroed THEN 0 ELSE old) + SumFunction([p \in prods |-> added(p)])
                          = (IF g.beta = "0" THEN 0 ELSE old) + SumFunction([y \in factors |-> product(y)])
  BY DEF Computes
<1> DEFINE x          == address(d.C, e)
           prods      == {p \in Products(d) : p.at = x}
           factors    == {y \in sppA : y[1] = e[1] /\ <<y[2], e[2]>> \in sppB}
           product(y) == added([a |-> address(d.A, Turned(y, d.transA)),
                                b |-> address(d.B, Turned(<<y[2], e[2]>>, d.transB))])
<1>1. CallReady(d, sppA, sppB) /\ Pairs(sppA) /\ Pairs(sppB)
  OBVIOUS
<1>2. InMatrix(d.C.base, e)
  <2>1. Matrix2(d.C.base)
    BY DEF CallReady
  <2> QED BY <2>1, PlainCells
<1>3. StoredReals(realsA, d.A, sppA, d.transA) /\ StoredReals(realsB, d.B, sppB, d.transB)
  BY <1>1, RealsStored
<1>4. x \in Overwritten(d)
  BY <1>1, AllOverwritten
<1>5. SumFunction([p \in prods |-> added(p)]) = SumFunction([y \in factors |-> product(y)])
  <2> HIDE DEF d, sppA, sppB, realsA, realsB
  <2>1. SumsEqual(d, sppA, sppB, realsA, realsB, e)
    BY ONLY <1>1, <1>2, <1>3, SumsAgree
  <2> QED BY <2>1 DEF SumsEqual
<1>6. x \in zeroed <=> g.beta = "0"
  BY <1>4
<1> DEFINE s == SumFunction([p \in prods |-> added(p)])
           t == SumFunction([y \in factors |-> product(y)])
           cleared == x \in zeroed
<1>7. (IF cleared THEN 0 ELSE old) + s = (IF g.beta = "0" THEN 0 ELSE old) + t
  <2>1. s = t /\ (cleared <=> g.beta = "0")
    BY <1>5, <1>6
  <2> HIDE DEF s, t, cleared
  <2> QED BY <2>1
<1> QED BY <1>7

\* A GEMM that is generated without an error leaves every entry of the result
\* with the sum of its products, for operands and results of any size, pattern,
\* layout and transposition (codegen/gemm/gemmgen.py and generic.py).
THEOREM GemmIsComputed == GSpec => []GemmComputes
<1>1. GInit => FitsInv /\ CallInv
  BY FitsInit DEF GInit, CallInv
<1>2. TermInv /\ (FitsInv /\ CallInv) /\ [GNext]_gvars => (FitsInv /\ CallInv)'
  <2>1. [GNext]_gvars => [TNext]_vars
    BY GemmStep
  <2> QED BY <2>1, FitsNext, CallNext
<1>3. CallInv => GemmComputes
  <2> SUFFICES ASSUME CallInv, NEW g \in gemm, ~ g.raised PROVE Computes(g)
    BY DEF GemmComputes
  <2>1. PICK base : \E r \in Rights, transA \in BOOLEAN, whole \in BOOLEAN, alignC \in BOOLEAN :
          LeftOk(base) /\ Made(g, base, r, transA, whole, alignC)
    BY DEF CallInv, CallOk
  <2>2. CallReady(g.descr, g.sppA, g.sppB) /\ Pairs(g.sppA) /\ Pairs(g.sppB)
    BY <2>1, ReadyCall, CallPatterns
  <2> QED BY <2>2, ReadyComputes
<1> QED BY <1>1, <1>2, <1>3, GemmKeepsLayouts, LayoutsCorrect, PTL DEF GSpec
=============================================================================
