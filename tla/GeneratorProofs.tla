--------------------------- MODULE GeneratorProofs ---------------------------
(***************************************************************************)
(* Sessions of any number of calls, for any families and programs, and     *)
(* the objects of the classes that come of them.                           *)
(*                                                                         *)
(* SInv says what a family holds and relates it to the histories of the    *)
(* calls; EInv, that what generate emitted is what the families hold;      *)
(* CInv, that every routine in the cache was asked for under its name;     *)
(* OInvariant, what tensor.h declares; ObjectInv, that the members of an   *)
(* object hold what was set for their arguments.                           *)
(***************************************************************************)
EXTENDS KernelObject, Induction, SequenceTheorems

-----------------------------------------------------------------------------
(* Strides: numbers with digits of different sizes *)

PartialSums(p, s, f) ==
  /\ f \in [0 .. Len(p) -> Nat]
  /\ f[0] = 0
  /\ \A k \in 1 .. Len(p) : f[k] = f[k - 1] + p[k] * s[k]

LEMMA PartialSumsExist ==
  ASSUME NEW p \in Seq(Nat), NEW s \in Seq(Nat), Len(p) <= Len(s)
  PROVE  \E f : PartialSums(p, s, f)
<1> DEFINE n == Len(p)
           step == [q \in (1 .. n) \X Nat |-> q[2] + p[q[1]] * s[q[1]]]
<1>1. n \in Nat /\ 0 \in Nat
  OBVIOUS
<1>2. ASSUME NEW k \in 1 .. n PROVE p[k] * s[k] \in Nat
  <2>1. k \in 1 .. Len(s) /\ p[k] \in Nat /\ s[k] \in Nat
    OBVIOUS
  <2> QED BY <2>1, TimesMonotone
<1> DEFINE T == Nat
           base == 0
<1>3. step \in StepFunctions(n, T) /\ base \in T
  BY SMTT(30), <1>2 DEF StepFunctions
<1> HIDE DEF step, n, T, base
<1>4. PICK f : Solves(f, n, T, base, step)
  BY <1>1, <1>3, RecursionSolved
<1>5. ASSUME NEW k \in 1 .. n PROVE f[k] = f[k - 1] + p[k] * s[k]
  <2>1. k - 1 \in 0 .. n
    BY <1>1
  <2>2. f[k - 1] \in Nat
    BY <1>4, <2>1 DEF T, Solves
  <2> QED BY <1>4, <2>2 DEF step, Solves
<1> QED BY <1>4, <1>5 DEF PartialSums, n, T, base, Solves

LEMMA PartialSumsUnique ==
  ASSUME NEW p, NEW s, NEW f, NEW g, Len(p) \in Nat, PartialSums(p, s, f), PartialSums(p, s, g)
  PROVE  f = g
<1> DEFINE P == {k \in Nat : k <= Len(p) => f[k] = g[k]}
<1>1. 0 \in P
  BY DEF PartialSums
<1>2. ASSUME NEW k \in Nat, k \in P PROVE k + 1 \in P
  <2> SUFFICES ASSUME k + 1 <= Len(p) PROVE f[k + 1] = g[k + 1]
    OBVIOUS
  <2>1. k + 1 \in 1 .. Len(p) /\ (k + 1) - 1 = k /\ f[k] = g[k]
    BY <1>2
  <2> DEFINE m == k + 1
  <2>2. f[m] = f[m - 1] + p[m] * s[m] /\ g[m] = g[m - 1] + p[m] * s[m]
    BY <2>1 DEF PartialSums
  <2> QED BY <2>1, <2>2
<1> HIDE DEF P
<1>3. Nat \subseteq P
  BY <1>1, <1>2, NatSetInduction
<1> QED BY <1>3 DEF P, PartialSums

\* The loop of linear() computes the last of the partial sums.
LEMMA LinearOk ==
  ASSUME NEW p \in Seq(Nat), NEW s \in Seq(Nat), Len(p) <= Len(s)
  PROVE  \E f : PartialSums(p, s, f) /\ linear(s, p) = f[Len(p)]
<1> DEFINE n == Len(p)
           Eqn(f) == f = [k \in 0 .. n |-> IF k = 0 THEN 0 ELSE f[k - 1] + p[k] * s[k]]
           index == CHOOSE f : Eqn(f)
<1>1. n \in Nat
  OBVIOUS
<1>2. PICK f : PartialSums(p, s, f)
  BY PartialSumsExist
<1>3. Eqn(f)
  <2>1. \A k \in 0 .. n : k = 0 \/ k \in 1 .. n
    BY <1>1
  <2>2. f = [k \in 0 .. n |-> f[k]]
    BY <1>2 DEF PartialSums
  <2> QED BY <1>2, <2>1, <2>2 DEF PartialSums
<1>4. Eqn(index)
  BY <1>3
<1>5. linear(s, p) = index[n]
  BY DEF linear
<1> HIDE DEF index
<1>6. PartialSums(p, s, index)
  <2>1. /\ DOMAIN index = 0 .. n /\ index[0] = 0
        /\ \A k \in 1 .. n : index[k] = index[k - 1] + p[k] * s[k]
    <3>1. 0 \in 0 .. n /\ \A k \in 1 .. n : k \in 0 .. n /\ k # 0
      BY <1>1
    <3> QED BY <1>4, <3>1
  <2> DEFINE P == {k \in Nat : k <= n => index[k] = f[k]}
  <2>2. 0 \in P
    BY <1>2, <2>1 DEF PartialSums
  <2>3. ASSUME NEW k \in Nat, k \in P PROVE k + 1 \in P
    <3> SUFFICES ASSUME k + 1 <= n PROVE index[k + 1] = f[k + 1]
      OBVIOUS
    <3>1. k + 1 \in 1 .. n /\ (k + 1) - 1 = k /\ index[k] = f[k]
      BY <1>1, <2>3
    <3> DEFINE m == k + 1
    <3>2. index[m] = index[m - 1] + p[m] * s[m] /\ f[m] = f[m - 1] + p[m] * s[m]
      BY <1>2, <2>1, <3>1 DEF PartialSums
    <3> QED BY <3>1, <3>2
  <2> HIDE DEF P
  <2>4. Nat \subseteq P
    BY <2>2, <2>3, NatSetInduction
  <2>5. \A k \in 0 .. n : index[k] = f[k]
    BY <2>4 DEF P
  <2>6. index = f
    <3>1. index = [k \in 0 .. n |-> index[k]]
      BY <1>4
    <3>2. f = [k \in 0 .. n |-> f[k]]
      BY <1>2 DEF PartialSums
    <3> HIDE DEF Eqn
    <3> QED BY <2>5, <3>1, <3>2
  <2> QED BY <1>2, <2>6
<1> QED BY <1>5, <1>6

LEMMA LinearNat ==
  ASSUME NEW p \in Seq(Nat), NEW s \in Seq(Nat), Len(p) <= Len(s)
  PROVE  linear(s, p) \in Nat
<1>1. PICK f : PartialSums(p, s, f) /\ linear(s, p) = f[Len(p)]
  BY LinearOk
<1>2. Len(p) \in 0 .. Len(p)
  OBVIOUS
<1> QED BY <1>1, <1>2 DEF PartialSums

\* The size r[k] of digit k bounds it, and s[k] is the product of the sizes below.
Radix(s, r, n) ==
  /\ s \in Seq(Nat) /\ Len(s) = n
  /\ n > 0 => s[1] = 1
  /\ \A k \in 1 .. n - 1 : r[k] \in Nat /\ s[k + 1] = s[k] * r[k]
Digits(p, r, n) ==
  /\ p \in Seq(Nat) /\ Len(p) = n
  /\ \A k \in 1 .. n - 1 : p[k] < r[k]

LEMMA PartialSumsBelow ==
  ASSUME NEW n \in Nat, NEW s, NEW r, NEW p, Radix(s, r, n), Digits(p, r, n),
         NEW f, PartialSums(p, s, f)
  PROVE  \A k \in 1 .. n : f[k - 1] < s[k]
<1> DEFINE P == {k \in Nat : k + 1 <= n => f[k] < s[k + 1]}
<1>1. 0 \in P
  BY DEF Radix, PartialSums
<1>2. ASSUME NEW k \in Nat, k \in P PROVE k + 1 \in P
  <2> SUFFICES ASSUME k + 2 <= n PROVE f[k + 1] < s[k + 2]
    OBVIOUS
  <2> DEFINE m == k + 1
             a == s[m]
             b == p[m]
             c == r[m]
  <2>1. /\ m \in 1 .. n - 1 /\ m \in 1 .. n /\ m - 1 = k /\ m + 1 = k + 2 /\ m + 1 \in 1 .. n
        /\ k \in 0 .. n
    OBVIOUS
  <2>2. f[k] < a
    BY <1>2, <2>1
  <2>3. a \in Nat /\ b \in Nat /\ c \in Nat /\ b < c /\ s[k + 2] = a * c
    BY <2>1 DEF Radix, Digits
  <2>4. f[m] = f[k] + b * a /\ f[k] \in Nat
    BY <2>1 DEF PartialSums, Digits
  <2>5. a * (b + 1) <= a * c
    <3>1. b + 1 \in Nat /\ b + 1 <= c
      BY <2>3
    <3> QED BY <2>3, <3>1, TimesMonotone
  <2>6. a * (b + 1) = b * a + a /\ b * a \in Nat /\ a * c \in Nat
    BY <2>3
  <2> HIDE DEF a, b, c
  <2> QED BY <2>2, <2>3, <2>4, <2>5, <2>6
<1> HIDE DEF P
<1>3. Nat \subseteq P
  BY <1>1, <1>2, NatSetInduction
<1> SUFFICES ASSUME NEW k \in 1 .. n PROVE f[k - 1] < s[k]
  OBVIOUS
<1>4. k - 1 \in P /\ (k - 1) + 1 = k
  BY <1>3
<1> QED BY <1>4 DEF P

\* Numbers with different digits are different.
LEMMA DigitsUnique ==
  ASSUME NEW n \in Nat, NEW s, NEW r, NEW p, NEW q,
         Radix(s, r, n), Digits(p, r, n), Digits(q, r, n), linear(s, p) = linear(s, q)
  PROVE  p = q
<1>1. PICK f : PartialSums(p, s, f) /\ linear(s, p) = f[n]
  BY LinearOk DEF Radix, Digits
<1>2. PICK g : PartialSums(q, s, g) /\ linear(s, q) = g[n]
  BY LinearOk DEF Radix, Digits
<1>3. \A k \in 1 .. n : f[k - 1] < s[k] /\ g[k - 1] < s[k]
  BY <1>1, <1>2, PartialSumsBelow
<1> DEFINE P == {k \in Nat : k <= n => f[n - k] = g[n - k] /\ \A l \in n - k + 1 .. n : p[l] = q[l]}
<1>4. 0 \in P
  <2> HIDE DEF P
  <2>1. f[n] = g[n]
    BY <1>1, <1>2
  <2>4. n - 0 = n
    OBVIOUS
  <2>2. \A l \in n - 0 + 1 .. n : p[l] = q[l]
    OBVIOUS
  <2>3. 0 <= n => f[n - 0] = g[n - 0] /\ \A l \in n - 0 + 1 .. n : p[l] = q[l]
    BY <2>1, <2>2, <2>4
  <2> QED BY <2>3 DEF P
<1>5. ASSUME NEW k \in Nat, k \in P PROVE k + 1 \in P
  <2> SUFFICES ASSUME k + 1 <= n
               PROVE  /\ f[n - (k + 1)] = g[n - (k + 1)]
                      /\ \A l \in n - (k + 1) + 1 .. n : p[l] = q[l]
    OBVIOUS
  <2> DEFINE m == n - k
             a == s[m]
             x == p[m]
             y == q[m]
             b == f[m - 1]
             c == g[m - 1]
  <2>1. m \in 1 .. n /\ m - 1 = n - (k + 1) /\ m - 1 \in 0 .. n /\ m \in Nat
    OBVIOUS
  <2>2. f[m] = g[m] /\ \A l \in m + 1 .. n : p[l] = q[l]
    BY <1>5, <2>1
  <2>3. a \in Nat /\ x \in Nat /\ y \in Nat
    BY <2>1 DEF Radix, Digits
  <2>4. f[m] = b + x * a /\ g[m] = c + y * a /\ b \in Nat /\ c \in Nat
    BY <1>1, <1>2, <2>1 DEF PartialSums, Digits
  <2>5. b < a /\ c < a
    BY <1>3, <2>1
  <2> HIDE DEF a, b, c, x, y
  <2>6. b = c /\ x = y
    BY <2>2, <2>3, <2>4, <2>5, DigitUnique
  <2>7. \A l \in m .. n : p[l] = q[l]
    <3> SUFFICES ASSUME NEW l \in m .. n, l # m PROVE p[l] = q[l]
      BY <2>6 DEF x, y
    <3>1. l \in m + 1 .. n
      BY <2>1
    <3> QED BY <2>2, <3>1
  <2> QED BY <2>1, <2>6, <2>7 DEF b, c
<1> HIDE DEF P
<1>6. n \in P
  BY <1>4, <1>5, NatSetInduction
<1>7. \A l \in 1 .. n : p[l] = q[l]
  BY <1>6 DEF P
<1> QED BY <1>7 DEF Digits

-----------------------------------------------------------------------------
(* The stride of a parameter space *)

\* What SessionAssumption says of a space.
Rectangular(space) ==
  /\ space \in Seq(Seq(Nat)) /\ Len(space) > 0
  /\ \A p \in Range(space) : Len(p) = Len(space[1])

LEMMA BeforeTotal ==
  ASSUME NEW p \in Seq(Nat), NEW q \in Seq(Nat), Len(p) = Len(q), p # q
  PROVE  Before(p, q) \/ Before(q, p)
<1> DEFINE n == Len(p)
           T == {k \in 1 .. n : p[k] # q[k]}
<1>1. T # {} /\ T \in SUBSET Nat
  BY SMTT(30)
<1>2. PICK k \in T : \A l \in T : k <= l
  <2> HIDE DEF T
  <2> QED BY <1>1, LeastNumber
<1>3. \A l \in 1 .. k - 1 : p[l] = q[l] /\ q[l] = p[l]
  BY <1>2
<1>4. k \in DOMAIN p /\ k \in DOMAIN q /\ p[k] \in Nat /\ q[k] \in Nat /\ p[k] # q[k]
  OBVIOUS
<1>5. p[k] < q[k] \/ q[k] < p[k]
  BY <1>4
<1> QED BY <1>3, <1>4, <1>5 DEF Before

LEMMA BeforeTransitive ==
  ASSUME NEW p \in Seq(Nat), NEW q \in Seq(Nat), NEW r \in Seq(Nat),
         Len(p) = Len(q), Len(q) = Len(r), Before(p, q), Before(q, r)
  PROVE  Before(p, r)
<1> DEFINE n == Len(p)
<1>0. n \in Nat /\ DOMAIN p = 1 .. n /\ DOMAIN q = 1 .. n /\ DOMAIN r = 1 .. n
  OBVIOUS
<1>3. \A l \in 1 .. n : p[l] \in Nat /\ q[l] \in Nat /\ r[l] \in Nat /\ l \in DOMAIN p
  BY <1>0
<1> HIDE DEF n
<1>1. PICK k \in 1 .. n : p[k] < q[k] /\ \A l \in 1 .. k - 1 : p[l] = q[l]
  BY <1>0 DEF Before
<1>2. PICK m \in 1 .. n : q[m] < r[m] /\ \A l \in 1 .. m - 1 : q[l] = r[l]
  BY <1>0 DEF Before
<1>4. CASE k < m
  <2>1. p[k] < r[k] /\ \A l \in 1 .. k - 1 : p[l] = r[l]
    BY <1>0, <1>1, <1>2, <1>3, <1>4
  <2> QED BY <2>1, <1>3 DEF Before
<1>5. CASE k >= m
  <2>0. p[m] <= q[m]
    <3>1. m < k \/ m = k
      BY <1>0, <1>5
    <3>2. m < k => m \in 1 .. k - 1
      BY <1>0
    <3> QED BY SMTT(30), <1>0, <1>1, <1>3, <3>1, <3>2
  <2>1. p[m] < r[m]
    BY SMTT(30), <2>0, <1>0, <1>1, <1>2, <1>3, <1>5
  <2>2. \A l \in 1 .. m - 1 : p[l] = r[l]
    BY <1>0, <1>1, <1>2, <1>3, <1>5
  <2> QED BY <2>1, <2>2, <1>3 DEF Before
<1> QED BY <1>4, <1>5

\* The largest of the parameters in Python's order is one of them.
LEMMA PMaxOk ==
  ASSUME NEW space, Rectangular(space)
  PROVE  PMax(space) \in Range(space)
<1> DEFINE n == Len(space)
           Top(p, q) == p = q \/ Before(q, p)
           P == {m \in Nat : m + 1 <= n =>
                   \E i \in 1 .. m + 1 : \A j \in 1 .. m + 1 : Top(space[i], space[j])}
<1>1. /\ n \in Nat /\ n > 0
      /\ \A i \in 1 .. n : /\ i \in DOMAIN space /\ space[i] \in Range(space)
                           /\ space[i] \in Seq(Nat) /\ Len(space[i]) = Len(space[1])
  BY DEF Rectangular, Range
<1>2. 0 \in P
  BY <1>1
<1>3. ASSUME NEW m \in Nat, m \in P PROVE m + 1 \in P
  <2> SUFFICES ASSUME m + 2 <= n
               PROVE  \E i \in 1 .. m + 2 : \A j \in 1 .. m + 2 : Top(space[i], space[j])
    OBVIOUS
  <2>1. PICK i \in 1 .. m + 1 : \A j \in 1 .. m + 1 : Top(space[i], space[j])
    BY <1>1, <1>3
  <2> DEFINE b == m + 2
             p == space[i]
             q == space[b]
  <2>2. b \in 1 .. n /\ i \in 1 .. n /\ i \in 1 .. b /\ b \in 1 .. b /\ \A j \in 1 .. b : j = b \/ j \in 1 .. m + 1
    BY <1>1
  <2>3. \A j \in 1 .. b : j \in 1 .. n
    BY <2>2
  <2>4. CASE Top(p, q)
    <3>1. \A j \in 1 .. b : Top(p, space[j])
      BY <2>1, <2>2, <2>4
    <3> QED BY <2>2, <3>1
  <2>5. CASE ~ Top(p, q)
    <3>1. Before(p, q)
      BY <1>1, <2>2, <2>5, BeforeTotal
    <3>2. ASSUME NEW j \in 1 .. b PROVE Top(q, space[j])
      <4>1. j = b \/ p = space[j] \/ Before(space[j], p)
        BY <2>1, <2>2
      <4>2. p \in Seq(Nat) /\ q \in Seq(Nat) /\ space[j] \in Seq(Nat) /\ Len(space[j]) = Len(p) /\ Len(p) = Len(q)
        BY <1>1, <2>2, <2>3
      <4> QED BY <3>1, <4>1, <4>2, BeforeTransitive
    <3> QED BY <2>2, <3>2
  <2> QED BY <2>4, <2>5
<1> HIDE DEF P
<1>4. n - 1 \in P
  BY <1>1, <1>2, <1>3, NatSetInduction
<1>5. PICK i \in 1 .. n : \A j \in 1 .. n : Top(space[i], space[j])
  <2>1. n - 1 \in Nat /\ (n - 1) + 1 = n
    BY <1>1
  <2> QED BY <1>4, <2>1 DEF P
<1>6. \A q \in Range(space) : \E j \in 1 .. n : q = space[j]
  BY <1>1 DEF Range, Rectangular
<1>7. \E p \in Range(space) : \A q \in Range(space) : p = q \/ Before(q, p)
  BY <1>1, <1>5, <1>6
<1> QED BY <1>7 DEF PMax

\* Dimension k has one index more than the largest of the parameters.
Sizes(space) == [k \in 1 .. Len(space[1]) |-> PMax(space)[k] + 1]

LEMMA PMaxNat ==
  ASSUME NEW space, Rectangular(space)
  PROVE  /\ Len(space[1]) \in Nat
         /\ \A k \in 1 .. Len(space[1]) : PMax(space)[k] \in Nat
<1>1. PMax(space) \in Range(space)
  BY PMaxOk
<1>2. PMax(space) \in Seq(Nat) /\ Len(PMax(space)) = Len(space[1])
  BY <1>1 DEF Rectangular, Range
<1> QED BY <1>2

\* f[k] is the product of the sizes below k.
Products(f, r, n) == f = [k \in 1 .. n |-> IF k = 1 THEN 1 ELSE f[k - 1] * r[k - 1]]

LEMMA ProductsExist ==
  ASSUME NEW n \in Nat, NEW r, \A k \in 1 .. n : r[k] \in Nat
  PROVE  \E f : Products(f, r, n)
<1>1. CASE n = 0
  <2> DEFINE f == [k \in 1 .. n |-> 1]
  <2>1. Products(f, r, n)
    BY <1>1 DEF Products
  <2> QED BY <2>1
<1>2. CASE n # 0
  <2> DEFINE N == n - 1
             T == Nat
             base == 1
             step == [q \in (1 .. N) \X Nat |-> q[2] * r[q[1]]]
  <2>1. N \in Nat /\ base \in T
    BY <1>2
  <2>2. step \in StepFunctions(N, T)
    <3>1. \A k \in 1 .. N : k \in 1 .. n
      BY <1>2
    <3>2. ASSUME NEW k \in 1 .. N, NEW x \in Nat PROVE x * r[k] \in Nat
      BY <3>1, TimesMonotone
    <3> QED BY <3>2 DEF StepFunctions
  <2> HIDE DEF step, T, base, N
  <2>3. PICK g : Solves(g, N, T, base, step)
    BY <2>1, <2>2, RecursionSolved
  <2> DEFINE f == [k \in 1 .. n |-> g[k - 1]]
  <2>4. \A k \in 1 .. N : g[k] = g[k - 1] * r[k]
    <3> SUFFICES ASSUME NEW k \in 1 .. N PROVE g[k] = g[k - 1] * r[k]
      OBVIOUS
    <3>1. k - 1 \in 0 .. N
      BY <2>1
    <3>2. g[k - 1] \in Nat
      BY <2>3, <3>1 DEF Solves, T
    <3> QED BY <2>3, <3>2 DEF Solves, step
  <2>5. g[0] = 1
    BY <2>3 DEF Solves, base
  <2>6. ASSUME NEW k \in 1 .. n PROVE f[k] = IF k = 1 THEN 1 ELSE f[k - 1] * r[k - 1]
    <3>1. CASE k = 1
      BY <2>5, <3>1
    <3>2. CASE k # 1
      <4> DEFINE j == k - 1
      <4>1. j \in 1 .. N /\ j \in 1 .. n /\ k - 1 = j
        BY <3>2 DEF N
      <4>2. f[k] = g[j] /\ f[j] = g[j - 1]
        BY <4>1
      <4> QED BY <2>4, <3>2, <4>1, <4>2
    <3> QED BY <3>1, <3>2
  <2>7. Products(f, r, n)
    BY <2>6 DEF Products
  <2> HIDE DEF f
  <2> QED BY <2>7
<1> QED BY <1>1, <1>2

LEMMA ProductsRadix ==
  ASSUME NEW n \in Nat, NEW r, \A k \in 1 .. n : r[k] \in Nat, NEW f, Products(f, r, n)
  PROVE  Radix(f, r, n)
<1>1. /\ f = [k \in 1 .. n |-> f[k]]
      /\ n > 0 => f[1] = 1
  BY DEF Products
<1>2. \A k \in 1 .. n - 1 : f[k + 1] = f[k] * r[k]
  <2> SUFFICES ASSUME NEW k \in 1 .. n - 1 PROVE f[k + 1] = f[k] * r[k]
    OBVIOUS
  <2> DEFINE m == k + 1
  <2>1. m \in 1 .. n /\ m # 1 /\ m - 1 = k
    OBVIOUS
  <2> HIDE DEF m
  <2>2. f[m] = f[m - 1] * r[m - 1]
    BY <2>1 DEF Products
  <2> QED BY <2>1, <2>2 DEF m
<1> DEFINE P == {k \in Nat : k + 1 <= n => f[k + 1] \in Nat}
<1>3. 0 \in P
  BY <1>1
<1>4. ASSUME NEW k \in Nat, k \in P PROVE k + 1 \in P
  <2> SUFFICES ASSUME k + 2 <= n PROVE f[k + 2] \in Nat
    OBVIOUS
  <2> DEFINE m == k + 1
  <2>1. m \in 1 .. n - 1 /\ m \in 1 .. n /\ m + 1 = k + 2
    OBVIOUS
  <2>2. f[m] \in Nat /\ r[m] \in Nat /\ f[m + 1] = f[m] * r[m]
    BY <1>2, <1>4, <2>1
  <2>3. f[m] * r[m] \in Nat
    BY <2>2, TimesMonotone
  <2> QED BY <2>1, <2>2, <2>3
<1> HIDE DEF P
<1>5. Nat \subseteq P
  BY <1>3, <1>4, NatSetInduction
<1>6. \A k \in 1 .. n : f[k] \in Nat
  <2> SUFFICES ASSUME NEW k \in 1 .. n PROVE f[k] \in Nat
    OBVIOUS
  <2>1. k - 1 \in P /\ (k - 1) + 1 = k /\ k <= n
    BY <1>5
  <2> QED BY <2>1 DEF P
<1>7. f \in Seq(Nat) /\ Len(f) = n
  <2>1. f \in [1 .. n -> Nat]
    BY <1>1, <1>6
  <2>2. f \in Seq(Nat)
    BY <1>1, <1>6, <2>1, IsASeq
  <2> QED BY <2>1, <2>2
<1>8. \A k \in 1 .. n - 1 : r[k] \in Nat
  OBVIOUS
<1> QED BY <1>1, <1>2, <1>7, <1>8 DEF Radix

LEMMA StrideOk ==
  ASSUME NEW space, Rectangular(space)
  PROVE  Radix(Stride(space), Sizes(space), Len(space[1]))
<1> DEFINE n == Len(space[1])
           r == Sizes(space)
           Eqn(f) == f = [k \in 1 .. n |-> IF k = 1 THEN 1 ELSE f[k - 1] * (PMax(space)[k - 1] + 1)]
           stride == CHOOSE f : Eqn(f)
<1>1. n \in Nat /\ \A k \in 1 .. n : r[k] \in Nat /\ r[k] = PMax(space)[k] + 1
  BY PMaxNat DEF Sizes
<1>2. Stride(space) = stride
  BY DEF Stride
<1>3. ASSUME NEW f PROVE Products(f, r, n) <=> Eqn(f)
  <2> HIDE DEF r, n
  <2>1. ASSUME NEW k \in 1 .. n, k # 1 PROVE r[k - 1] = PMax(space)[k - 1] + 1
    <3>1. k - 1 \in 1 .. n
      BY <1>1, <2>1
    <3> QED BY <1>1, <3>1
  <2> QED BY <2>1 DEF Products
<1>4. \E f : Eqn(f)
  <2> HIDE DEF Eqn, r, n
  <2> QED BY <1>1, <1>3, ProductsExist
<1>5. Eqn(stride)
  BY <1>4
<1> HIDE DEF Eqn, r, n, stride
<1>6. Radix(stride, r, n)
  BY <1>1, <1>3, <1>5, ProductsRadix
<1> QED BY <1>2, <1>6 DEF r, n

\* Sizes are determined by the stride, as it is not zero.
LEMMA RadixUnique ==
  ASSUME NEW n \in Nat, NEW s, NEW r, NEW t, Radix(s, r, n), Radix(s, t, n),
         \A k \in 1 .. n - 1 : r[k] > 0
  PROVE  \A k \in 1 .. n - 1 : r[k] = t[k]
<1>1. /\ \A k \in 1 .. n : s[k] \in Nat
      /\ n > 0 => s[1] = 1
      /\ \A k \in 1 .. n - 1 : /\ r[k] \in Nat /\ t[k] \in Nat /\ r[k] > 0
                               /\ s[k + 1] = s[k] * r[k] /\ s[k + 1] = s[k] * t[k]
  BY DEF Radix
<1> DEFINE P == {k \in Nat : k + 1 <= n => s[k + 1] > 0}
<1>2. 0 \in P
  BY <1>1
<1>3. ASSUME NEW k \in Nat, k \in P PROVE k + 1 \in P
  <2> SUFFICES ASSUME k + 2 <= n PROVE s[k + 2] > 0
    OBVIOUS
  <2> DEFINE m == k + 1
             a == s[m]
             b == r[m]
  <2>1. m \in 1 .. n - 1 /\ m \in 1 .. n /\ m + 1 = k + 2
    OBVIOUS
  <2>2. a \in Nat /\ b \in Nat /\ a > 0 /\ b > 0 /\ s[k + 2] = a * b
    BY <1>1, <1>3, <2>1
  <2> HIDE DEF a, b
  <2>3. a * 1 <= a * b
    BY <2>2, TimesMonotone
  <2>4. a * 1 = a
    BY <2>2
  <2> QED BY <2>2, <2>3, <2>4
<1> HIDE DEF P
<1>4. Nat \subseteq P
  BY <1>2, <1>3, NatSetInduction
<1> SUFFICES ASSUME NEW k \in 1 .. n - 1 PROVE r[k] = t[k]
  OBVIOUS
<1>5. s[k] > 0
  <2>1. k - 1 \in P /\ (k - 1) + 1 = k /\ k <= n
    BY <1>4
  <2> QED BY <2>1 DEF P
<1> DEFINE a == s[k]
           b == r[k]
           c == t[k]
<1>6. a \in Nat /\ b \in Nat /\ c \in Nat /\ a > 0 /\ a * b = a * c
  <2>1. k \in 1 .. n
    OBVIOUS
  <2> QED BY <1>1, <1>5, <2>1
<1> HIDE DEF a, b, c
<1>7. ASSUME NEW x \in Nat, NEW y \in Nat, x < y PROVE a * x < a * y
  <2>1. a * (x + 1) <= a * y
    BY <1>6, <1>7, TimesMonotone
  <2>2. a * (x + 1) = a * x + a /\ a * x \in Nat /\ a * y \in Nat
    BY <1>6
  <2> QED BY <1>6, <2>1, <2>2
<1>8. a * b \in Nat /\ a * c \in Nat
  BY <1>6, TimesMonotone
<1>9. ~ b < c /\ ~ c < b
  BY <1>6, <1>7, <1>8
<1>10. b = c
  BY <1>6, <1>9
<1> QED BY <1>10 DEF b, c

LEMMA InSpace ==
  ASSUME NEW space, Rectangular(space), NEW p \in Range(space)
  PROVE  p \in Seq(Nat) /\ Len(p) = Len(space[1])
<1>1. PICK k \in DOMAIN space : p = space[k]
  BY DEF Range
<1>2. p \in Seq(Nat)
  BY <1>1 DEF Rectangular
<1> QED BY <1>2 DEF Rectangular

\* Parameters of regular spaces with one stride have indices of their own.
LEMMA IndicesDiffer ==
  ASSUME NEW space, NEW other, Rectangular(space), Rectangular(other),
         Regular(space), Regular(other), Stride(space) = Stride(other),
         NEW p \in Range(space), NEW q \in Range(other),
         linear(Stride(space), p) = linear(Stride(space), q)
  PROVE  p = q
<1> DEFINE n == Len(space[1])
           s == Stride(space)
           r == Sizes(space)
           t == Sizes(other)
<1>1. Radix(s, r, n) /\ Radix(s, t, Len(other[1]))
  BY StrideOk
<1>2. n \in Nat /\ Len(other[1]) = n
  <2>1. Len(s) = n /\ Len(s) = Len(other[1])
    BY <1>1 DEF Radix
  <2> QED BY <2>1, PMaxNat
<1>3. \A k \in 1 .. n : /\ PMax(space)[k] \in Nat /\ r[k] = PMax(space)[k] + 1
                        /\ PMax(other)[k] \in Nat /\ t[k] = PMax(other)[k] + 1
  BY <1>2, PMaxNat DEF Sizes
<1>4. \A k \in 1 .. n - 1 : r[k] = t[k]
  <2>1. \A k \in 1 .. n - 1 : r[k] > 0
    BY <1>2, <1>3
  <2> HIDE DEF n, s, r, t
  <2>2. Radix(s, t, n)
    BY <1>1, <1>2
  <2> QED BY <1>1, <1>2, <2>1, <2>2, RadixUnique
<1>5. p \in Seq(Nat) /\ Len(p) = n /\ q \in Seq(Nat) /\ Len(q) = n
  BY <1>2, InSpace
<1>6. Digits(p, r, n)
  <2>1. \A k \in 1 .. n - 1 : p[k] < r[k]
    <3> SUFFICES ASSUME NEW k \in 1 .. n - 1 PROVE p[k] < r[k]
      OBVIOUS
    <3>1. p[k] <= PMax(space)[k]
      BY DEF Regular
    <3>2. k \in 1 .. n /\ p[k] \in Nat
      BY <1>2, <1>5
    <3> HIDE DEF r, n
    <3> QED BY <1>3, <3>1, <3>2
  <2> QED BY <1>5, <2>1 DEF Digits
<1>7. Digits(q, r, n)
  <2>1. \A k \in 1 .. n - 1 : q[k] < r[k]
    <3> SUFFICES ASSUME NEW k \in 1 .. n - 1 PROVE q[k] < r[k]
      OBVIOUS
    <3>1. q[k] <= PMax(other)[k]
      BY <1>2 DEF Regular
    <3>2. k \in 1 .. n /\ q[k] \in Nat
      BY <1>2, <1>5
    <3> HIDE DEF r, n, t
    <3> QED BY <1>3, <1>4, <3>1, <3>2
  <2> QED BY <1>5, <2>1 DEF Digits
<1> HIDE DEF n, s, r, t
<1>8. linear(s, p) = linear(s, q)
  BY DEF s
<1> QED BY <1>1, <1>2, <1>6, <1>7, <1>8, DigitsUnique

-----------------------------------------------------------------------------
(* A family, and the histories of the calls for it *)

Keyed(kernel) == kernel.call \in 1 .. MaxCalls /\ kernel.param \in Parameters

FamilyOk(family) ==
  /\ DOMAIN family = {"kernels", "stride", "namespace"}
  /\ DOMAIN family.kernels \subseteq Nat
  /\ IsFiniteSet(DOMAIN family.kernels)
  /\ \A i \in DOMAIN family.kernels : Keyed(family.kernels[i])
  /\ family.stride \in Seq(Nat)
  /\ DOMAIN family.kernels # {} =>
       \E i \in DOMAIN family.kernels : family.kernels[i].namespace = family.namespace

LEMMA WithKernelOk ==
  ASSUME NEW f, FamilyOk(f), NEW i \in Nat, NEW k, Keyed(k)
  PROVE  /\ FamilyOk(WithKernel(f, i, k))
         /\ WithKernel(f, i, k).stride = f.stride
         /\ DOMAIN WithKernel(f, i, k).kernels = DOMAIN f.kernels \cup {i}
         /\ WithKernel(f, i, k).kernels[i] = k
         /\ \A j \in DOMAIN f.kernels \ {i} : WithKernel(f, i, k).kernels[j] = f.kernels[j]
<1> DEFINE g == WithKernel(f, i, k)
           h == Put(f.kernels, i, k)
<1>1. /\ DOMAIN h = DOMAIN f.kernels \cup {i}
      /\ h[i] = k
      /\ \A j \in DOMAIN f.kernels \ {i} : h[j] = f.kernels[j]
  BY DEF Put
<1> HIDE DEF h
<1>2. /\ DOMAIN g = {"kernels", "stride", "namespace"}
      /\ g.kernels = h /\ g.stride = f.stride /\ g.namespace = k.namespace
  BY DEF WithKernel, FamilyOk, h
<1> HIDE DEF g
<1>3. IsFiniteSet(DOMAIN h)
  BY <1>1, FS_AddElement DEF FamilyOk
<1>4. FamilyOk(g)
  BY <1>1, <1>2, <1>3 DEF FamilyOk
<1> QED BY <1>1, <1>2, <1>4 DEF g

\* The parameters that a kernel of the family n was made for.
Mades(M, n) == {p \in {key[2] : key \in DOMAIN M} : <<n, p>> \in DOMAIN M}

LEMMA MadesOk ==
  ASSUME NEW M, NEW n
  PROVE  \A p : p \in Mades(M, n) <=> <<n, p>> \in DOMAIN M
BY DEF Mades

\* N is M with the kernel k for the parameters p of n.
MadeAlso(M, N, n, p, k) ==
  /\ Mades(N, n) = Mades(M, n) \cup {p}
  /\ \A m : m # n => Mades(N, m) = Mades(M, m)
  /\ N[<<n, p>>] = k
  /\ \A m, q : q \in Mades(M, m) /\ (m # n \/ q # p) => N[<<m, q>>] = M[<<m, q>>]

LEMMA MadesPut ==
  ASSUME NEW M, NEW n, NEW p, NEW k
  PROVE  MadeAlso(M, Put(M, <<n, p>>, k), n, p, k)
<1> DEFINE N == Put(M, <<n, p>>, k)
<1>1. /\ DOMAIN N = DOMAIN M \cup {<<n, p>>}
      /\ N[<<n, p>>] = k
      /\ \A x \in DOMAIN M : x # <<n, p>> => N[x] = M[x]
  BY DEF Put
<1> HIDE DEF N
<1>2. \A m, q : <<m, q>> = <<n, p>> <=> (m = n /\ q = p)
  OBVIOUS
<1>3. \A m, q : q \in Mades(N, m) <=> (q \in Mades(M, m) \/ (m = n /\ q = p))
  BY <1>1, <1>2, MadesOk
<1>4. Mades(N, n) = Mades(M, n) \cup {p}
  BY <1>3
<1>5. ASSUME NEW m, m # n PROVE Mades(N, m) = Mades(M, m)
  BY <1>3, <1>5
<1>6. ASSUME NEW m, NEW q \in Mades(M, m), m # n \/ q # p PROVE N[<<m, q>>] = M[<<m, q>>]
  BY <1>1, <1>2, <1>6, MadesOk
<1>7. MadeAlso(M, N, n, p, k)
  BY <1>1, <1>4, <1>5, <1>6 DEF MadeAlso
<1> QED BY <1>7 DEF N

\* S are the strides and X the spaces of the calls for family n, and M is made.
History(family, S, X, M, n) ==
  /\ IsFiniteSet(S) /\ family.stride \in S
  /\ \A space \in X : Rectangular(space) /\ Stride(space) \in S
  /\ \A p \in Mades(M, n) : /\ DOMAIN family.kernels # {}
                            /\ \E space \in X : p \in Range(space)
Finds(family, S, X, M, n) ==
  Cardinality(S) = 1 /\ (\A space \in X : Regular(space)) =>
    \A p \in Mades(M, n) :
      /\ linear(family.stride, p) \in DOMAIN family.kernels
      /\ family.kernels[linear(family.stride, p)] = M[<<n, p>>]

\* A member is added for parameters of one of the spaces.
LEMMA MemberAdded ==
  ASSUME NEW f, NEW S, NEW X, NEW M, NEW n, NEW i \in Nat, NEW k, NEW p, NEW space \in X,
         FamilyOk(f), Keyed(k), History(f, S, X, M, n), Finds(f, S, X, M, n),
         p \in Range(space), Cardinality(S) = 1 => i = linear(f.stride, p)
  PROVE  /\ History(WithKernel(f, i, k), S, X, Put(M, <<n, p>>, k), n)
         /\ Finds(WithKernel(f, i, k), S, X, Put(M, <<n, p>>, k), n)
<1> DEFINE g == WithKernel(f, i, k)
           N == Put(M, <<n, p>>, k)
<1>1. /\ g.stride = f.stride
      /\ DOMAIN g.kernels = DOMAIN f.kernels \cup {i}
      /\ g.kernels[i] = k
      /\ \A j \in DOMAIN f.kernels \ {i} : g.kernels[j] = f.kernels[j]
  BY WithKernelOk
<1>2. /\ Mades(N, n) = Mades(M, n) \cup {p}
      /\ N[<<n, p>>] = k
      /\ \A q \in Mades(M, n) \ {p} : N[<<n, q>>] = M[<<n, q>>]
  <2>1. MadeAlso(M, N, n, p, k)
    BY MadesPut
  <2> HIDE DEF N
  <2> QED BY <2>1 DEF MadeAlso
<1> HIDE DEF g, N
<1>3. History(g, S, X, N, n)
  <2>1. ASSUME NEW q \in Mades(N, n)
        PROVE  DOMAIN g.kernels # {} /\ \E y \in X : q \in Range(y)
    BY <1>1, <1>2 DEF History
  <2>2. IsFiniteSet(S) /\ g.stride \in S
    BY <1>1 DEF History
  <2>3. \A y \in X : Rectangular(y) /\ Stride(y) \in S
    BY DEF History
  <2> QED BY <2>1, <2>2, <2>3 DEF History
<1>4. Finds(g, S, X, N, n)
  <2> SUFFICES ASSUME Cardinality(S) = 1, \A y \in X : Regular(y), NEW q \in Mades(N, n)
               PROVE  /\ linear(g.stride, q) \in DOMAIN g.kernels
                      /\ g.kernels[linear(g.stride, q)] = N[<<n, q>>]
    BY DEF Finds
  <2>1. CASE q = p
    BY <1>1, <1>2, <2>1
  <2>2. CASE q # p
    <3>1. q \in Mades(M, n)
      BY <1>2, <2>2
    <3>2. /\ linear(f.stride, q) \in DOMAIN f.kernels
          /\ f.kernels[linear(f.stride, q)] = M[<<n, q>>]
      BY <3>1 DEF Finds
    <3>3. PICK other \in X : q \in Range(other)
      BY <3>1 DEF History
    <3>4. PICK s : S = {s}
      BY FS_Singleton DEF History
    <3>5. Stride(space) = f.stride /\ Stride(other) = f.stride
      BY <3>4 DEF History
    <3>6. linear(f.stride, q) # i
      <4> SUFFICES ASSUME linear(f.stride, q) = i PROVE FALSE
        OBVIOUS
      <4>1. linear(Stride(space), p) = linear(Stride(space), q)
        BY <3>5
      <4>2. Rectangular(space) /\ Rectangular(other) /\ Regular(space) /\ Regular(other)
        BY DEF History
      <4> QED BY <2>2, <3>3, <3>5, <4>1, <4>2, IndicesDiffer
    <3> QED BY <1>1, <1>2, <2>2, <3>1, <3>2, <3>6
  <2> QED BY <2>1, <2>2
<1> QED BY <1>3, <1>4 DEF g, N

\* A call takes note of its stride and its space.
LEMMA CallNoted ==
  ASSUME NEW f, NEW g, NEW S, NEW X, NEW M, NEW n, NEW space, Rectangular(space),
         g.kernels = f.kernels,
         \/ g.stride \in {f.stride, Stride(space)} /\ History(f, S, X, M, n) /\ Finds(f, S, X, M, n)
         \/ g.stride = Stride(space) /\ S = {} /\ X = {} /\ Mades(M, n) = {}
  PROVE  /\ History(g, S \cup {Stride(space)}, X \cup {space}, M, n)
         /\ Finds(g, S \cup {Stride(space)}, X \cup {space}, M, n)
<1> DEFINE s == Stride(space)
<1> HIDE DEF s
<1>1. CASE g.stride = s /\ S = {} /\ X = {} /\ Mades(M, n) = {}
  <2>1. IsFiniteSet({s}) /\ S \cup {s} = {s} /\ X \cup {space} = {space}
    BY <1>1, FS_Singleton
  <2> QED BY <1>1, <2>1 DEF History, Finds, s
<1>2. CASE g.stride \in {f.stride, s} /\ History(f, S, X, M, n) /\ Finds(f, S, X, M, n)
  <2>1. IsFiniteSet(S \cup {s})
    BY <1>2, FS_AddElement DEF History
  <2>2. History(g, S \cup {s}, X \cup {space}, M, n)
    BY <1>2, <2>1 DEF History, s
  <2>3. Finds(g, S \cup {s}, X \cup {space}, M, n)
    <3> SUFFICES ASSUME Cardinality(S \cup {s}) = 1, \A y \in X \cup {space} : Regular(y)
                 PROVE  \A p \in Mades(M, n) :
                          /\ linear(g.stride, p) \in DOMAIN g.kernels
                          /\ g.kernels[linear(g.stride, p)] = M[<<n, p>>]
      BY DEF Finds
    <3>1. PICK t : S \cup {s} = {t}
      BY <2>1, FS_Singleton
    <3>2. S = {s} /\ g.stride = f.stride
      BY <1>2, <3>1 DEF History
    <3>3. Cardinality(S) = 1
      BY <3>2, FS_Singleton
    <3> QED BY <1>2, <3>2, <3>3 DEF Finds
  <2> QED BY <2>2, <2>3 DEF s
<1> QED BY <1>1, <1>2 DEF s

\* Nothing happens to the kernels of m.
LEMMA HistoryKept ==
  ASSUME NEW f, NEW S, NEW X, NEW M, NEW N, NEW m, History(f, S, X, M, m), Finds(f, S, X, M, m),
         Mades(N, m) = Mades(M, m), \A q \in Mades(M, m) : N[<<m, q>>] = M[<<m, q>>]
  PROVE  History(f, S, X, N, m) /\ Finds(f, S, X, N, m)
<1>1. History(f, S, X, N, m)
  BY DEF History
<1>2. Finds(f, S, X, N, m)
  BY DEF Finds
<1> QED BY <1>1, <1>2

-----------------------------------------------------------------------------
(* The session *)

Kernel == [name : KernelNames, call : 1 .. MaxCalls, param : Parameters,
           namespace : Namespaces, target : Targets]

FamilyInv(n) ==
  /\ n \in DOMAIN strides /\ n \in DOMAIN spaces
  /\ FamilyOk(families[n])
  /\ History(families[n], strides[n], spaces[n], made, n)
  /\ Finds(families[n], strides[n], spaces[n], made, n)

\* The call in progress.
CallOk(c) ==
  /\ DOMAIN c = {"name", "space", "namespace", "target", "stride", "next"}
  /\ c.name \in DOMAIN families
  /\ c.space \in Spaces /\ c.space \in spaces[c.name]
  /\ c.stride = Stride(c.space) /\ c.stride = families[c.name].stride
  /\ c.next \in 1 .. Len(c.space)

SInv ==
  /\ calls \in 0 .. MaxCalls
  /\ kernels \in Seq(Kernel)
  /\ DOMAIN families \subseteq KernelNames /\ IsFiniteSet(DOMAIN families)
  /\ \A n \in DOMAIN families : FamilyInv(n)
  /\ \A n \in KernelNames \ DOMAIN families :
       Mades(made, n) = {} /\ n \notin DOMAIN strides /\ n \notin DOMAIN spaces
  /\ call = {} \/ (calls # 0 /\ \E c \in call : call = {c} /\ CallOk(c))

LEMMA SpacesOk == \A space \in Spaces : Rectangular(space)
BY SessionAssumption DEF Rectangular

LEMMA SInvInit ==
  ASSUME kernels = <<>>, families = Empty, call = {}, calls \in 0 .. MaxCalls,
         made = Empty, strides = Empty, spaces = Empty
  PROVE  SInv
<1>1. DOMAIN Empty = {}
  BY DEF Empty
<1>2. \A n : Mades(made, n) = {}
  BY <1>1, MadesOk
<1>3. kernels \in Seq(Kernel)
  OBVIOUS
<1> QED BY <1>1, <1>2, <1>3, FS_EmptySet DEF SInv

LEMMA OpenOk ==
  ASSUME SInv, Open
  PROVE  calls + 1 \in 1 .. MaxCalls /\ calls + 1 \in 0 .. MaxCalls /\ calls + 1 # 0 /\ call = {}
BY SessionAssumption DEF SInv, Open

LEMMA AddKernelOk ==
  ASSUME SInv, NEW n \in KernelNames, NEW ns \in Namespaces, NEW t \in Targets, addKernel(n, ns, t)
  PROVE  SInv'
<1> DEFINE k == [name |-> n, call |-> calls', param |-> <<>>, namespace |-> ns, target |-> t]
<1>1. /\ calls' = calls + 1 /\ kernels' = Append(kernels, k)
      /\ UNCHANGED <<families, call, made, strides, spaces>>
      /\ Open
  BY DEF addKernel
<1>2. calls' \in 1 .. MaxCalls /\ calls' \in 0 .. MaxCalls /\ call = {}
  BY <1>1, OpenOk
<1>3. k \in Kernel
  BY <1>2 DEF Kernel, Parameters
<1> HIDE DEF k
<1>4. kernels' \in Seq(Kernel)
  BY <1>1, <1>3 DEF SInv
<1>5. \A m : FamilyInv(m) <=> FamilyInv(m)'
  BY <1>1 DEF FamilyInv
<1> QED BY <1>1, <1>2, <1>4, <1>5 DEF SInv

\* The parts of the invariant about families, when one of them changes.
FamiliesChanged(n) ==
  /\ n \in KernelNames
  /\ DOMAIN families' = DOMAIN families \cup {n}
  /\ DOMAIN strides' = DOMAIN strides \cup {n}
  /\ DOMAIN spaces' = DOMAIN spaces \cup {n}
  /\ \A m : m # n => /\ families'[m] = families[m] \/ m \notin DOMAIN families
                     /\ strides'[m] = strides[m] \/ m \notin DOMAIN strides
                     /\ spaces'[m] = spaces[m] \/ m \notin DOMAIN spaces
                     /\ Mades(made', m) = Mades(made, m)
                     /\ \A q \in Mades(made, m) : made'[<<m, q>>] = made[<<m, q>>]

LEMMA FamiliesOk ==
  ASSUME SInv, NEW n, FamiliesChanged(n), FamilyInv(n)'
  PROVE  /\ DOMAIN families' \subseteq KernelNames /\ IsFiniteSet(DOMAIN families')
         /\ \A m \in DOMAIN families' : FamilyInv(m)'
         /\ \A m \in KernelNames \ DOMAIN families' :
              Mades(made', m) = {} /\ m \notin DOMAIN strides' /\ m \notin DOMAIN spaces'
<1>1. DOMAIN families' \subseteq KernelNames
  BY DEF SInv, FamiliesChanged
<1>2. IsFiniteSet(DOMAIN families')
  BY FS_AddElement DEF SInv, FamiliesChanged
<1>3. ASSUME NEW m \in DOMAIN families' PROVE FamilyInv(m)'
  <2> SUFFICES ASSUME m # n PROVE FamilyInv(m)'
    OBVIOUS
  <2>1. m \in DOMAIN families /\ FamilyInv(m)
    BY DEF SInv, FamiliesChanged
  <2>2. /\ m \in DOMAIN strides /\ m \in DOMAIN spaces
        /\ m \in DOMAIN strides' /\ m \in DOMAIN spaces'
        /\ families'[m] = families[m] /\ strides'[m] = strides[m] /\ spaces'[m] = spaces[m]
        /\ Mades(made', m) = Mades(made, m)
        /\ \A q \in Mades(made, m) : made'[<<m, q>>] = made[<<m, q>>]
    BY <2>1 DEF FamiliesChanged, FamilyInv
  <2>3. /\ FamilyOk(families[m])
        /\ History(families[m], strides[m], spaces[m], made, m)
        /\ Finds(families[m], strides[m], spaces[m], made, m)
    BY <2>1 DEF FamilyInv
  <2>4. /\ History(families[m], strides[m], spaces[m], made', m)
        /\ Finds(families[m], strides[m], spaces[m], made', m)
    BY <2>2, <2>3, HistoryKept
  <2> QED BY <2>2, <2>3, <2>4 DEF FamilyInv
<1>4. ASSUME NEW m \in KernelNames \ DOMAIN families'
      PROVE  Mades(made', m) = {} /\ m \notin DOMAIN strides' /\ m \notin DOMAIN spaces'
  BY DEF SInv, FamiliesChanged
<1> QED BY <1>1, <1>2, <1>3, <1>4

LEMMA PutOk ==
  ASSUME NEW f, NEW x, NEW y
  PROVE  /\ DOMAIN Put(f, x, y) = DOMAIN f \cup {x}
         /\ Put(f, x, y)[x] = y
         /\ \A z \in DOMAIN f : z # x => Put(f, x, y)[z] = f[z]
BY DEF Put

\* The call for n takes note of a stride and a space.
LEMMA NotedOk ==
  ASSUME NEW n, NEW stride, NEW space, Noted(n, stride, space)
  PROVE  /\ DOMAIN strides' = DOMAIN strides \cup {n} /\ DOMAIN spaces' = DOMAIN spaces \cup {n}
         /\ strides'[n] = Get(strides, n, {}) \cup {stride}
         /\ spaces'[n] = Get(spaces, n, {}) \cup {space}
         /\ \A m : m # n => /\ strides'[m] = strides[m] \/ m \notin DOMAIN strides
                            /\ spaces'[m] = spaces[m] \/ m \notin DOMAIN spaces
<1>1. /\ strides' = Put(strides, n, Get(strides, n, {}) \cup {stride})
      /\ spaces' = Put(spaces, n, Get(spaces, n, {}) \cup {space})
  BY DEF Noted
<1> DEFINE S == Get(strides, n, {}) \cup {stride}
           X == Get(spaces, n, {}) \cup {space}
<1> HIDE DEF S, X
<1>2. strides' = Put(strides, n, S) /\ spaces' = Put(spaces, n, X)
  BY <1>1 DEF S, X
<1>3. /\ DOMAIN strides' = DOMAIN strides \cup {n} /\ strides'[n] = S
      /\ \A m \in DOMAIN strides : m # n => strides'[m] = strides[m]
  BY <1>2 DEF Put
<1>4. /\ DOMAIN spaces' = DOMAIN spaces \cup {n} /\ spaces'[n] = X
      /\ \A m \in DOMAIN spaces : m # n => spaces'[m] = spaces[m]
  BY <1>2 DEF Put
<1> QED BY <1>3, <1>4 DEF S, X

\* Kernels that are added one at a time.
LEMMA SingleOk ==
  ASSUME NEW g \in Nat
  PROVE  /\ Rectangular(<< <<g>> >>) /\ <<g>> \in Range(<< <<g>> >>)
         /\ Stride(<< <<g>> >>) = <<1>> /\ linear(<<1>>, <<g>>) = g
<1> DEFINE space == << <<g>> >>
           p == <<g>>
           s == <<1>>
<1>1. p \in Seq(Nat) /\ Len(p) = 1 /\ p[1] = g /\ s \in Seq(Nat) /\ Len(s) = 1 /\ s[1] = 1
  OBVIOUS
<1>2. space \in Seq(Seq(Nat)) /\ Len(space) = 1 /\ space[1] = p /\ DOMAIN space = {1}
  BY <1>1
<1> HIDE DEF space, p, s
<1>3. Range(space) = {p}
  BY <1>2 DEF Range
<1>4. Rectangular(space)
  BY <1>2, <1>3 DEF Rectangular
<1>5. Stride(space) = s
  <2>1. Radix(Stride(space), Sizes(space), 1)
    BY <1>1, <1>2, <1>4, StrideOk
  <2>2. Stride(space) \in Seq(Nat) /\ Len(Stride(space)) = 1 /\ Stride(space)[1] = 1
    BY <2>1 DEF Radix
  <2> HIDE DEF s
  <2> QED BY <1>1, <2>2, SeqEqual
<1>6. linear(s, p) = g
  <2>0. Len(p) <= Len(s)
    BY <1>1
  <2>1. PICK f : PartialSums(p, s, f) /\ linear(s, p) = f[Len(p)]
    BY <1>1, <2>0, LinearOk
  <2>2. 1 \in 1 .. Len(p) /\ 1 - 1 = 0
    BY <1>1
  <2>3. f[1] = f[0] + p[1] * s[1] /\ f[0] = 0
    BY <2>1, <2>2 DEF PartialSums
  <2> QED BY <1>1, <2>1, <2>3
<1> QED BY <1>3, <1>4, <1>5, <1>6 DEF space, p, s

LEMMA NewFamilyOk ==
  ASSUME NEW ns
  PROVE  FamilyOk(NewFamily(ns)) /\ NewFamily(ns).stride = <<1>>
<1>1. /\ DOMAIN NewFamily(ns) = {"kernels", "stride", "namespace"}
      /\ NewFamily(ns).kernels = Empty /\ NewFamily(ns).stride = <<1>>
  BY DEF NewFamily
<1>2. DOMAIN Empty = {}
  BY DEF Empty
<1>3. <<1>> \in Seq(Nat)
  OBVIOUS
<1> QED BY <1>1, <1>2, <1>3, FS_EmptySet DEF FamilyOk

\* A family that is there, or a new one.
LEMMA FoundFamily ==
  ASSUME SInv, NEW n \in KernelNames, NEW ns
  PROVE  LET f == Get(families, n, NewFamily(ns))
             S == Get(strides, n, {})
             X == Get(spaces, n, {})
         IN  /\ FamilyOk(f)
             /\ \/ n \in DOMAIN families /\ History(f, S, X, made, n) /\ Finds(f, S, X, made, n)
                \/ f.stride = <<1>> /\ S = {} /\ X = {} /\ Mades(made, n) = {}
<1>1. CASE n \in DOMAIN families
  <2>1. FamilyInv(n)
    BY <1>1 DEF SInv
  <2> QED BY <1>1, <2>1 DEF FamilyInv, Get
<1>2. CASE n \notin DOMAIN families
  <2>1. Mades(made, n) = {} /\ n \notin DOMAIN strides /\ n \notin DOMAIN spaces
    BY <1>2 DEF SInv
  <2> QED BY <1>2, <2>1, NewFamilyOk DEF Get
<1> QED BY <1>1, <1>2

LEMMA AddOk ==
  ASSUME SInv, NEW n \in KernelNames, NEW g \in Groups, NEW ns \in Namespaces, NEW t \in Targets,
         add(n, g, ns, t)
  PROVE  SInv'
<1> DEFINE k == [call |-> calls', param |-> <<g>>, namespace |-> ns, target |-> t]
           f == Get(families, n, NewFamily(""))
           S == Get(strides, n, {})
           X == Get(spaces, n, {})
           p == <<g>>
           space == <<p>>
           h == WithKernel(f, g, k)
           one == <<1>>
<1>1. /\ Open /\ calls' = calls + 1
      /\ families' = Put(families, n, h)
      /\ made' = Put(made, <<n, p>>, k)
      /\ Noted(n, one, space)
      /\ UNCHANGED <<kernels, call>>
  BY DEF add
<1>2. calls' \in 1 .. MaxCalls /\ calls' \in 0 .. MaxCalls /\ call = {}
  BY <1>1, OpenOk
<1>3. g \in Nat
  BY SessionAssumption
<1>4. Keyed(k)
  <2>1. p \in Parameters
    BY DEF Parameters
  <2> QED BY <1>2, <2>1 DEF Keyed
<1>5. /\ Rectangular(space) /\ p \in Range(space)
      /\ Stride(space) = one /\ linear(one, p) = g
  BY <1>3, SingleOk
<1>6. /\ FamilyOk(f)
      /\ \/ History(f, S, X, made, n) /\ Finds(f, S, X, made, n)
         \/ f.stride = one /\ S = {} /\ X = {} /\ Mades(made, n) = {}
  BY FoundFamily
<1> HIDE DEF k, f, S, X, p, space, h, one
<1>7. /\ History(f, S \cup {one}, X \cup {space}, made, n)
      /\ Finds(f, S \cup {one}, X \cup {space}, made, n)
  <2>1. f.kernels = f.kernels
    OBVIOUS
  <2>2. \/ f.stride \in {f.stride, Stride(space)} /\ History(f, S, X, made, n) /\ Finds(f, S, X, made, n)
        \/ f.stride = Stride(space) /\ S = {} /\ X = {} /\ Mades(made, n) = {}
    BY <1>5, <1>6
  <2>3. /\ History(f, S \cup {Stride(space)}, X \cup {space}, made, n)
        /\ Finds(f, S \cup {Stride(space)}, X \cup {space}, made, n)
    BY <1>5, <2>1, <2>2, CallNoted
  <2> QED BY <1>5, <2>3
<1> DEFINE S1 == S \cup {one}
           X1 == X \cup {space}
<1>8. Cardinality(S1) = 1 => g = linear(f.stride, p)
  <2> SUFFICES ASSUME Cardinality(S1) = 1 PROVE f.stride = one
    BY <1>5
  <2>1. IsFiniteSet(S1) /\ f.stride \in S1 /\ one \in S1
    BY <1>7 DEF History
  <2> HIDE DEF S1
  <2>2. PICK s : S1 = {s}
    BY <2>1, FS_Singleton
  <2> QED BY <2>1, <2>2
<1>9. space \in X1
  OBVIOUS
<1>10. History(f, S1, X1, made, n) /\ Finds(f, S1, X1, made, n)
  BY <1>7
<1> HIDE DEF S1, X1
<1>11. History(h, S1, X1, made', n) /\ Finds(h, S1, X1, made', n)
  BY <1>1, <1>3, <1>4, <1>5, <1>6, <1>8, <1>9, <1>10, MemberAdded DEF h
<1>12. FamilyOk(h)
  BY <1>3, <1>4, <1>6, WithKernelOk DEF h
<1>13. /\ DOMAIN families' = DOMAIN families \cup {n} /\ families'[n] = h
       /\ \A m : m # n => families'[m] = families[m] \/ m \notin DOMAIN families
  BY <1>1 DEF Put
<1>14. /\ DOMAIN strides' = DOMAIN strides \cup {n} /\ DOMAIN spaces' = DOMAIN spaces \cup {n}
       /\ strides'[n] = S1 /\ spaces'[n] = X1
       /\ \A m : m # n => /\ strides'[m] = strides[m] \/ m \notin DOMAIN strides
                          /\ spaces'[m] = spaces[m] \/ m \notin DOMAIN spaces
  BY <1>1, NotedOk DEF S1, X1, S, X
<1>15. MadeAlso(made, made', n, p, k)
  BY <1>1, MadesPut
<1>16. FamiliesChanged(n)
  BY <1>13, <1>14, <1>15 DEF FamiliesChanged, MadeAlso
<1>17. FamilyInv(n)'
  BY <1>11, <1>12, <1>13, <1>14 DEF FamilyInv
<1>18. /\ DOMAIN families' \subseteq KernelNames /\ IsFiniteSet(DOMAIN families')
       /\ \A m \in DOMAIN families' : FamilyInv(m)'
       /\ \A m \in KernelNames \ DOMAIN families' :
            Mades(made', m) = {} /\ m \notin DOMAIN strides' /\ m \notin DOMAIN spaces'
  BY <1>16, <1>17, FamiliesOk
<1> QED BY <1>1, <1>2, <1>18 DEF SInv

LEMMA AddFamilyOk ==
  ASSUME SInv, NEW n \in KernelNames, NEW space \in Spaces, NEW ns \in Namespaces, NEW t \in Targets,
         addFamily(n, space, ns, t)
  PROVE  SInv'
<1> DEFINE f == Get(families, n, NewFamily(ns))
           S == Get(strides, n, {})
           X == Get(spaces, n, {})
           s == Stride(space)
           h == [f EXCEPT !.stride = s]
           c == [name |-> n, space |-> space, namespace |-> ns, target |-> t, stride |-> s, next |-> 1]
<1>1. /\ Open /\ calls' = calls + 1
      /\ families' = Put(families, n, h)
      /\ call' = {c}
      /\ Noted(n, s, space)
      /\ UNCHANGED <<kernels, made>>
  BY DEF addFamily
<1>2. calls' \in 0 .. MaxCalls /\ calls' # 0
  BY <1>1, OpenOk
<1>3. Rectangular(space)
  BY SpacesOk
<1>4. /\ FamilyOk(f)
      /\ \/ History(f, S, X, made, n) /\ Finds(f, S, X, made, n)
         \/ S = {} /\ X = {} /\ Mades(made, n) = {}
  BY FoundFamily
<1>5. s \in Seq(Nat)
  BY <1>3, StrideOk DEF Radix
<1> HIDE DEF f, S, X, s
<1>6. DOMAIN h = DOMAIN f /\ h.kernels = f.kernels /\ h.stride = s /\ h.namespace = f.namespace
  BY <1>4 DEF FamilyOk
<1> HIDE DEF h
<1>7. FamilyOk(h)
  BY <1>4, <1>5, <1>6 DEF FamilyOk
<1> DEFINE S1 == S \cup {s}
           X1 == X \cup {space}
<1>8. History(h, S1, X1, made, n) /\ Finds(h, S1, X1, made, n)
  <2>1. \/ h.stride \in {f.stride, Stride(space)} /\ History(f, S, X, made, n) /\ Finds(f, S, X, made, n)
        \/ h.stride = Stride(space) /\ S = {} /\ X = {} /\ Mades(made, n) = {}
    BY <1>4, <1>6 DEF s
  <2>2. /\ History(h, S \cup {Stride(space)}, X \cup {space}, made, n)
        /\ Finds(h, S \cup {Stride(space)}, X \cup {space}, made, n)
    BY <1>3, <1>6, <2>1, CallNoted
  <2> QED BY <2>2 DEF s
<1>9. /\ DOMAIN families' = DOMAIN families \cup {n} /\ families'[n] = h
      /\ \A m : m # n => families'[m] = families[m] \/ m \notin DOMAIN families
  BY <1>1 DEF Put
<1>10. /\ DOMAIN strides' = DOMAIN strides \cup {n} /\ DOMAIN spaces' = DOMAIN spaces \cup {n}
       /\ strides'[n] = S1 /\ spaces'[n] = X1
       /\ \A m : m # n => /\ strides'[m] = strides[m] \/ m \notin DOMAIN strides
                          /\ spaces'[m] = spaces[m] \/ m \notin DOMAIN spaces
  BY <1>1, NotedOk DEF S, X
<1>11. FamiliesChanged(n)
  BY <1>1, <1>9, <1>10 DEF FamiliesChanged
<1>12. FamilyInv(n)'
  BY <1>1, <1>7, <1>8, <1>9, <1>10 DEF FamilyInv
<1>13. /\ DOMAIN families' \subseteq KernelNames /\ IsFiniteSet(DOMAIN families')
       /\ \A m \in DOMAIN families' : FamilyInv(m)'
       /\ \A m \in KernelNames \ DOMAIN families' :
            Mades(made', m) = {} /\ m \notin DOMAIN strides' /\ m \notin DOMAIN spaces'
  BY <1>11, <1>12, FamiliesOk
<1>14. CallOk(c)'
  <2>1. 1 \in 1 .. Len(space)
    BY <1>3 DEF Rectangular
  <2>2. c.name = n /\ c.space = space /\ c.stride = s /\ c.next = 1
    OBVIOUS
  <2>3. DOMAIN c = {"name", "space", "namespace", "target", "stride", "next"}
    OBVIOUS
  <2> HIDE DEF c
  <2> QED BY <1>6, <1>9, <1>10, <2>1, <2>2, <2>3 DEF CallOk, s
<1> HIDE DEF c
<1> QED BY <1>1, <1>2, <1>13, <1>14 DEF SInv

LEMMA AddMemberOk ==
  ASSUME SInv, AddMember
  PROVE  SInv'
<1>1. PICK c \in call :
        LET p      == c.space[c.next]
            kernel == [call |-> calls, param |-> p, namespace |-> c.namespace,
                       target |-> c.target]
        IN  /\ families' = [families EXCEPT ![c.name] =
                              WithKernel(@, linear(c.stride, p), kernel)]
            /\ made' = Put(made, <<c.name, p>>, kernel)
            /\ call' = IF c.next = Len(c.space) THEN {}
                       ELSE {[c EXCEPT !.next = c.next + 1]}
            /\ UNCHANGED <<kernels, calls, strides, spaces>>
  BY DEF AddMember
<1> DEFINE n == c.name
           f == families[n]
           space == c.space
           s == c.stride
           p == space[c.next]
           k == [call |-> calls, param |-> p, namespace |-> c.namespace, target |-> c.target]
           i == linear(s, p)
           h == WithKernel(f, i, k)
           d == [c EXCEPT !.next = c.next + 1]
<1>2. CallOk(c) /\ calls \in 1 .. MaxCalls
  BY DEF SInv
<1>3. n \in DOMAIN families /\ FamilyInv(n) /\ n \in KernelNames
  BY <1>2 DEF CallOk, SInv
<1>4. /\ n \in DOMAIN strides /\ n \in DOMAIN spaces
      /\ FamilyOk(f)
      /\ History(f, strides[n], spaces[n], made, n)
      /\ Finds(f, strides[n], spaces[n], made, n)
  BY <1>3 DEF FamilyInv
<1>5. /\ space \in Spaces /\ space \in spaces[n] /\ s = Stride(space) /\ s = f.stride
      /\ c.next \in 1 .. Len(space)
      /\ DOMAIN c = {"name", "space", "namespace", "target", "stride", "next"}
  BY <1>2 DEF CallOk
<1>6. Rectangular(space)
  BY <1>5, SpacesOk
<1>7. p \in Range(space)
  BY <1>5, <1>6 DEF Rectangular, Range
<1>8. i \in Nat
  <2>1. p \in Seq(Nat) /\ Len(p) = Len(space[1])
    BY <1>6, <1>7, InSpace
  <2>2. Radix(s, Sizes(space), Len(space[1]))
    BY <1>5, <1>6, StrideOk
  <2>3. s \in Seq(Nat) /\ Len(s) = Len(space[1])
    BY <2>2 DEF Radix
  <2>4. Len(p) <= Len(s)
    BY <2>1, <2>3
  <2> HIDE DEF s, p
  <2> QED BY <2>1, <2>3, <2>4, LinearNat
<1>9. Keyed(k)
  <2>1. p \in Parameters
    BY <1>5, <1>7 DEF Parameters
  <2> QED BY <1>2, <2>1 DEF Keyed
<1>10. /\ families' = [families EXCEPT ![n] = h]
       /\ made' = Put(made, <<n, p>>, k)
       /\ call' = IF c.next = Len(space) THEN {} ELSE {d}
       /\ UNCHANGED <<kernels, calls, strides, spaces>>
  BY <1>1
<1>11. /\ d.name = n /\ d.space = space /\ d.stride = s /\ d.next = c.next + 1 /\ DOMAIN d = DOMAIN c
  BY <1>5
<1> HIDE DEF n, f, space, s, p, k, i, h, d
<1>12. /\ History(h, strides[n], spaces[n], made', n)
       /\ Finds(h, strides[n], spaces[n], made', n)
  BY <1>4, <1>5, <1>7, <1>8, <1>9, <1>10, MemberAdded DEF h, i
<1>13. FamilyOk(h) /\ h.stride = f.stride
  BY <1>4, <1>8, <1>9, WithKernelOk DEF h
<1>14. MadeAlso(made, made', n, p, k)
  BY <1>10, MadesPut
<1>15. /\ DOMAIN families' = DOMAIN families \cup {n} /\ families'[n] = h
       /\ \A m : m # n => families'[m] = families[m] \/ m \notin DOMAIN families
  BY <1>3, <1>10
<1>16. FamiliesChanged(n)
  BY <1>3, <1>4, <1>10, <1>14, <1>15 DEF FamiliesChanged, MadeAlso
<1>17. FamilyInv(n)'
  BY <1>4, <1>10, <1>12, <1>13, <1>15 DEF FamilyInv
<1>18. /\ DOMAIN families' \subseteq KernelNames /\ IsFiniteSet(DOMAIN families')
       /\ \A m \in DOMAIN families' : FamilyInv(m)'
       /\ \A m \in KernelNames \ DOMAIN families' :
            Mades(made', m) = {} /\ m \notin DOMAIN strides' /\ m \notin DOMAIN spaces'
  BY <1>16, <1>17, FamiliesOk
<1>19. c.next # Len(space) => CallOk(d)'
  <2> SUFFICES ASSUME c.next # Len(space) PROVE CallOk(d)'
    OBVIOUS
  <2>1. d.next \in 1 .. Len(space)
    BY <1>5, <1>6, <1>11 DEF Rectangular
  <2> QED BY <1>3, <1>5, <1>10, <1>11, <1>13, <1>15, <2>1 DEF CallOk
<1> QED BY <1>2, <1>10, <1>18, <1>19 DEF SInv

LEMMA AstGeneratorRaisesOk ==
  ASSUME SInv, AstGeneratorRaises
  PROVE  SInv'
<1>1. call' = {} /\ UNCHANGED <<kernels, families, calls, made, strides, spaces>>
  BY DEF AstGeneratorRaises
<1>2. \A m : FamilyInv(m) <=> FamilyInv(m)'
  BY <1>1 DEF FamilyInv
<1> QED BY <1>1, <1>2 DEF SInv

LEMMA SessionKept ==
  ASSUME SInv, UNCHANGED session
  PROVE  SInv'
<1>1. UNCHANGED <<kernels, families, call, calls, made, strides, spaces>>
  BY DEF session
<1>2. \A m : FamilyInv(m) <=> FamilyInv(m)'
  BY <1>1 DEF FamilyInv
<1>3. \A c : CallOk(c) <=> CallOk(c)'
  BY <1>1 DEF CallOk
<1> QED BY <1>1, <1>2, <1>3 DEF SInv

\* Another generator, or the end of the last one.
LEMMA SInvReset ==
  ASSUME kernels' = <<>>, families' = Empty, call' = {}, calls' \in 0 .. MaxCalls,
         made' = Empty, strides' = Empty, spaces' = Empty
  PROVE  SInv'
<1>1. DOMAIN Empty = {}
  BY DEF Empty
<1>2. \A n : Mades(made', n) = {}
  BY <1>1, MadesOk
<1>3. kernels' \in Seq(Kernel)
  OBVIOUS
<1> QED BY <1>1, <1>2, <1>3, FS_EmptySet DEF SInv

\* What generate emits of the families.
Emission == [n \in DOMAIN families |-> [ExecutePtrs |-> ExecutePtrs(families[n]),
                                        stride      |-> families[n].stride,
                                        namespace   |-> families[n].namespace]]
EInv ==
  /\ outcome # "none" => call = {}
  /\ emitted = IF outcome = "generated" THEN Emission ELSE Empty

LEMMA SessionInit == OInit => SInv /\ EInv
<1> SUFFICES ASSUME OInit PROVE SInv /\ EInv
  OBVIOUS
<1>1. SInv
  BY SInvInit, SessionAssumption DEF OInit, KInit
<1>2. EInv
  BY DEF EInv, OInit, KInit
<1> QED BY <1>1, <1>2

\* While the session goes on, the emitted code stays as it is.
LEMMA EmittedKept ==
  ASSUME EInv, outcome = "none" \/ UNCHANGED families, UNCHANGED <<emitted, outcome>>,
         outcome = "none" \/ call' = {}
  PROVE  EInv'
<1>1. UNCHANGED families => Emission' = Emission
  BY DEF Emission
<1> QED BY <1>1 DEF EInv

LEMMA SessionStep ==
  ASSUME SInv, EInv, [ONext]_ovars
  PROVE  SInv' /\ EInv'
<1>1. CASE \E n \in KernelNames, ns \in Namespaces, t \in Targets : addKernel(n, ns, t)
  <2> PICK n \in KernelNames, ns \in Namespaces, t \in Targets : addKernel(n, ns, t)
    BY <1>1
  <2>1. Open /\ UNCHANGED <<emitted, outcome>>
    BY DEF addKernel, result
  <2>2. EInv'
    BY <2>1, EmittedKept DEF Open
  <2>3. SInv'
    BY AddKernelOk
  <2> QED BY <2>2, <2>3
<1>2. CASE \E n \in KernelNames, g \in Groups, ns \in Namespaces, t \in Targets : add(n, g, ns, t)
  <2> PICK n \in KernelNames, g \in Groups, ns \in Namespaces, t \in Targets : add(n, g, ns, t)
    BY <1>2
  <2>1. Open /\ UNCHANGED <<emitted, outcome>>
    BY DEF add, result
  <2>2. EInv'
    BY <2>1, EmittedKept DEF Open
  <2>3. SInv'
    BY AddOk
  <2> QED BY <2>2, <2>3
<1>3. CASE \E n \in KernelNames, space \in Spaces, ns \in Namespaces, t \in Targets :
             addFamily(n, space, ns, t)
  <2> PICK n \in KernelNames, space \in Spaces, ns \in Namespaces, t \in Targets :
             addFamily(n, space, ns, t)
    BY <1>3
  <2>1. Open /\ UNCHANGED <<emitted, outcome>>
    BY DEF addFamily, result
  <2>2. EInv'
    BY <2>1, EmittedKept DEF Open
  <2>3. SInv'
    BY AddFamilyOk
  <2> QED BY <2>2, <2>3
<1>4. CASE AddMember
  <2>1. call # {} /\ UNCHANGED <<emitted, outcome>>
    BY <1>4 DEF AddMember, result
  <2>2. EInv'
    BY <2>1, EmittedKept DEF EInv
  <2> QED BY <1>4, <2>2, AddMemberOk
<1>5. CASE AstGeneratorRaises
  <2>1. call # {} /\ UNCHANGED <<emitted, outcome>>
    BY <1>5 DEF AstGeneratorRaises, result
  <2>2. EInv'
    BY <2>1, EmittedKept DEF EInv
  <2> QED BY <1>5, <2>2, AstGeneratorRaisesOk
<1>6. CASE generate
  <2>1. /\ outcome = "none" /\ call = {} /\ UNCHANGED session
        /\ \/ outcome' = "raised" /\ UNCHANGED emitted
           \/ outcome' = "generated" /\ emitted' = Emission
    BY <1>6 DEF generate, Emission
  <2>2. Emission' = Emission /\ call' = {}
    BY <2>1 DEF Emission, session
  <2>3. EInv'
    BY <2>1, <2>2 DEF EInv
  <2> QED BY <2>1, <2>3, SessionKept
<1>7. CASE NewGenerator
  <2>1. /\ kernels' = <<>> /\ families' = Empty /\ call' = {} /\ calls' \in 0 .. MaxCalls
        /\ made' = Empty /\ strides' = Empty /\ spaces' = Empty
        /\ emitted' = Empty /\ outcome' = "none"
    BY <1>7 DEF NewGenerator, EInv, SInv
  <2>2. EInv'
    BY <2>1 DEF EInv
  <2> QED BY <2>1, <2>2, SInvReset
<1>8. CASE Declare
  <2>1. /\ kernels' = <<>> /\ families' = Empty /\ call' = {} /\ calls' \in 0 .. MaxCalls
        /\ made' = Empty /\ strides' = Empty /\ spaces' = Empty
        /\ emitted' = Empty /\ outcome' = "ended"
    BY <1>8, SessionAssumption DEF Declare
  <2>2. EInv'
    BY <2>1 DEF EInv
  <2> QED BY <2>1, <2>2, SInvReset
<1>9. CASE UNCHANGED kvars
  <2>1. UNCHANGED session /\ UNCHANGED <<families, call, emitted, outcome>>
    BY <1>9 DEF kvars, session, result
  <2>2. EInv'
    BY <2>1, EmittedKept DEF EInv
  <2> QED BY <2>1, <2>2, SessionKept
<1> QED BY <1>1, <1>2, <1>3, <1>4, <1>5, <1>6, <1>7, <1>8, <1>9 DEF ONext, KNext, ovars

LEMMA SessionInvariant == OSpec => [](SInv /\ EInv)
<1>1. SInv /\ EInv /\ [ONext]_ovars => (SInv /\ EInv)'
  BY SessionStep
<1> QED BY <1>1, SessionInit, PTL DEF OSpec

-----------------------------------------------------------------------------
(* What the arrays of execute functions hold *)

LEMMA MaxOk ==
  ASSUME NEW S, IsFiniteSet(S), S \subseteq Int, S # {}
  PROVE  Max(S) \in S /\ \A x \in S : x <= Max(S)
<1>1. PICK m \in S : \A y \in S : m >= y
  BY GreatestNumber
<1>2. Max(S) \in S /\ \A y \in S : Max(S) >= y
  BY <1>1 DEF Max
<1> QED BY <1>2

LEMMA ExecutePtrsOk ==
  ASSUME NEW f, FamilyOk(f)
  PROVE  /\ \A i \in DOMAIN f.kernels : /\ i \in DOMAIN ExecutePtrs(f)
                                        /\ ExecutePtrs(f)[i] = {f.kernels[i]}
         /\ DOMAIN f.kernels # {} => UNION Range(ExecutePtrs(f)) = Range(f.kernels)
<1> DEFINE D == DOMAIN f.kernels
           e == ExecutePtrs(f)
<1>1. D \subseteq Nat /\ IsFiniteSet(D)
  BY DEF FamilyOk
<1> SUFFICES ASSUME D # {}
             PROVE  /\ \A i \in D : i \in DOMAIN e /\ e[i] = {f.kernels[i]}
                    /\ UNION Range(e) = Range(f.kernels)
  OBVIOUS
<1>2. Length(f) = Max(D) + 1
  BY DEF Length
<1>3. Max(D) \in D /\ \A x \in D : x <= Max(D)
  BY <1>1, MaxOk
<1>4. DOMAIN e = 0 .. Max(D)
  BY <1>1, <1>2, <1>3 DEF ExecutePtrs
<1>5. \A i \in DOMAIN e : e[i] = {f.kernels[l] : l \in {i} \cap D}
  BY DEF ExecutePtrs
<1>6. \A i \in D : i \in DOMAIN e
  BY <1>1, <1>3, <1>4
<1> HIDE DEF D, e
<1>7. \A i \in D : e[i] = {f.kernels[i]}
  BY <1>5, <1>6
<1>8. UNION Range(e) = Range(f.kernels)
  <2>1. ASSUME NEW x \in UNION Range(e) PROVE x \in Range(f.kernels)
    BY <1>5 DEF Range, D
  <2>2. ASSUME NEW x \in Range(f.kernels) PROVE x \in UNION Range(e)
    <3>1. PICK i \in D : x = f.kernels[i]
      BY DEF Range, D
    <3>2. x \in e[i] /\ e[i] \in Range(e)
      BY <1>6, <1>7, <3>1 DEF Range
    <3> QED BY <3>2
  <2> QED BY <2>1, <2>2
<1> QED BY <1>6, <1>7, <1>8

\* findExecute returns, for all the parameters that a kernel was made for, the
\* last kernel made for them, in whatever order and however often kernels and
\* families of any names and spaces are added, and even after a callback has
\* raised; the calls for the family must have used one stride and regular
\* spaces.
THEOREM FamiliesFindTheirKernels == OSpec => []FindsOwnKernel
<1>1. SInv /\ EInv => FindsOwnKernel
  <2> SUFFICES ASSUME SInv, EInv, NEW n \in DOMAIN emitted,
                      Cardinality(strides[n]) = 1, \A space \in spaces[n] : Regular(space),
                      NEW p \in MadeFor(n)
               PROVE  LET index == linear(emitted[n].stride, p)
                      IN  /\ index \in DOMAIN emitted[n].ExecutePtrs
                          /\ emitted[n].ExecutePtrs[index] = {made[<<n, p>>]}
    BY DEF FindsOwnKernel
  <2>1. emitted = Emission /\ n \in DOMAIN families
    <3>1. DOMAIN Empty = {}
      BY DEF Empty
    <3> QED BY <3>1 DEF EInv, Emission
  <2> DEFINE f == families[n]
  <2>2. emitted[n].stride = f.stride /\ emitted[n].ExecutePtrs = ExecutePtrs(f)
    BY <2>1 DEF Emission
  <2>3. FamilyOk(f) /\ Finds(f, strides[n], spaces[n], made, n)
    BY <2>1 DEF SInv, FamilyInv
  <2>4. p \in Mades(made, n)
    BY DEF MadeFor, Mades
  <2> HIDE DEF f
  <2>5. /\ linear(f.stride, p) \in DOMAIN f.kernels
        /\ f.kernels[linear(f.stride, p)] = made[<<n, p>>]
    BY <2>3, <2>4 DEF Finds
  <2>6. /\ linear(f.stride, p) \in DOMAIN ExecutePtrs(f)
        /\ ExecutePtrs(f)[linear(f.stride, p)] = {f.kernels[linear(f.stride, p)]}
    BY <2>3, <2>5, ExecutePtrsOk
  <2> QED BY <2>2, <2>5, <2>6
<1> QED BY <1>1, SessionInvariant, PTL

\* The class of a family is in the namespace that its unit tests name, if all
\* members agree on one.
THEOREM FamilyTestsNameTheirClass == OSpec => []TestsNameTheirFamily
<1>1. SInv /\ EInv => TestsNameTheirFamily
  <2> SUFFICES ASSUME SInv, EInv, NEW n \in DOMAIN emitted,
                      \A k, l \in UNION Range(emitted[n].ExecutePtrs) : k.namespace = l.namespace,
                      NEW k \in UNION Range(emitted[n].ExecutePtrs)
               PROVE  k.namespace = emitted[n].namespace
    BY DEF TestsNameTheirFamily
  <2>1. emitted = Emission /\ n \in DOMAIN families
    <3>1. DOMAIN Empty = {}
      BY DEF Empty
    <3> QED BY <3>1 DEF EInv, Emission
  <2> DEFINE f == families[n]
  <2>2. emitted[n].namespace = f.namespace /\ emitted[n].ExecutePtrs = ExecutePtrs(f)
    BY <2>1 DEF Emission
  <2>3. FamilyOk(f)
    BY <2>1 DEF SInv, FamilyInv
  <2> HIDE DEF f
  <2>4. DOMAIN f.kernels # {}
    <3>1. PICK i \in DOMAIN ExecutePtrs(f) : k \in ExecutePtrs(f)[i]
      BY <2>2 DEF Range
    <3> QED BY <3>1 DEF ExecutePtrs
  <2>5. PICK i \in DOMAIN f.kernels : f.kernels[i].namespace = f.namespace
    BY <2>3, <2>4 DEF FamilyOk
  <2>6. f.kernels[i] \in UNION Range(emitted[n].ExecutePtrs)
    BY <2>2, <2>3, <2>4, ExecutePtrsOk DEF Range
  <2> QED BY <2>2, <2>5, <2>6
<1> QED BY <1>1, SessionInvariant, PTL

-----------------------------------------------------------------------------
(* The cache of routines *)

\* One turn of the loop over the requests.
AddRequest(r, c) ==
  IF c.raised \/ Clashes(c.cache, r.name, r.routine) THEN [c EXCEPT !.raised = TRUE]
  ELSE [c EXCEPT !.cache = addRoutine(@, r.name, r.routine)]

\* f are the states of the loop after each set of requests.
Turns(f, S) ==
  f = [s \in SUBSET S |-> IF s = {} THEN [raised |-> FALSE, cache |-> cache]
                          ELSE AddRequest(Chosen(s), f[s \ {Chosen(s)}])]

LEMMA AddedTurns ==
  ASSUME NEW S
  PROVE  Added(S) = (CHOOSE f : Turns(f, S))[S]
BY DEF Added, FoldSet, MapThenFoldSet, Turns, AddRequest, Chosen

\* Caches with the given names, routines and headers.
Caches(N, R, H) == [routines : UNION {[D -> R] : D \in SUBSET N}, headers : SUBSET H]
CacheOk == cache \in Caches(DOMAIN cache.routines, Range(cache.routines), cache.headers)

LEMMA SameRoutineEquivalence ==
  ASSUME NEW r, NEW s
  PROVE  /\ SameRoutine(r, r)
         /\ SameRoutine(r, s) => SameRoutine(s, r)
         /\ \A t : SameRoutine(r, s) /\ SameRoutine(s, t) => SameRoutine(r, t)
BY DEF SameRoutine

LEMMA AddRoutineOk ==
  ASSUME NEW N, NEW R, NEW H, NEW c \in Caches(N, R, H), NEW r, r.name \in N, r.routine \in R,
         r.routine.class \in H
  PROVE  LET d == addRoutine(c, r.name, r.routine)
         IN  /\ d \in Caches(N, R, H)
             /\ DOMAIN d.routines = DOMAIN c.routines \cup {r.name}
             /\ d.routines[r.name] = r.routine
             /\ \A n \in DOMAIN c.routines \ {r.name} : d.routines[n] = c.routines[n]
<1> DEFINE d == addRoutine(c, r.name, r.routine)
           D == DOMAIN c.routines \cup {r.name}
           g == [n \in D |-> IF n = r.name THEN r.routine ELSE c.routines[n]]
           h == c.headers \cup {r.routine.class}
<1>1. d = [routines |-> g, headers |-> h]
  BY DEF addRoutine
<1>2. PICK C \in SUBSET N : c.routines \in [C -> R]
  BY DEF Caches
<1>3. h \in SUBSET H
  BY DEF Caches
<1>4. D \in SUBSET N /\ g \in [D -> R]
  BY <1>2
<1>5. d \in Caches(N, R, H)
  <2> HIDE DEF g, h, d, D
  <2>1. g \in UNION {[E -> R] : E \in SUBSET N}
    BY <1>4
  <2> QED BY <1>1, <1>3, <2>1 DEF Caches
<1> QED BY <1>1, <1>5

States(N, R, H) == [raised : BOOLEAN, cache : Caches(N, R, H)]

LEMMA AddRequestOk ==
  ASSUME NEW N, NEW R, NEW H, NEW c \in States(N, R, H), NEW r, r.name \in N, r.routine \in R,
         r.routine.class \in H
  PROVE  AddRequest(r, c) \in States(N, R, H)
<1>1. c.cache \in Caches(N, R, H) /\ c.raised \in BOOLEAN /\ c = [raised |-> c.raised, cache |-> c.cache]
  BY DEF States
<1>2. addRoutine(c.cache, r.name, r.routine) \in Caches(N, R, H)
  BY <1>1, AddRoutineOk
<1> DEFINE d == addRoutine(c.cache, r.name, r.routine)
<1> DEFINE x == c.raised
           y == c.cache
<1> HIDE DEF d, x, y
<1>6. c = [raised |-> x, cache |-> y] /\ x \in BOOLEAN /\ y \in Caches(N, R, H)
  BY <1>1 DEF x, y
<1> DEFINE yes == TRUE
<1>8. yes \in BOOLEAN
  OBVIOUS
<1> HIDE DEF yes
<1>3. [c EXCEPT !.raised = yes] = [raised |-> yes, cache |-> y]
  BY <1>6
<1>4. [c EXCEPT !.cache = addRoutine(@, r.name, r.routine)] = [raised |-> x, cache |-> d]
  <2>1. [c EXCEPT !.cache = addRoutine(@, r.name, r.routine)] = [c EXCEPT !.cache = d]
    BY <1>6 DEF d
  <2> QED BY <1>6, <2>1
<1>5. d \in Caches(N, R, H)
  BY <1>2 DEF d
<1>7. AddRequest(r, c) = [raised |-> yes, cache |-> y] \/ AddRequest(r, c) = [raised |-> x, cache |-> d]
  BY <1>3, <1>4 DEF AddRequest, yes
<1> QED BY <1>5, <1>6, <1>7, <1>8 DEF States

RequestNames(S) == DOMAIN cache.routines \cup {r.name : r \in S}
RequestRoutines(S) == Range(cache.routines) \cup {r.routine : r \in S}
RequestHeaders(S) == cache.headers \cup {r.routine.class : r \in S}

LEMMA TurnsExist ==
  ASSUME NEW S, IsFiniteSet(S), CacheOk
  PROVE  \E f \in [SUBSET S -> States(RequestNames(S), RequestRoutines(S), RequestHeaders(S))] : Turns(f, S)
<1> DEFINE N == RequestNames(S)
           R == RequestRoutines(S)
           H == RequestHeaders(S)
           T == States(N, R, H)
           base == [raised |-> FALSE, cache |-> cache]
           step == [q \in S \X T |-> AddRequest(q[1], q[2])]
           pick == [s \in (SUBSET S) \ {{}} |-> Chosen(s)]
<1>1. base \in T
  <2>1. PICK D \in SUBSET DOMAIN cache.routines : cache.routines \in [D -> Range(cache.routines)]
    BY DEF CacheOk, Caches
  <2>2. D \in SUBSET N /\ cache.routines \in [D -> R]
    BY <2>1 DEF RequestNames, RequestRoutines
  <2>3. cache.headers \in SUBSET H /\ cache = [routines |-> cache.routines, headers |-> cache.headers]
    BY DEF CacheOk, Caches, RequestHeaders
  <2> HIDE DEF N, R, H
  <2>4. cache.routines \in UNION {[E -> R] : E \in SUBSET N}
    BY <2>2
  <2>5. cache \in Caches(N, R, H)
    BY <2>3, <2>4 DEF Caches
  <2> QED BY <2>5 DEF States
<1>2. step \in SetSteps(S, T)
  <2>1. ASSUME NEW r \in S, NEW c \in T PROVE AddRequest(r, c) \in T
    <3>1. r.name \in N /\ r.routine \in R /\ r.routine.class \in H
      BY DEF RequestNames, RequestRoutines, RequestHeaders
    <3> HIDE DEF N, R, H
    <3> QED BY <3>1, AddRequestOk
  <2> HIDE DEF T
  <2> QED BY <2>1 DEF SetSteps
<1>3. pick \in Picks(S)
  <2>1. \A s \in (SUBSET S) \ {{}} : Chosen(s) \in s /\ Chosen(s) \in S
    BY DEF Chosen
  <2> QED BY <2>1 DEF Picks
<1> HIDE DEF N, R, H, T, base, step, pick
<1>0. PICK f : SetSolves(f, S, T, base, step, pick)
  BY <1>1, <1>2, <1>3, SetRecursionExists
<1>4. /\ f \in [SUBSET S -> T]
      /\ f[{}] = base
      /\ \A s \in (SUBSET S) \ {{}} : f[s] = step[<<pick[s], f[s \ {pick[s]}]>>]
  BY <1>0 DEF SetSolves
<1>5. Turns(f, S)
  <2>1. ASSUME NEW s \in (SUBSET S) \ {{}} PROVE f[s] = AddRequest(Chosen(s), f[s \ {Chosen(s)}])
    <3>1. pick[s] = Chosen(s)
      BY DEF pick
    <3>3. Chosen(s) \in s
      BY DEF Chosen
    <3>4. s \ {Chosen(s)} \in SUBSET S
      OBVIOUS
    <3>2. f[s \ {Chosen(s)}] \in T /\ Chosen(s) \in S
      BY <1>4, <3>3, <3>4
    <3> QED BY <1>4, <3>1, <3>2 DEF step
  <2>2. {} \in SUBSET S
    OBVIOUS
  <2>3. f = [s \in SUBSET S |-> IF s = {} THEN base ELSE AddRequest(Chosen(s), f[s \ {Chosen(s)}])]
    BY <1>4, <2>1, <2>2
  <2> QED BY <2>3 DEF Turns, base
<1> QED BY <1>4, <1>5 DEF N, R, H, T

\* What is known of the loop after the requests S.
KeptRoutines(c, S) ==
  /\ \A r \in S : /\ r.name \in DOMAIN c.cache.routines
                  /\ SameRoutine(c.cache.routines[r.name], r.routine)
  /\ \A n \in DOMAIN cache.routines : /\ n \in DOMAIN c.cache.routines
                                      /\ SameRoutine(c.cache.routines[n], cache.routines[n])
Entries(c, S) ==
  \A n \in DOMAIN c.cache.routines :
    \/ n \in DOMAIN cache.routines /\ c.cache.routines[n] = cache.routines[n]
    \/ \E r \in S : r.name = n /\ c.cache.routines[n] = r.routine
Conflict(S) ==
  \E r \in S :
    \/ \E q \in S : q.name = r.name /\ ~ SameRoutine(q.routine, r.routine)
    \/ r.name \in DOMAIN cache.routines /\ ~ SameRoutine(cache.routines[r.name], r.routine)
LoopOk(c, S) ==
  /\ Entries(c, S)
  /\ c.raised => Conflict(S)
  /\ ~ c.raised => KeptRoutines(c, S)

LEMMA LoopStart == LoopOk([raised |-> FALSE, cache |-> cache], {})
<1> DEFINE no == FALSE
           c == [raised |-> no, cache |-> cache]
<1> HIDE DEF no
<1>1. c.raised = no /\ c.cache = cache
  OBVIOUS
<1> HIDE DEF c
<1>2. LoopOk(c, {})
  BY <1>1, SameRoutineEquivalence DEF LoopOk, Entries, KeptRoutines, no
<1> QED BY <1>2 DEF c, no

LEMMA LoopTurn ==
  ASSUME NEW N, NEW R, NEW H, NEW S, NEW r \in S, r.name \in N, r.routine \in R, r.routine.class \in H,
         NEW c \in States(N, R, H), LoopOk(c, S \ {r})
  PROVE  LoopOk(AddRequest(r, c), S)
<1> DEFINE d == AddRequest(r, c)
           e == addRoutine(c.cache, r.name, r.routine)
           yes == TRUE
<1> HIDE DEF yes
<1>0. Entries(c, S \ {r}) => Entries(c, S)
  BY DEF Entries
<1>1. CASE c.raised \/ Clashes(c.cache, r.name, r.routine)
  <2>1. d = [c EXCEPT !.raised = yes]
    BY <1>1 DEF AddRequest, yes
  <2>2. d.raised = yes /\ d.cache = c.cache
    BY <2>1 DEF States
  <2> HIDE DEF d
  <2>3. Entries(d, S)
    BY <1>0, <2>2 DEF LoopOk, Entries
  <2>4. Conflict(S)
    <3>1. CASE c.raised
      BY <3>1 DEF LoopOk, Conflict
    <3>2. CASE Clashes(c.cache, r.name, r.routine)
      <4>1. /\ r.name \in DOMAIN c.cache.routines
            /\ ~ SameRoutine(c.cache.routines[r.name], r.routine)
        BY <3>2 DEF Clashes
      <4> QED BY <4>1 DEF LoopOk, Entries, Conflict
    <3> QED BY <1>1, <3>1, <3>2
  <2>5. LoopOk(d, S)
    BY <2>2, <2>3, <2>4 DEF LoopOk, yes
  <2> QED BY <2>5 DEF d
<1>2. CASE ~ c.raised /\ ~ Clashes(c.cache, r.name, r.routine)
  <2>1. d = [c EXCEPT !.cache = e]
    BY <1>2 DEF AddRequest
  <2>2. d.raised = c.raised /\ d.cache = e
    BY <2>1 DEF States
  <2>3. /\ DOMAIN e.routines = DOMAIN c.cache.routines \cup {r.name}
        /\ e.routines[r.name] = r.routine
        /\ \A n \in DOMAIN c.cache.routines \ {r.name} : e.routines[n] = c.cache.routines[n]
    <3>1. c.cache \in Caches(N, R, H)
      BY DEF States
    <3> QED BY <3>1, AddRoutineOk
  <2>4. r.name \in DOMAIN c.cache.routines => SameRoutine(c.cache.routines[r.name], r.routine)
    BY <1>2 DEF Clashes
  <2>5. KeptRoutines(c, S \ {r}) /\ Entries(c, S \ {r})
    BY <1>2 DEF LoopOk
  <2> HIDE DEF d, e
  <2>6. Entries(d, S)
    BY <2>2, <2>3, <2>5 DEF Entries
  <2>7. KeptRoutines(d, S)
    <3>1. ASSUME NEW n \in DOMAIN c.cache.routines
          PROVE  n \in DOMAIN e.routines /\ SameRoutine(e.routines[n], c.cache.routines[n])
      BY <2>3, <2>4, SameRoutineEquivalence
    <3>2. ASSUME NEW q \in S
          PROVE  q.name \in DOMAIN e.routines /\ SameRoutine(e.routines[q.name], q.routine)
      <4>1. CASE q = r
        BY <2>3, <4>1, SameRoutineEquivalence
      <4>2. CASE q # r
        <5>1. q.name \in DOMAIN c.cache.routines /\ SameRoutine(c.cache.routines[q.name], q.routine)
          BY <2>5, <4>2 DEF KeptRoutines
        <5> QED BY <3>1, <5>1, SameRoutineEquivalence
      <4> QED BY <4>1, <4>2
    <3>3. ASSUME NEW n \in DOMAIN cache.routines
          PROVE  n \in DOMAIN e.routines /\ SameRoutine(e.routines[n], cache.routines[n])
      <4>1. n \in DOMAIN c.cache.routines /\ SameRoutine(c.cache.routines[n], cache.routines[n])
        BY <2>5 DEF KeptRoutines
      <4> QED BY <3>1, <4>1, SameRoutineEquivalence
    <3> QED BY <2>2, <3>2, <3>3 DEF KeptRoutines
  <2>8. LoopOk(d, S)
    BY <1>2, <2>2, <2>6, <2>7 DEF LoopOk
  <2> QED BY <2>8 DEF d
<1> QED BY <1>1, <1>2

LEMMA AddedOk ==
  ASSUME NEW S, IsFiniteSet(S), CacheOk
  PROVE  /\ Added(S) \in States(RequestNames(S), RequestRoutines(S), RequestHeaders(S))
         /\ LoopOk(Added(S), S)
<1> DEFINE N == RequestNames(S)
           R == RequestRoutines(S)
           H == RequestHeaders(S)
           f == CHOOSE g : Turns(g, S)
           P == {s \in SUBSET S : f[s] \in States(N, R, H) /\ LoopOk(f[s], s)}
           base == [raised |-> FALSE, cache |-> cache]
<1>1. PICK g \in [SUBSET S -> States(N, R, H)] : Turns(g, S)
  BY TurnsExist
<1>2. Turns(f, S)
  BY <1>1
<1>3. Added(S) = f[S]
  BY AddedTurns
<1> HIDE DEF f
<1>4. /\ f[{}] = base /\ g[{}] = base
      /\ \A s \in (SUBSET S) \ {{}} : f[s] = AddRequest(Chosen(s), f[s \ {Chosen(s)}])
  <2> HIDE DEF base
  <2>1. {} \in SUBSET S
    OBVIOUS
  <2> QED BY <1>1, <1>2, <2>1 DEF Turns, base
<1>5. base \in States(N, R, H)
  BY <1>1, <1>4
<1>6. {} \in P
  <2>1. LoopOk(base, {})
    BY LoopStart
  <2> HIDE DEF base, N, R, H
  <2> QED BY <1>4, <1>5, <2>1
<1>7. ASSUME NEW s \in SUBSET S, s # {}, \A y \in s : s \ {y} \in P
      PROVE  s \in P
  <2>1. Chosen(s) \in s
    BY <1>7 DEF Chosen
  <2> DEFINE r == Chosen(s)
             c == f[s \ {r}]
  <2>2. c \in States(N, R, H) /\ LoopOk(c, s \ {r})
    BY <1>7, <2>1
  <2>3. f[s] = AddRequest(r, c)
    BY <1>4, <1>7
  <2>4. r.name \in N /\ r.routine \in R /\ r.routine.class \in H
    BY <2>1 DEF RequestNames, RequestRoutines, RequestHeaders
  <2> HIDE DEF r, c, N, R, H
  <2>5. AddRequest(r, c) \in States(N, R, H)
    BY <2>2, <2>4, AddRequestOk
  <2>6. LoopOk(AddRequest(r, c), s)
    BY <2>1, <2>2, <2>4, LoopTurn DEF r
  <2> QED BY <2>3, <2>5, <2>6
<1> HIDE DEF P
<1>8. SUBSET S \subseteq P
  BY <1>6, <1>7, FiniteSetInduction
<1>9. S \in P
  BY <1>8
<1> QED BY <1>3, <1>9 DEF P

-----------------------------------------------------------------------------
(* The requests of a session are finitely many *)

\* The image of a finite set under a function.
LEMMA RangeFinite ==
  ASSUME NEW f, IsFiniteSet(DOMAIN f), f = [x \in DOMAIN f |-> f[x]]
  PROVE  IsFiniteSet(Range(f))
<1>1. f \in Surjection(DOMAIN f, Range(f))
  <2>1. f \in [DOMAIN f -> Range(f)]
    BY DEF Range
  <2>2. \A y \in Range(f) : \E x \in DOMAIN f : f[x] = y
    BY DEF Range
  <2> QED BY <2>1, <2>2 DEF Surjection
<1> QED BY <1>1, FS_Surjection

\* What one GEMM asks for.
AsksFor(c) ==
  {[name |-> RoutineName(tool, Arch, c), routine |-> GemmRoutine(tool, Arch, c)] :
     tool \in getGemmTool(DefaultTools(Arch), Arch, c) \cap CodeGenerators}
Asks(kernel, g) == AsksFor([g EXCEPT !.target = kernel.target])

LEMMA RequestsFinite ==
  ASSUME NEW k, Keyed(k)
  PROVE  IsFiniteSet(Requests(k))
<1> DEFINE G == Program(k).gemms
           f == [g \in G |-> Asks(k, g)]
<1>1. IsFiniteSet(G)
  BY ProgramAssumption DEF Keyed, Program
<1>2. Requests(k) = UNION Range(f)
  <2>1. Range(f) = {Asks(k, g) : g \in G}
    BY DEF Range
  <2>2. Requests(k) = UNION {AsksFor(c) : c \in {[g EXCEPT !.target = k.target] : g \in G}}
    BY DEF Requests, AsksFor
  <2>3. {AsksFor(c) : c \in {[g EXCEPT !.target = k.target] : g \in G}} = {Asks(k, g) : g \in G}
    BY DEF Asks
  <2> QED BY <2>1, <2>2, <2>3
<1> HIDE DEF G
<1>3. ASSUME NEW g \in G PROVE IsFiniteSet(Asks(k, g))
  <2> DEFINE c == [g EXCEPT !.target = k.target]
             T == getGemmTool(DefaultTools(Arch), Arch, c) \cap CodeGenerators
             h == [t \in T |-> [name |-> RoutineName(t, Arch, c), routine |-> GemmRoutine(t, Arch, c)]]
  <2>1. IsFiniteSet({"libxsmm_jit", "libxsmm", "pspamm"})
    <3>1. IsFiniteSet({"libxsmm_jit"})
      BY FS_Singleton
    <3>2. IsFiniteSet({"libxsmm_jit"} \cup {"libxsmm"})
      BY <3>1, FS_AddElement
    <3>3. IsFiniteSet(({"libxsmm_jit"} \cup {"libxsmm"}) \cup {"pspamm"})
      BY <3>2, FS_AddElement
    <3>4. ({"libxsmm_jit"} \cup {"libxsmm"}) \cup {"pspamm"} = {"libxsmm_jit", "libxsmm", "pspamm"}
      OBVIOUS
    <3> QED BY <3>3, <3>4
  <2>2. IsFiniteSet(T)
    BY <2>1, FS_Subset DEF CodeGenerators
  <2>3. Asks(k, g) = Range(h)
    BY DEF Asks, AsksFor, Range
  <2> HIDE DEF T
  <2>4. DOMAIN h = T /\ h = [t \in DOMAIN h |-> h[t]]
    OBVIOUS
  <2> HIDE DEF h
  <2> QED BY <2>2, <2>3, <2>4, RangeFinite
<1>4. IsFiniteSet(Range(f))
  <2>1. DOMAIN f = G /\ f = [g \in DOMAIN f |-> f[g]]
    OBVIOUS
  <2> HIDE DEF f
  <2> QED BY <1>1, <2>1, RangeFinite
<1>5. \A A \in Range(f) : IsFiniteSet(A)
  BY <1>3 DEF Range
<1> HIDE DEF f
<1> QED BY <1>2, <1>4, <1>5, FS_UNION

LEMMA AllKernelsKeyed ==
  ASSUME SInv
  PROVE  \A k \in AllKernels : Keyed(k)
<1>1. ASSUME NEW k \in Range(kernels) PROVE Keyed(k)
  <2>1. PICK i \in DOMAIN kernels : k = kernels[i]
    BY DEF Range
  <2>2. kernels \in Seq(Kernel)
    BY DEF SInv
  <2>3. k \in Kernel
    BY <2>1, <2>2
  <2> QED BY <2>3 DEF Kernel, Keyed
<1>2. ASSUME NEW n \in DOMAIN families, NEW k \in Range(families[n].kernels) PROVE Keyed(k)
  <2>1. FamilyOk(families[n])
    BY DEF SInv, FamilyInv
  <2> QED BY <2>1 DEF FamilyOk, Range
<1> QED BY <1>1, <1>2 DEF AllKernels

LEMMA AllKernelsFinite ==
  ASSUME SInv
  PROVE  IsFiniteSet(AllKernels)
<1>1. IsFiniteSet(Range(kernels))
  <2>1. kernels \in Seq(Kernel)
    BY DEF SInv
  <2>2. DOMAIN kernels = 1 .. Len(kernels) /\ Len(kernels) \in Nat
        /\ kernels = [i \in DOMAIN kernels |-> kernels[i]]
    BY <2>1
  <2>3. IsFiniteSet(DOMAIN kernels)
    BY <2>2, FS_Interval
  <2> QED BY <2>2, <2>3, RangeFinite
<1>2. ASSUME NEW n \in DOMAIN families PROVE IsFiniteSet(Range(families[n].kernels))
  <2>1. FamilyOk(families[n])
    BY DEF SInv, FamilyInv
  <2> DEFINE h == families[n].kernels
             g == [i \in DOMAIN h |-> h[i]]
  <2>2. IsFiniteSet(DOMAIN g) /\ g = [i \in DOMAIN g |-> g[i]]
    BY <2>1 DEF FamilyOk
  <2>3. Range(g) = Range(h)
    BY DEF Range
  <2> HIDE DEF g, h
  <2>4. IsFiniteSet(Range(g))
    BY <2>2, RangeFinite
  <2> QED BY <2>3, <2>4 DEF h
<1> DEFINE f == [n \in DOMAIN families |-> Range(families[n].kernels)]
<1>3. IsFiniteSet(Range(f))
  <2>1. DOMAIN f = DOMAIN families /\ f = [n \in DOMAIN f |-> f[n]] /\ IsFiniteSet(DOMAIN families)
    BY DEF SInv
  <2> HIDE DEF f
  <2> QED BY <2>1, RangeFinite
<1>4. \A A \in Range(f) : IsFiniteSet(A)
  BY <1>2 DEF Range
<1>5. AllKernels = Range(kernels) \cup UNION Range(f)
  <2>1. Range(f) = {Range(families[n].kernels) : n \in DOMAIN families}
    BY DEF Range
  <2> QED BY <2>1 DEF AllKernels
<1> HIDE DEF f
<1>6. IsFiniteSet(UNION Range(f))
  BY <1>3, <1>4, FS_UNION
<1> QED BY <1>1, <1>5, <1>6, FS_Union

AllRequests == UNION {Requests(k) : k \in AllKernels}

LEMMA AllRequestsFinite ==
  ASSUME SInv
  PROVE  IsFiniteSet(AllRequests)
<1> DEFINE f == [k \in AllKernels |-> Requests(k)]
<1>1. IsFiniteSet(Range(f))
  <2>1. DOMAIN f = AllKernels /\ f = [n \in DOMAIN f |-> f[n]] /\ IsFiniteSet(AllKernels)
    BY AllKernelsFinite
  <2> HIDE DEF f
  <2> QED BY <2>1, RangeFinite
<1>2. \A A \in Range(f) : IsFiniteSet(A)
  BY AllKernelsKeyed, RequestsFinite DEF Range
<1>3. AllRequests = UNION Range(f)
  BY DEF AllRequests, Range
<1> HIDE DEF f
<1> QED BY <1>1, <1>2, <1>3, FS_UNION

-----------------------------------------------------------------------------
(* The routines that the code calls *)

\* A request that some GEMM makes.
Genuine(a) ==
  \E tool \in CodeGenerators : \E c :
    a = [name |-> RoutineName(tool, Arch, c), routine |-> GemmRoutine(tool, Arch, c)]

\* Every routine that was asked for is there, as far as the code compares it.
Asked == \A a \in asked : /\ a.name \in DOMAIN cache.routines
                          /\ SameRoutine(cache.routines[a.name], a.routine)

CInv ==
  /\ CacheOk
  /\ Asked
  /\ \A n \in DOMAIN cache.routines : \E a \in asked : a.name = n /\ a.routine = cache.routines[n]
  /\ \A a \in asked : Genuine(a)

LEMMA AllGenuine == \A r \in AllRequests : Genuine(r)
<1> SUFFICES ASSUME NEW k, NEW r \in Requests(k) PROVE Genuine(r)
  BY DEF AllRequests
<1>1. \E c : \E tool \in getGemmTool(DefaultTools(Arch), Arch, c) \cap CodeGenerators :
        r = [name |-> RoutineName(tool, Arch, c), routine |-> GemmRoutine(tool, Arch, c)]
  BY DEF Requests
<1> QED BY <1>1 DEF Genuine

LEMMA NewCacheOk ==
  ASSUME NEW c, c = NewRoutineCache
  PROVE  DOMAIN c.routines = {} /\ c \in Caches({}, {}, {}) /\ Range(c.routines) = {} /\ c.headers = {}
<1> DEFINE f == [name \in {} |-> {}]
<1>1. f \in [{} -> {}] /\ DOMAIN f = {}
  OBVIOUS
<1> HIDE DEF f
<1>2. c = [routines |-> f, headers |-> {}]
  BY DEF NewRoutineCache, f
<1>3. Range(f) = {}
  BY <1>1 DEF Range
<1>4. f \in UNION {[D -> {}] : D \in SUBSET {}}
  BY <1>1
<1>5. c \in Caches({}, {}, {})
  BY <1>2, <1>4 DEF Caches
<1> QED BY <1>1, <1>2, <1>3, <1>5

LEMMA CInvInit ==
  ASSUME cache = NewRoutineCache, asked = {}
  PROVE  CInv
BY NewCacheOk DEF CInv, CacheOk, Asked

LEMMA CInvReset ==
  ASSUME cache' = NewRoutineCache, asked' = {}
  PROVE  CInv'
<1>1. /\ DOMAIN cache'.routines = {} /\ Range(cache'.routines) = {} /\ cache'.headers = {}
      /\ cache' \in Caches({}, {}, {})
  BY NewCacheOk
<1> QED BY <1>1 DEF CInv, CacheOk, Asked

LEMMA CInvKept ==
  ASSUME CInv, UNCHANGED <<cache, asked>>
  PROVE  CInv'
BY DEF CInv, CacheOk, Asked

LEMMA CachesRange ==
  ASSUME NEW N, NEW R, NEW H, NEW c \in Caches(N, R, H)
  PROVE  c \in Caches(DOMAIN c.routines, Range(c.routines), c.headers)
<1> DEFINE f == c.routines
           h == c.headers
<1>1. c = [routines |-> f, headers |-> h]
  BY DEF Caches
<1>2. PICK D \in SUBSET N : f \in [D -> R]
  BY DEF Caches
<1> HIDE DEF f, h
<1>3. f \in [DOMAIN f -> Range(f)] /\ DOMAIN f \in SUBSET DOMAIN f
  BY <1>2 DEF Range
<1>4. f \in UNION {[E -> Range(f)] : E \in SUBSET DOMAIN f}
  BY <1>3
<1>5. c \in Caches(DOMAIN f, Range(f), h)
  BY <1>1, <1>4 DEF Caches
<1> QED BY <1>5 DEF f, h

LEMMA CInvGenerate ==
  ASSUME SInv, CInv, cache' = Added(AllRequests).cache, ~ Added(AllRequests).raised,
         asked' = asked \cup AllRequests
  PROVE  CInv'
<1> DEFINE S == AllRequests
           c == Added(S)
<1>1. /\ c \in States(RequestNames(S), RequestRoutines(S), RequestHeaders(S))
      /\ LoopOk(c, S)
  BY AllRequestsFinite, AddedOk DEF CInv
<1>2. Entries(c, S) /\ KeptRoutines(c, S)
  BY <1>1 DEF LoopOk
<1>3. \A r \in S : Genuine(r)
  BY AllGenuine
<1>4. cache' = c.cache /\ asked' = asked \cup S
  OBVIOUS
<1> HIDE DEF S, c
<1>5. CacheOk'
  <2>1. cache' \in Caches(RequestNames(S), RequestRoutines(S), RequestHeaders(S))
    BY <1>1, <1>4 DEF States
  <2> QED BY <2>1, CachesRange DEF CacheOk
<1>6. Asked'
  <2>1. ASSUME NEW a \in asked
        PROVE  a.name \in DOMAIN cache'.routines /\ SameRoutine(cache'.routines[a.name], a.routine)
    <3>1. a.name \in DOMAIN cache.routines /\ SameRoutine(cache.routines[a.name], a.routine)
      BY DEF CInv, Asked
    <3>2. /\ a.name \in DOMAIN cache'.routines
          /\ SameRoutine(cache'.routines[a.name], cache.routines[a.name])
      BY <1>2, <1>4, <3>1 DEF KeptRoutines
    <3> QED BY <3>1, <3>2, SameRoutineEquivalence
  <2>2. ASSUME NEW a \in S
        PROVE  a.name \in DOMAIN cache'.routines /\ SameRoutine(cache'.routines[a.name], a.routine)
    BY <1>2, <1>4 DEF KeptRoutines
  <2> QED BY <1>4, <2>1, <2>2 DEF Asked
<1>7. ASSUME NEW n \in DOMAIN cache'.routines
      PROVE  \E a \in asked' : a.name = n /\ a.routine = cache'.routines[n]
  <2>1. CASE n \in DOMAIN cache.routines /\ cache'.routines[n] = cache.routines[n]
    BY <1>4, <2>1 DEF CInv
  <2>2. CASE \E r \in S : r.name = n /\ cache'.routines[n] = r.routine
    BY <1>4, <2>2
  <2> QED BY <1>2, <1>4, <2>1, <2>2 DEF Entries
<1>8. \A a \in asked' : Genuine(a)
  BY <1>3, <1>4 DEF CInv
<1> QED BY <1>5, <1>6, <1>7, <1>8 DEF CInv

LEMMA GenerateOk ==
  ASSUME generate
  PROVE  \/ outcome' = "raised" /\ UNCHANGED <<emitted, output, cache, asked>>
         \/ /\ outcome' = "generated" /\ ~ Added(AllRequests).raised
            /\ cache' = Added(AllRequests).cache /\ asked' = asked \cup AllRequests
BY DEF generate, GenerateRaises, AllRequests

LEMMA CInvStep ==
  ASSUME SInv, CInv, [ONext]_ovars
  PROVE  CInv'
<1>1. CASE generate
  BY <1>1, GenerateOk, CInvGenerate, CInvKept
<1>2. CASE Declare
  BY <1>2, CInvReset DEF Declare
<1>3. CASE UNCHANGED <<cache, asked>>
  BY <1>3, CInvKept
<1>4. ASSUME KNext, ~ generate PROVE UNCHANGED <<cache, asked>>
  BY <1>4 DEF KNext, addKernel, add, addFamily, AddMember, AstGeneratorRaises, NewGenerator, result
<1>5. UNCHANGED kvars => UNCHANGED <<cache, asked>>
  BY DEF kvars, result
<1>6. UNCHANGED ovars => UNCHANGED kvars
  BY DEF ovars
<1> QED BY <1>1, <1>2, <1>3, <1>4, <1>5, <1>6 DEF ONext

\* The name of a routine has its tool and its entries, so that of routines with
\* one name and descriptor only the rows may differ.
LEMMA NamedRoutine ==
  ASSUME NEW a, NEW b, Genuine(a), Genuine(b), a.name = b.name,
         SameRoutine(a.routine, b.routine), a.routine.rows = b.routine.rows
  PROVE  a.routine = b.routine
<1>1. PICK t \in CodeGenerators : \E c :
        a = [name |-> RoutineName(t, Arch, c), routine |-> GemmRoutine(t, Arch, c)]
  BY DEF Genuine
<1>2. PICK u \in CodeGenerators : \E d :
        b = [name |-> RoutineName(u, Arch, d), routine |-> GemmRoutine(u, Arch, d)]
  BY DEF Genuine
<1>3. PICK c : a = [name |-> RoutineName(t, Arch, c), routine |-> GemmRoutine(t, Arch, c)]
  BY <1>1
<1>4. PICK d : b = [name |-> RoutineName(u, Arch, d), routine |-> GemmRoutine(u, Arch, d)]
  BY <1>2
<1>5. /\ a.name = RoutineName(t, Arch, c) /\ a.routine = GemmRoutine(t, Arch, c)
      /\ b.name = RoutineName(u, Arch, d) /\ b.routine = GemmRoutine(u, Arch, d)
  BY <1>3, <1>4
<1>6. t = u
  <2>1. RoutineName(t, Arch, c) = RoutineName(u, Arch, d)
    BY <1>5
  <2> QED BY <2>1 DEF RoutineName
<1>7. /\ gemmDescr(t, Arch, c) = gemmDescr(u, Arch, d)
      /\ c.spp = d.spp /\ c.rows = d.rows
  BY <1>5 DEF GemmRoutine, SameRoutine
<1> QED BY <1>5, <1>6, <1>7 DEF GemmRoutine

LEMMA CallsFindRoutines ==
  ASSUME CInv
  PROVE  RoutineOfCall
<1> SUFFICES ASSUME NEW a \in asked,
                    \A b \in asked : b.name = a.name => b.routine.rows = a.routine.rows
             PROVE  /\ a.name \in DOMAIN cache.routines
                    /\ SameRoutine(cache.routines[a.name], a.routine)
                    /\ cache.routines[a.name] = a.routine
  BY DEF CInv, Asked, RoutineOfCall
<1>1. a.name \in DOMAIN cache.routines /\ SameRoutine(cache.routines[a.name], a.routine)
  BY DEF CInv, Asked
<1>2. PICK b \in asked : b.name = a.name /\ b.routine = cache.routines[a.name]
  BY <1>1 DEF CInv
<1>3. b.routine = a.routine
  BY <1>1, <1>2, NamedRoutine DEF CInv
<1> QED BY <1>1, <1>2, <1>3

\* Every call in the emitted code calls the routine that was generated for it,
\* however many kernels and Generators with the same cache ask for routines.
THEOREM CallsFindTheirRoutines == OSpec => []RoutineOfCall
<1>1. OInit => CInv
  BY CInvInit DEF OInit, KInit
<1>2. CInv /\ SInv /\ [ONext]_ovars => CInv'
  BY CInvStep
<1>3. CInv => RoutineOfCall
  BY CallsFindRoutines
<1>4. OSpec => []SInv
  BY SessionInvariant, PTL
<1> QED BY <1>1, <1>2, <1>3, <1>4, PTL DEF OSpec

-----------------------------------------------------------------------------
(* What generate raises for *)

\* Names are equal and routines are not only if a minus sign got lost.
LEMMA NameClash ==
  ASSUME NEW a, NEW b, Genuine(a), Genuine(b), a.name = b.name,
         ~ SameRoutine(a.routine, b.routine)
  PROVE  a.routine.gemm.alpha = "m1" \/ b.routine.gemm.alpha = "m1"
<1>1. PICK t \in CodeGenerators : \E c :
        a = [name |-> RoutineName(t, Arch, c), routine |-> GemmRoutine(t, Arch, c)]
  BY DEF Genuine
<1>2. PICK c : a = [name |-> RoutineName(t, Arch, c), routine |-> GemmRoutine(t, Arch, c)]
  BY <1>1
<1>3. PICK u \in CodeGenerators : \E d :
        b = [name |-> RoutineName(u, Arch, d), routine |-> GemmRoutine(u, Arch, d)]
  BY DEF Genuine
<1>4. PICK d : b = [name |-> RoutineName(u, Arch, d), routine |-> GemmRoutine(u, Arch, d)]
  BY <1>3
<1> DEFINE g == gemmDescr(t, Arch, c)
           h == gemmDescr(u, Arch, d)
           gg == [g EXCEPT !.alpha = _alpha(t, @), !.beta = _beta(@)]
           hh == [h EXCEPT !.alpha = _alpha(u, @), !.beta = _beta(@)]
<1>5. t = u /\ c.spp = d.spp /\ gg = hh
  <2>1. RoutineName(t, Arch, c) = RoutineName(u, Arch, d)
    BY <1>2, <1>4
  <2> QED BY <2>1 DEF RoutineName
<1>6. a.routine.gemm = g /\ a.routine.spp = c.spp /\ b.routine.gemm = h /\ b.routine.spp = d.spp
  BY <1>2, <1>4 DEF GemmRoutine
<1>7. g # h
  BY <1>5, <1>6 DEF SameRoutine
<1> DEFINE al(r) == r.alpha
<1>8. /\ g.alpha = _alpha(t, c.alpha) /\ h.alpha = _alpha(t, d.alpha)
      /\ g.beta = _beta(c.beta) /\ h.beta = _beta(d.beta)
  BY <1>5 DEF gemmDescr
<1>9. /\ gg.sizes = g.sizes /\ gg.ld = g.ld /\ gg.trans = g.trans /\ gg.alpha = _alpha(t, g.alpha)
      /\ gg.beta = _beta(g.beta) /\ gg.alignment = g.alignment /\ gg.prefetch = g.prefetch
  BY DEF gemmDescr
<1>10. /\ hh.sizes = h.sizes /\ hh.ld = h.ld /\ hh.trans = h.trans /\ hh.alpha = _alpha(t, h.alpha)
       /\ hh.beta = _beta(h.beta) /\ hh.alignment = h.alignment /\ hh.prefetch = h.prefetch
  BY <1>5 DEF gemmDescr
<1>11. g = [sizes |-> g.sizes, ld |-> g.ld, trans |-> g.trans, alpha |-> g.alpha, beta |-> g.beta,
            alignment |-> g.alignment, prefetch |-> g.prefetch]
  BY DEF gemmDescr
<1>12. h = [sizes |-> h.sizes, ld |-> h.ld, trans |-> h.trans, alpha |-> h.alpha, beta |-> h.beta,
            alignment |-> h.alignment, prefetch |-> h.prefetch]
  BY DEF gemmDescr
<1> HIDE DEF g, h, gg, hh
<1>13. g.beta = h.beta
  <2>1. _beta(g.beta) = _beta(h.beta)
    BY <1>5, <1>9, <1>10
  <2>2. g.beta \in {"0", "1", "generic"} /\ h.beta \in {"0", "1", "generic"}
    BY <1>8 DEF _beta, _is_special
  <2> QED BY <2>1, <2>2 DEF _beta, _is_special
<1>14. g.alpha # h.alpha
  <2> SUFFICES ASSUME g.alpha = h.alpha PROVE FALSE
    OBVIOUS
  <2> QED BY <1>5, <1>7, <1>9, <1>10, <1>11, <1>12, <1>13
<1>15. g.alpha = "m1" \/ h.alpha = "m1"
  <2>1. _alpha(t, g.alpha) = _alpha(t, h.alpha)
    BY <1>5, <1>9, <1>10
  <2>2. g.alpha \in {"1", "m1", "generic"} /\ h.alpha \in {"1", "m1", "generic"}
    BY <1>8 DEF _alpha, _is_special
  <2> QED BY <1>14, <2>1, <2>2 DEF _alpha, _is_special
<1> QED BY <1>6, <1>15

\* The verdict on the last member is the only one that counts.
LEMMA SameTargetOk ==
  ASSUME NEW f, FamilyOk(f), DOMAIN f.kernels # {}
  PROVE  is_same_target(f)
<1> DEFINE D == DOMAIN f.kernels
           top == Max(D)
           target == f.kernels[top].target
           Eqn(v) == v = [i \in -1 .. top |->
                            IF i = -1 THEN TRUE
                            ELSE IF i \notin D THEN v[i - 1]
                            ELSE f.kernels[i].target = target]
           verdict == CHOOSE v : Eqn(v)
<1>1. is_same_target(f) = verdict[top]
  BY DEF is_same_target
<1>2. top \in D /\ top \in Nat
  BY MaxOk DEF FamilyOk
<1>3. \E v : Eqn(v)
  <2> DEFINE N == top + 1
             T == {TRUE, FALSE}
             base == TRUE
             agrees(i) == f.kernels[i].target = target
             step == [q \in (1 .. N) \X T |-> IF q[1] - 1 \notin D THEN q[2] ELSE agrees(q[1] - 1)]
  <2> HIDE DEF target, D, top
  <2>1. N \in Nat /\ base \in T
    BY <1>2
  <2>2. step \in StepFunctions(N, T)
    <3>1. \A q \in (1 .. N) \X T : step[q] \in T
      OBVIOUS
    <3> HIDE DEF T, N
    <3> QED BY <3>1 DEF StepFunctions
  <2> HIDE DEF N, T, base, step, agrees
  <2>3. PICK g : Solves(g, N, T, base, step)
    BY <2>1, <2>2, RecursionSolved
  <2> DEFINE v == [i \in -1 .. top |-> g[i + 1]]
  <2>4. ASSUME NEW i \in -1 .. top
        PROVE  v[i] = IF i = -1 THEN base ELSE IF i \notin D THEN v[i - 1] ELSE agrees(i)
    <3>1. CASE i = -1
      BY <2>3, <3>1 DEF Solves
    <3>2. CASE i # -1
      <4> DEFINE k == i + 1
      <4>1. k \in 1 .. N /\ k - 1 = i /\ k - 1 \in 0 .. N /\ i - 1 \in -1 .. top /\ (i - 1) + 1 = k - 1
        BY <1>2, <3>2 DEF N
      <4>2. g[k - 1] \in T /\ g[k] = step[<<k, g[k - 1]>>]
        BY <2>3, <4>1 DEF Solves
      <4>3. g[k] = IF i \notin D THEN g[k - 1] ELSE agrees(i)
        BY <4>1, <4>2 DEF step
      <4>4. v[i] = g[k] /\ v[i - 1] = g[k - 1]
        BY <4>1
      <4> HIDE DEF v
      <4> QED BY <3>2, <4>3, <4>4
    <3> QED BY <3>1, <3>2
  <2>5. v = [i \in -1 .. top |-> IF i = -1 THEN base ELSE IF i \notin D THEN v[i - 1] ELSE agrees(i)]
    BY <2>4
  <2>6. Eqn(v)
    BY <2>5 DEF base, agrees
  <2> QED BY <2>6
<1>4. Eqn(verdict)
  BY <1>3
<1> HIDE DEF verdict
<1>5. verdict[top]
  <2>1. top \in -1 .. top /\ top # -1
    BY <1>2
  <2> HIDE DEF target, top
  <2>2. verdict[top] = (f.kernels[top].target = target)
    BY <1>2, <1>4, <2>1
  <2> QED BY <2>2 DEF target
<1> QED BY <1>1, <1>5

LEMMA MixedMonotone ==
  ASSUME NEW S, NEW T, S \subseteq T, MixedGroups(S)
  PROVE  MixedGroups(T)
BY DEF MixedGroups

LEMMA EnteredSubset ==
  ASSUME NEW S, NEW T \in Entered(S)
  PROVE  T \subseteq S
BY DEF Entered, Namesakes

Programs == {Program(k) : k \in AllKernels}
AllScalars == UNION {Program(k).scalars : k \in AllKernels}
EveryTensor == UNION {Program(k).tensors : k \in AllKernels}

LEMMA RaisesAreMistakes ==
  ASSUME SInv, CInv, NEW tensors \in Entered(EveryTensor),
         GenerateRaises(AllRequests, tensors, AllScalars)
  PROVE  Mistaken
<1> DEFINE T == UNION {p.tensors : p \in Programs}
           S == UNION {p.scalars : p \in Programs}
           F == UNION {p.prefetch : p \in Programs}
<1>0. T = EveryTensor /\ S = AllScalars
  BY DEF Programs, EveryTensor, AllScalars
<1>1. CASE Untestable
  BY <1>1 DEF Mistaken
<1>2. CASE \E n \in DOMAIN families : Raises(families[n])
  <2>1. PICK n \in DOMAIN families : Raises(families[n])
    BY <1>2
  <2> DEFINE f == families[n]
             D == DOMAIN f.kernels
  <2>2. FamilyOk(f) /\ History(f, strides[n], spaces[n], made, n)
    BY DEF SInv, FamilyInv
  <2>3. D = {}
    <3> SUFFICES ASSUME D # {} PROVE FALSE
      OBVIOUS
    <3>1. is_same_target(f)
      BY <2>2, SameTargetOk
    <3>2. \A i \in D : i \in Nat /\ Max(D) \in Nat /\ i <= Max(D)
      BY <2>2, MaxOk DEF FamilyOk
    <3>3. \A i \in D : ~ i >= Length(f)
      BY <3>2 DEF Length
    <3> QED BY <2>1, <3>1, <3>3 DEF Raises
  <2>4. MadeFor(n) = {}
    <3>1. MadeFor(n) = Mades(made, n)
      BY DEF MadeFor, Mades
    <3> QED BY <2>2, <2>3, <3>1 DEF History
  <2> QED BY <2>4 DEF Mistaken
<1>3. CASE \E k \in AllKernels : LET p == Program(k)
                                 IN  MixedGroups(p.tensors) \/ MixedGroups(p.scalars) \/ MixedGroups(p.prefetch)
  <2>1. PICK k \in AllKernels : \/ MixedGroups(Program(k).tensors)
                                \/ MixedGroups(Program(k).scalars)
                                \/ MixedGroups(Program(k).prefetch)
    BY <1>3
  <2>2. /\ Program(k).tensors \subseteq T /\ Program(k).scalars \subseteq S
        /\ Program(k).prefetch \subseteq F
    BY DEF Programs
  <2>3. MixedGroups(T) \/ MixedGroups(S) \/ MixedGroups(F)
    <3> HIDE DEF T, S, F
    <3> QED BY <2>1, <2>2, MixedMonotone
  <2> QED BY <2>3 DEF Mistaken, Programs
<1>4. CASE MixedGroups(tensors) \/ MixedGroups(AllScalars)
  <2>1. tensors \subseteq T
    BY <1>0, EnteredSubset
  <2>2. MixedGroups(T) \/ MixedGroups(S)
    <3> HIDE DEF T, S
    <3> QED BY <1>0, <1>4, <2>1, MixedMonotone
  <2> QED BY <2>2 DEF Mistaken, Programs
<1>5. CASE Added(AllRequests).raised
  <2>1. LoopOk(Added(AllRequests), AllRequests)
    BY AllRequestsFinite, AddedOk DEF CInv
  <2>2. Conflict(AllRequests)
    BY <1>5, <2>1 DEF LoopOk
  <2> DEFINE A == asked \cup AllRequests
  <2>3. \A a \in A : Genuine(a)
    BY AllGenuine DEF CInv
  <2>4. \E r, q \in A : q.name = r.name /\ ~ SameRoutine(q.routine, r.routine)
    <3>1. PICK r \in AllRequests :
            \/ \E q \in AllRequests : q.name = r.name /\ ~ SameRoutine(q.routine, r.routine)
            \/ r.name \in DOMAIN cache.routines /\ ~ SameRoutine(cache.routines[r.name], r.routine)
      BY <2>2 DEF Conflict
    <3>2. CASE r.name \in DOMAIN cache.routines /\ ~ SameRoutine(cache.routines[r.name], r.routine)
      <4>1. PICK a \in asked : a.name = r.name /\ a.routine = cache.routines[r.name]
        BY <3>2 DEF CInv
      <4> QED BY <3>2, <4>1
    <3> QED BY <3>1, <3>2
  <2> HIDE DEF A
  <2>5. \E a \in A : a.routine.gemm.alpha = "m1"
    BY <2>3, <2>4, NameClash
  <2> QED BY <2>5 DEF A, AllRequests, Mistaken
<1> QED BY <1>1, <1>2, <1>3, <1>4, <1>5 DEF GenerateRaises

-----------------------------------------------------------------------------
(* The Containers of tensor.h *)

LEMMA GroupSizeOk ==
  ASSUME NEW S, ~ MixedGroups(S), \A x \in S : x.group \in Seq(Nat), NEW x \in S
  PROVE  Len(groupSize(S, baseNameWithNamespace(x))) = Len(x.group)
<1> DEFINE b == baseNameWithNamespace(x)
           g == CHOOSE g \in GroupIndices(S, b) : TRUE
           f == [k \in DOMAIN g |-> Max({h[k] : h \in GroupIndices(S, b)}) + 1]
<1>1. groupSize(S, b) = f
  BY DEF groupSize
<1>2. x.group \in GroupIndices(S, b)
  BY DEF GroupIndices, Members
<1>3. g \in GroupIndices(S, b)
  BY <1>2
<1>4. g \in Seq(Nat) /\ Len(g) = Len(x.group)
  <2>1. PICK y \in S : g = y.group /\ baseNameWithNamespace(y) = b
    BY <1>3 DEF GroupIndices, Members
  <2> QED BY <2>1 DEF MixedGroups
<1> HIDE DEF g
<1>5. Len(f) = Len(g)
  <2> DEFINE n == Len(g)
             R == {f[k] : k \in 1 .. n}
  <2>1. n \in Nat /\ DOMAIN g = 1 .. n
    BY <1>4
  <2>2. f = [k \in 1 .. n |-> f[k]] /\ \A k \in 1 .. n : f[k] \in R
    BY <2>1
  <2> HIDE DEF f, n, R
  <2>3. f \in Seq(R) /\ DOMAIN f = 1 .. n
    BY <2>1, <2>2, IsASeq
  <2> QED BY <2>1, <2>3 DEF n
<1> QED BY <1>1, <1>4, <1>5

LEMMA ContainersOk ==
  ASSUME NEW S, ~ MixedGroups(S), \A x \in S : x.group \in Seq(Nat), NEW x \in Grouped(S)
  PROVE  Len(Get(Containers(S), baseNameWithNamespace(x), <<>>)) = Len(x.group)
<1>1. x \in S
  BY DEF Grouped
<1>2. baseNameWithNamespace(x) \in BaseNames(Grouped(S))
  BY DEF BaseNames
<1>3. Get(Containers(S), baseNameWithNamespace(x), <<>>) = groupSize(S, baseNameWithNamespace(x))
  BY <1>2 DEF Get, Containers
<1> QED BY <1>1, <1>3, GroupSizeOk

\* Without namesakes every tensor is left.
LEMMA EnteredAll ==
  ASSUME NEW S, Namesakes(S) = {}, NEW T \in Entered(S)
  PROVE  T = S
BY DEF Entered

\* The class of the kernels K.
ClassOf(class, K) ==
  /\ class.tensors = UNION {Program(k).tensors : k \in K}
  /\ class.scalars = UNION {Program(k).scalars : k \in K}
  /\ class.prefetch = UNION {Program(k).prefetch : k \in K}
  /\ UNION Range(class.outlines) = {Outline(k) : k \in K}
  /\ class.TmpMaxMem = TmpMaxMem(class.outlines)

LEMMA ClassOk ==
  ASSUME NEW o, NEW K, UNION Range(o) = {Outline(k) : k \in K}
  PROVE  ClassOf(Class(o), K)
<1> DEFINE M == UNION Range(o)
<1>1. /\ Class(o).tensors = UNION {ko.tensors : ko \in M}
      /\ Class(o).scalars = UNION {ko.scalars : ko \in M}
      /\ Class(o).prefetch = UNION {ko.prefetch : ko \in M}
      /\ Class(o).outlines = o /\ Class(o).TmpMaxMem = TmpMaxMem(o)
  BY DEF Class
<1>2. ASSUME NEW k
      PROVE  /\ Outline(k).tensors = Program(k).tensors
             /\ Outline(k).scalars = Program(k).scalars
             /\ Outline(k).prefetch = Program(k).prefetch
  BY DEF Outline, generateKernelOutline
<1>3. M = {Outline(k) : k \in K}
  OBVIOUS
<1> HIDE DEF M
<1> QED BY <1>1, <1>2, <1>3 DEF ClassOf

LEMMA OutlinesOk ==
  ASSUME NEW f, FamilyOk(f), DOMAIN f.kernels # {}
  PROVE  UNION Range(OutlinesOf(f)) = {Outline(k) : k \in Range(f.kernels)}
<1> DEFINE D == DOMAIN f.kernels
           o == OutlinesOf(f)
<1>1. DOMAIN o = 0 .. Length(f) - 1
  BY DEF OutlinesOf
<1>2. \A i \in D : i \in DOMAIN o
  <2>1. D \subseteq Nat /\ Max(D) \in D /\ \A i \in D : i <= Max(D)
    BY MaxOk DEF FamilyOk
  <2> HIDE DEF o, D
  <2>2. Length(f) - 1 = Max(D) /\ \A i \in D : i \in 0 .. Max(D)
    BY <2>1 DEF Length, D
  <2> QED BY <1>1, <2>2
<1>3. \A i \in DOMAIN o : o[i] = {Outline(k) : k \in {f.kernels[l] : l \in {i} \cap D}}
  BY DEF OutlinesOf
<1> HIDE DEF o
<1>4. ASSUME NEW x \in UNION Range(o) PROVE x \in {Outline(k) : k \in Range(f.kernels)}
  BY <1>3 DEF Range
<1>5. ASSUME NEW k \in Range(f.kernels) PROVE Outline(k) \in UNION Range(o)
  <2>1. PICK i \in D : k = f.kernels[i]
    BY DEF Range
  <2>2. Outline(k) \in o[i] /\ o[i] \in Range(o)
    BY <1>2, <1>3, <2>1 DEF Range
  <2> QED BY <2>2
<1> QED BY <1>4, <1>5 DEF o

\* Every class belongs to some of the kernels, and every kernel to one.
LEMMA ClassesOk ==
  ASSUME SInv, \A n \in DOMAIN families : DOMAIN families[n].kernels # {}
  PROVE  /\ \A c \in KernelClasses \cup FamilyClasses : \E K \in SUBSET AllKernels : ClassOf(c.class, K)
         /\ \A k \in AllKernels : \E c \in KernelClasses \cup FamilyClasses :
              Program(k).tensors \subseteq c.class.tensors
<1>1. ASSUME NEW i \in DOMAIN kernels
      PROVE  ClassOf(Class([index \in {0} |-> {Outline(kernels[i])}]), {kernels[i]})
  <2> DEFINE o == [index \in {0} |-> {Outline(kernels[i])}]
  <2>1. UNION Range(o) = {Outline(k) : k \in {kernels[i]}}
    BY DEF Range
  <2> HIDE DEF o
  <2>2. ClassOf(Class(o), {kernels[i]})
    BY <2>1, ClassOk
  <2> QED BY <2>2 DEF o
<1>2. ASSUME NEW n \in DOMAIN families
      PROVE  ClassOf(Class(OutlinesOf(families[n])), Range(families[n].kernels))
  <2>1. FamilyOk(families[n])
    BY DEF SInv, FamilyInv
  <2> QED BY <2>1, OutlinesOk, ClassOk
<1>3. ASSUME NEW c \in KernelClasses \cup FamilyClasses
      PROVE  \E K \in SUBSET AllKernels : ClassOf(c.class, K)
  <2>1. CASE c \in KernelClasses
    <3>1. PICK i \in DOMAIN kernels : c.class = Class([index \in {0} |-> {Outline(kernels[i])}])
      BY <2>1 DEF KernelClasses
    <3>2. {kernels[i]} \in SUBSET AllKernels
      BY DEF AllKernels, Range
    <3> QED BY <1>1, <3>1, <3>2
  <2>2. CASE c \in FamilyClasses
    <3>1. PICK n \in DOMAIN families : c.class = Class(OutlinesOf(families[n]))
      BY <2>2 DEF FamilyClasses
    <3>2. Range(families[n].kernels) \in SUBSET AllKernels
      BY DEF AllKernels
    <3> QED BY <1>2, <3>1, <3>2
  <2> QED BY <2>1, <2>2
<1>4. ASSUME NEW k \in AllKernels
      PROVE  \E c \in KernelClasses \cup FamilyClasses : Program(k).tensors \subseteq c.class.tensors
  <2>1. CASE k \in Range(kernels)
    <3>1. PICK i \in DOMAIN kernels : k = kernels[i]
      BY <2>1 DEF Range
    <3> DEFINE c == [of |-> i, namespace |-> kernels[i].namespace, name |-> kernels[i].name,
                     class |-> Class([index \in {0} |-> {Outline(kernels[i])}])]
    <3>2. c \in KernelClasses /\ c.class = Class([index \in {0} |-> {Outline(kernels[i])}])
      BY DEF KernelClasses
    <3> HIDE DEF c
    <3>3. ClassOf(c.class, {k})
      BY <1>1, <3>1, <3>2
    <3>4. Program(k).tensors \subseteq c.class.tensors
      BY <3>3 DEF ClassOf
    <3> QED BY <3>2, <3>4
  <2>2. CASE \E n \in DOMAIN families : k \in Range(families[n].kernels)
    <3>1. PICK n \in DOMAIN families : k \in Range(families[n].kernels)
      BY <2>2
    <3> DEFINE c == [of |-> 0, namespace |-> families[n].namespace, name |-> n,
                     class |-> Class(OutlinesOf(families[n]))]
    <3>2. c \in FamilyClasses /\ c.class = Class(OutlinesOf(families[n]))
      BY DEF FamilyClasses
    <3> HIDE DEF c
    <3>3. Program(k).tensors \subseteq c.class.tensors
      BY <1>2, <3>1, <3>2 DEF ClassOf
    <3> QED BY <3>2, <3>3
  <2> QED BY <2>1, <2>2 DEF AllKernels
<1> QED BY <1>3, <1>4

OutOk(out) ==
  LET all == UNION {c.class.tensors : c \in out.classes}
  IN  Namesakes(all) = {} =>
        \A c \in out.classes :
          /\ \A x \in Grouped(c.class.tensors) \cup (Grouped(c.class.prefetch) \cap all) :
               Len(Get(out.containers, baseNameWithNamespace(x), <<>>)) = Len(x.group)
          /\ \A x \in Grouped(c.class.scalars) :
               Len(Get(out.scalars, baseNameWithNamespace(x), <<>>)) = Len(x.group)

LEMMA GeneratedAll ==
  ASSUME SInv, NEW tensors \in Entered(EveryTensor), ~ GenerateRaises(AllRequests, tensors, AllScalars),
         NEW out, out = [classes |-> KernelClasses \cup FamilyClasses,
                         containers |-> Containers(tensors), scalars |-> Containers(AllScalars)]
  PROVE  /\ ~ MixedGroups(tensors) /\ ~ MixedGroups(AllScalars)
         /\ \A x \in EveryTensor \cup AllScalars : x.group \in Seq(Nat)
         /\ \A c \in out.classes : \E K \in SUBSET AllKernels : ClassOf(c.class, K)
         /\ AllTensors(out) = EveryTensor
         /\ Namesakes(AllTensors(out)) = {} => tensors = EveryTensor
<1>1. out.classes = KernelClasses \cup FamilyClasses
  OBVIOUS
<1>2. \A n \in DOMAIN families : DOMAIN families[n].kernels # {}
  BY DEF GenerateRaises, Raises
<1>3. ~ MixedGroups(tensors) /\ ~ MixedGroups(AllScalars)
  BY DEF GenerateRaises
<1>4. ASSUME NEW k \in AllKernels, NEW x \in Program(k).tensors \cup Program(k).scalars
      PROVE  x.group \in Seq(Nat)
  BY AllKernelsKeyed, ProgramAssumption DEF Keyed, Program
<1>5. \A x \in EveryTensor \cup AllScalars : x.group \in Seq(Nat)
  BY <1>4 DEF EveryTensor, AllScalars
<1>6. \A c \in out.classes : \E K \in SUBSET AllKernels : ClassOf(c.class, K)
  BY <1>1, <1>2, ClassesOk
<1>7. AllTensors(out) = EveryTensor
  <2>1. \A k \in AllKernels : \E c \in out.classes : Program(k).tensors \subseteq c.class.tensors
    BY <1>1, <1>2, ClassesOk
  <2>2. ASSUME NEW c \in out.classes PROVE c.class.tensors \subseteq EveryTensor
    BY <1>6 DEF ClassOf, EveryTensor
  <2>3. EveryTensor \subseteq AllTensors(out)
    BY <2>1 DEF EveryTensor, AllTensors
  <2>4. AllTensors(out) \subseteq EveryTensor
    BY <2>2 DEF AllTensors
  <2> QED BY <2>3, <2>4
<1> QED BY <1>3, <1>5, <1>6, <1>7, EnteredAll

LEMMA GeneratedOk ==
  ASSUME SInv, NEW tensors \in Entered(EveryTensor), ~ GenerateRaises(AllRequests, tensors, AllScalars),
         NEW out, out = [classes |-> KernelClasses \cup FamilyClasses,
                         containers |-> Containers(tensors), scalars |-> Containers(AllScalars)]
  PROVE  OutOk(out)
<1> DEFINE all == UNION {c.class.tensors : c \in out.classes}
<1>1. out.containers = Containers(tensors) /\ out.scalars = Containers(AllScalars)
  OBVIOUS
<1>2. /\ ~ MixedGroups(tensors) /\ ~ MixedGroups(AllScalars)
      /\ \A x \in EveryTensor \cup AllScalars : x.group \in Seq(Nat)
      /\ \A c \in out.classes : \E K \in SUBSET AllKernels : ClassOf(c.class, K)
      /\ AllTensors(out) = EveryTensor
      /\ Namesakes(AllTensors(out)) = {} => tensors = EveryTensor
  BY GeneratedAll
<1>3. ~ MixedGroups(tensors) /\ ~ MixedGroups(AllScalars)
  BY <1>2
<1>5. \A x \in EveryTensor \cup AllScalars : x.group \in Seq(Nat)
  BY <1>2
<1>6. \A c \in out.classes : \E K \in SUBSET AllKernels : ClassOf(c.class, K)
  BY <1>2
<1>7. all = EveryTensor /\ (Namesakes(all) = {} => tensors = EveryTensor)
  BY <1>2 DEF AllTensors
<1> HIDE DEF all
<1> SUFFICES ASSUME Namesakes(all) = {}, NEW c \in out.classes
             PROVE  /\ \A x \in Grouped(c.class.tensors) \cup (Grouped(c.class.prefetch) \cap all) :
                         Len(Get(out.containers, baseNameWithNamespace(x), <<>>)) = Len(x.group)
                    /\ \A x \in Grouped(c.class.scalars) :
                         Len(Get(out.scalars, baseNameWithNamespace(x), <<>>)) = Len(x.group)
  BY DEF OutOk, all
<1>8. tensors = EveryTensor
  BY <1>7
<1>9. ASSUME NEW x \in Grouped(c.class.tensors) \cup (Grouped(c.class.prefetch) \cap all)
      PROVE  Len(Get(out.containers, baseNameWithNamespace(x), <<>>)) = Len(x.group)
  <2>1. x \in Grouped(tensors)
    <3>1. c.class.tensors \subseteq all
      BY DEF all
    <3> QED BY <1>7, <1>8, <3>1 DEF Grouped
  <2>2. \A y \in tensors : y.group \in Seq(Nat)
    BY <1>5, <1>8
  <2>3. Len(Get(Containers(tensors), baseNameWithNamespace(x), <<>>)) = Len(x.group)
    BY <1>3, <2>1, <2>2, ContainersOk
  <2> QED BY <1>1, <2>3
<1>10. ASSUME NEW x \in Grouped(c.class.scalars)
       PROVE  Len(Get(out.scalars, baseNameWithNamespace(x), <<>>)) = Len(x.group)
  <2>1. x \in Grouped(AllScalars)
    BY <1>6 DEF ClassOf, AllScalars, Grouped
  <2>2. \A y \in AllScalars : y.group \in Seq(Nat)
    BY <1>5
  <2>3. Len(Get(Containers(AllScalars), baseNameWithNamespace(x), <<>>)) = Len(x.group)
    BY <1>3, <2>1, <2>2, ContainersOk
  <2> QED BY <1>1, <2>3
<1> QED BY <1>9, <1>10

OInvariant == (outcome = "raised" => Mistaken) /\ \A out \in output : OutOk(out)

LEMMA MistakenKept ==
  ASSUME Mistaken, UNCHANGED <<session, asked>>
  PROVE  Mistaken'
<1>1. UNCHANGED <<kernels, families, made, asked>>
  BY DEF session
<1>2. AllKernels' = AllKernels
  BY <1>1 DEF AllKernels
<1>3. Untestable' = Untestable
  BY <1>2 DEF Untestable
<1>4. \A n : MadeFor(n)' = MadeFor(n)
  BY <1>1 DEF MadeFor
<1> QED BY <1>1, <1>2, <1>3, <1>4 DEF Mistaken

LEMMA OutcomeStep ==
  ASSUME SInv, EInv, CInv, OInvariant, [ONext]_ovars
  PROVE  OInvariant'
<1>1. CASE generate
  <2>1. PICK tensors \in Entered(EveryTensor) :
           IF GenerateRaises(AllRequests, tensors, AllScalars)
           THEN outcome' = "raised" /\ UNCHANGED <<output, asked>>
           ELSE /\ outcome' = "generated"
                /\ output' = {[classes |-> KernelClasses \cup FamilyClasses,
                               containers |-> Containers(tensors), scalars |-> Containers(AllScalars)]}
    BY <1>1 DEF generate, EveryTensor, AllRequests, AllScalars
  <2>2. UNCHANGED session
    BY <1>1 DEF generate
  <2>3. CASE GenerateRaises(AllRequests, tensors, AllScalars)
    <3>1. Mistaken
      BY <2>3, RaisesAreMistakes
    <3> QED BY <2>1, <2>2, <2>3, <3>1, MistakenKept DEF OInvariant
  <2>4. CASE ~ GenerateRaises(AllRequests, tensors, AllScalars)
    <3>1. \A out \in output' : OutOk(out)
      BY <2>1, <2>4, GeneratedOk
    <3> QED BY <2>1, <2>4, <3>1 DEF OInvariant
  <2> QED BY <2>3, <2>4
<1>2. CASE Declare \/ NewGenerator
  <2>1. output' = {} /\ outcome' # "raised"
    BY <1>2 DEF Declare, NewGenerator
  <2> QED BY <2>1 DEF OInvariant
<1>3. CASE UNCHANGED <<output, outcome>> /\ outcome # "raised"
  BY <1>3 DEF OInvariant
<1>4. ASSUME KNext, ~ generate, ~ NewGenerator
      PROVE  UNCHANGED <<output, outcome>> /\ outcome # "raised"
  BY <1>4 DEF KNext, addKernel, add, addFamily, AddMember, AstGeneratorRaises, result, Open, EInv
<1>5. CASE UNCHANGED kvars
  <2>1. UNCHANGED <<session, asked>> /\ UNCHANGED <<output, outcome>>
    BY <1>5 DEF kvars, result
  <2> QED BY <2>1, MistakenKept DEF OInvariant
<1>6. UNCHANGED ovars => UNCHANGED kvars
  BY DEF ovars
<1> QED BY <1>1, <1>2, <1>3, <1>4, <1>5, <1>6 DEF ONext

\* generate raises only for the mistakes of the user, and tensor.h declares a
\* Container of the right dimension for every group that a class has a member
\* for, whatever the programs and however many kernels there are.
THEOREM GeneratorSucceeds == OSpec => []GenerateSucceeds
<1>1. OInit => OInvariant
  BY DEF OInit, KInit, OInvariant
<1>2. OInit => CInv
  BY CInvInit DEF OInit, KInit
<1>3. CInv /\ SInv /\ [ONext]_ovars => CInv'
  BY CInvStep
<1>4. OInvariant /\ SInv /\ EInv /\ CInv /\ [ONext]_ovars => OInvariant'
  BY OutcomeStep
<1>5. OInvariant => GenerateSucceeds
  BY DEF OInvariant, OutOk, GenerateSucceeds
<1>6. OSpec => [](SInv /\ EInv)
  BY SessionInvariant
<1> QED BY <1>1, <1>2, <1>3, <1>4, <1>5, <1>6, PTL DEF OSpec

-----------------------------------------------------------------------------
(* The slots of a Container *)

LEMMA StrideOfSizes ==
  ASSUME NEW size \in Seq(Nat)
  PROVE  Radix(groupSizeToStride(size), size, Len(size))
<1> DEFINE n == Len(size)
           Eqn(f) == f = [k \in DOMAIN size |-> IF k = 1 THEN 1 ELSE f[k - 1] * size[k - 1]]
           stride == CHOOSE f : Eqn(f)
<1>1. n \in Nat /\ DOMAIN size = 1 .. n /\ \A k \in 1 .. n : size[k] \in Nat
  OBVIOUS
<1>2. groupSizeToStride(size) = stride
  BY DEF groupSizeToStride
<1>3. ASSUME NEW f PROVE Products(f, size, n) <=> Eqn(f)
  BY <1>1 DEF Products
<1>4. \E f : Eqn(f)
  <2> HIDE DEF Eqn, n
  <2> QED BY <1>1, <1>3, ProductsExist
<1>5. Eqn(stride)
  BY <1>4
<1> HIDE DEF Eqn, n, stride
<1>6. Radix(stride, size, n)
  BY <1>1, <1>3, <1>5, ProductsRadix
<1> QED BY <1>2, <1>6 DEF n

\* The sum in any order is that of the loop.
LEMMA SlotLinear ==
  ASSUME NEW size \in Seq(Nat), NEW group \in Seq(Nat), Len(group) = Len(size)
  PROVE  slot(size, group) = linear(groupSizeToStride(size), group)
<1> DEFINE n == Len(group)
           s == groupSizeToStride(size)
           S == DOMAIN group
           Eqn(f) == f = [t \in SUBSET S |->
                            IF t = {} THEN 0
                            ELSE LET x == CHOOSE x \in t : TRUE
                                 IN  group[x] * groupSizeToStride(size)[x] + f[t \ {x}]]
           iter == CHOOSE f : Eqn(f)
           g == [k \in 1 .. n |-> group[k] * s[k]]
<1>1. n \in Nat /\ S = 1 .. n /\ \A k \in 1 .. n : group[k] \in Nat
  OBVIOUS
<1>2. s \in Seq(Nat) /\ Len(s) = n
  BY StrideOfSizes DEF Radix
<1>3. slot(size, group) = iter[S]
  BY DEF slot, MapThenSumSet, MapThenFoldSet
<1> HIDE DEF s
<1>4. g \in [1 .. n -> Nat]
  <2> SUFFICES ASSUME NEW k \in 1 .. n PROVE group[k] * s[k] \in Nat
    OBVIOUS
  <2>1. group[k] \in Nat /\ s[k] \in Nat
    BY <1>1, <1>2
  <2> QED BY <2>1, TimesMonotone
<1>5. ASSUME NEW f PROVE Summed(f, 1 .. n, g) <=> Eqn(f)
  <2>1. \A t \in (SUBSET (1 .. n)) \ {{}} : Chosen(t) \in 1 .. n
    BY DEF Chosen
  <2>2. \A t \in (SUBSET (1 .. n)) \ {{}} : g[Chosen(t)] = group[Chosen(t)] * s[Chosen(t)]
    BY <2>1
  <2> DEFINE a(u) == IF u = {} THEN 0 ELSE g[Chosen(u)] + f[u \ {Chosen(u)}]
             b(u) == IF u = {} THEN 0 ELSE group[Chosen(u)] * s[Chosen(u)] + f[u \ {Chosen(u)}]
  <2>3. \A u \in SUBSET (1 .. n) : a(u) = b(u)
    <3> HIDE DEF g, n
    <3> QED BY <2>2
  <2>4. Eqn(f) <=> f = [u \in SUBSET S |-> b(u)]
    BY DEF Chosen, s
  <2>5. Summed(f, 1 .. n, g) <=> f = [u \in SUBSET (1 .. n) |-> a(u)]
    BY DEF Summed
  <2> HIDE DEF a, b, Eqn, S
  <2> QED BY <1>1, <2>3, <2>4, <2>5
<1> HIDE DEF Eqn, iter, g, S, n
<1>6. \E f : Eqn(f)
  <2>1. IsFiniteSet(1 .. n)
    BY <1>1, FS_Interval
  <2> QED BY <1>4, <1>5, <2>1, SummedExists
<1>7. Summed(iter, 1 .. n, g)
  BY <1>5, <1>6 DEF iter
<1> DEFINE h == [k \in 0 .. n |-> iter[1 .. k]]
<1>8. /\ iter[{}] = 0
      /\ \A k \in 0 .. n : iter[1 .. k] \in Nat
      /\ \A k \in 1 .. n : iter[1 .. k] = g[k] + iter[1 .. k - 1]
  BY <1>1, <1>4, <1>7, SummedInOrder
<1>9. PartialSums(group, s, h)
  <2>1. h \in [0 .. n -> Nat]
    BY <1>8
  <2>2. h[0] = 0
    <3>1. 1 .. 0 = {} /\ 0 \in 0 .. n
      BY <1>1
    <3> QED BY <1>8, <3>1
  <2>3. ASSUME NEW k \in 1 .. n PROVE h[k] = h[k - 1] + group[k] * s[k]
    <3>1. k \in 0 .. n /\ k - 1 \in 0 .. n
      BY <1>1
    <3>2. h[k] = iter[1 .. k] /\ h[k - 1] = iter[1 .. k - 1]
      BY <3>1
    <3>3. g[k] = group[k] * s[k] /\ g[k] \in Nat /\ iter[1 .. k - 1] \in Nat
      BY <1>4, <1>8, <3>1 DEF g
    <3> HIDE DEF h
    <3> QED BY <1>8, <3>2, <3>3
  <2> HIDE DEF h
  <2> QED BY <2>1, <2>2, <2>3 DEF PartialSums, n
<1>10. PICK f : PartialSums(group, s, f) /\ linear(s, group) = f[n]
  BY <1>2, LinearOk DEF n
<1>11. f = h
  BY <1>1, <1>9, <1>10, PartialSumsUnique DEF n
<1>12. h[n] = iter[1 .. n]
  BY <1>1
<1> QED BY <1>1, <1>3, <1>10, <1>11, <1>12 DEF s

\* The length of the array is the product of the sizes, which the last stride
\* lacks the last size of.
LEMMA LengthProduct ==
  ASSUME NEW size \in Seq(Nat), Len(size) > 0
  PROVE  containerLength(size) = groupSizeToStride(size)[Len(size)] * size[Len(size)]
<1> DEFINE n == Len(size)
           s == groupSizeToStride(size)
           S == DOMAIN size
           Eqn(f) == f = [t \in SUBSET S |->
                            IF t = {} THEN 1
                            ELSE LET x == CHOOSE x \in t : TRUE
                                 IN  size[x] * f[t \ {x}]]
           iter == CHOOSE f : Eqn(f)
<1>1. n \in Nat /\ n > 0 /\ S = 1 .. n /\ \A k \in 1 .. n : size[k] \in Nat
  OBVIOUS
<1>2. Radix(s, size, n)
  BY StrideOfSizes
<1>3. containerLength(size) = iter[S]
  BY DEF containerLength, FoldFunction, FoldFunctionOnSet, MapThenFoldSet
<1> HIDE DEF s
<1>4. size \in [1 .. n -> Nat]
  BY <1>1
<1>5. ASSUME NEW f PROVE Multiplied(f, 1 .. n, size) <=> Eqn(f)
  <2> HIDE DEF n
  <2> QED BY <1>1 DEF Multiplied, Chosen
<1> HIDE DEF Eqn, iter, S, n
<1>6. \E f : Eqn(f)
  <2>1. IsFiniteSet(1 .. n)
    BY <1>1, FS_Interval
  <2> QED BY <1>4, <1>5, <2>1, MultipliedExists
<1>7. Multiplied(iter, 1 .. n, size)
  BY <1>5, <1>6 DEF iter
<1>8. /\ iter[{}] = 1
      /\ \A k \in 0 .. n : iter[1 .. k] \in Nat
      /\ \A k \in 1 .. n : iter[1 .. k] = size[k] * iter[1 .. k - 1]
  BY <1>1, <1>4, <1>7, MultipliedInOrder
<1> DEFINE P == {k \in Nat : k + 1 <= n => iter[1 .. k] = s[k + 1]}
<1>9. 0 \in P
  <2>1. 1 .. 0 = {}
    OBVIOUS
  <2> QED BY <1>1, <1>2, <1>8, <2>1 DEF Radix
<1>10. ASSUME NEW k \in Nat, k \in P PROVE k + 1 \in P
  <2> SUFFICES ASSUME k + 2 <= n PROVE iter[1 .. k + 1] = s[k + 2]
    OBVIOUS
  <2> DEFINE m == k + 1
  <2>1. m \in 1 .. n /\ m \in 1 .. n - 1 /\ m - 1 = k /\ m + 1 = k + 2
    BY <1>1
  <2>2. iter[1 .. k] = s[m]
    BY <1>10, <2>1
  <2>3. s[m + 1] = s[m] * size[m] /\ s[m] \in Nat /\ size[m] \in Nat
    BY <1>1, <1>2, <2>1 DEF Radix
  <2>4. iter[1 .. m] = size[m] * iter[1 .. k]
    BY <1>8, <2>1
  <2> HIDE DEF m
  <2>5. s[m] * size[m] = size[m] * s[m]
    BY <2>3
  <2> QED BY <2>1, <2>2, <2>3, <2>4, <2>5 DEF m
<1> HIDE DEF P
<1>11. Nat \subseteq P
  BY <1>9, <1>10, NatSetInduction
<1>12. iter[1 .. n - 1] = s[n]
  <2>1. n - 1 \in P /\ (n - 1) + 1 = n
    BY <1>1, <1>11
  <2> QED BY <2>1 DEF P
<1>13. iter[1 .. n] = size[n] * s[n]
  BY <1>1, <1>8, <1>12
<1>14. size[n] \in Nat /\ s[n] \in Nat
  BY <1>1, <1>2 DEF Radix
<1> QED BY <1>1, <1>3, <1>13, <1>14 DEF s, n

\* Below the sizes, every group has a slot of its own in the array.
LEMMA SlotsApart ==
  ASSUME NEW size \in Seq(Nat), NEW g \in Seq(Nat), Len(g) = Len(size),
         \A k \in 1 .. Len(size) : g[k] < size[k]
  PROVE  /\ Len(size) > 0 => slot(size, g) < containerLength(size)
         /\ \A h \in Seq(Nat) :
              /\ Len(h) = Len(size) /\ \A k \in 1 .. Len(size) : h[k] < size[k]
              /\ slot(size, h) = slot(size, g)
              => h = g
<1> DEFINE n == Len(size)
           s == groupSizeToStride(size)
<1>1. Radix(s, size, n) /\ n \in Nat
  BY StrideOfSizes
<1>2. ASSUME NEW h \in Seq(Nat), Len(h) = n, \A k \in 1 .. n : h[k] < size[k]
      PROVE  Digits(h, size, n) /\ slot(size, h) = linear(s, h)
  BY <1>2, SlotLinear DEF Digits
<1>3. ASSUME n > 0 PROVE slot(size, g) < containerLength(size)
  <2>1. PICK f : PartialSums(g, s, f) /\ linear(s, g) = f[n]
    <3> HIDE DEF s
    <3> QED BY <1>1, LinearOk DEF Radix
  <2>2. \A k \in 1 .. n : f[k - 1] < s[k]
    <3>1. Digits(g, size, n)
      BY <1>2
    <3> HIDE DEF s, n
    <3> QED BY <1>1, <2>1, <3>1, PartialSumsBelow
  <2> DEFINE a == s[n]
             b == g[n]
             c == size[n]
  <2>3. n \in 1 .. n /\ a \in Nat /\ b \in Nat /\ c \in Nat /\ b < c
    BY <1>1, <1>3 DEF Radix
  <2>4. f[n] = f[n - 1] + b * a /\ f[n - 1] < a /\ f[n - 1] \in Nat
    <3>1. n - 1 \in 0 .. n
      BY <1>3
    <3> QED BY <2>1, <2>2, <2>3, <3>1 DEF PartialSums
  <2>5. containerLength(size) = a * c
    BY <1>3, LengthProduct
  <2>6. slot(size, g) = f[n]
    BY <1>2, <2>1
  <2>7. a * (b + 1) <= a * c
    <3>1. b + 1 \in Nat /\ b + 1 <= c
      BY <2>3
    <3> HIDE DEF a, b, c
    <3> QED BY <2>3, <3>1, TimesMonotone
  <2>8. a * (b + 1) = b * a + a /\ b * a \in Nat /\ a * c \in Nat
    BY <2>3
  <2> HIDE DEF a, b, c, n, s
  <2> QED BY SMTT(30), <2>3, <2>4, <2>5, <2>6, <2>7, <2>8
<1>4. ASSUME NEW h \in Seq(Nat), Len(h) = n, \A k \in 1 .. n : h[k] < size[k],
             slot(size, h) = slot(size, g)
      PROVE  h = g
  <2>1. Digits(h, size, n) /\ Digits(g, size, n) /\ linear(s, h) = linear(s, g)
    BY <1>2, <1>4
  <2> HIDE DEF n, s
  <2> QED BY <1>1, <2>1, DigitsUnique
<1> QED BY <1>3, <1>4

-----------------------------------------------------------------------------
(* The members of a class *)

LEMMA GroupSizeBounds ==
  ASSUME NEW S, ~ MixedGroups(S), IsFiniteSet(S), \A x \in S : x.group \in Seq(Nat), NEW x \in S,
         NEW size, size = groupSize(S, baseNameWithNamespace(x))
  PROVE  /\ size \in Seq(Nat) /\ Len(size) = Len(x.group)
         /\ \A k \in 1 .. Len(size) : x.group[k] < size[k]
<1> DEFINE b == baseNameWithNamespace(x)
           g == CHOOSE g \in GroupIndices(S, b) : TRUE
           f == [k \in DOMAIN g |-> Max({h[k] : h \in GroupIndices(S, b)}) + 1]
           n == Len(x.group)
<1>1. groupSize(S, b) = f
  BY DEF groupSize
<1>2. x.group \in GroupIndices(S, b)
  BY DEF GroupIndices, Members
<1>3. \A h \in GroupIndices(S, b) : h \in Seq(Nat) /\ Len(h) = n
  BY DEF GroupIndices, Members, MixedGroups
<1>4. g \in GroupIndices(S, b)
  BY <1>2
<1> HIDE DEF g
<1>5. DOMAIN g = 1 .. n /\ n \in Nat
  BY <1>3, <1>4
<1>6. ASSUME NEW k \in 1 .. n
      PROVE  f[k] \in Nat /\ x.group[k] < f[k]
  <2> DEFINE M == {h[k] : h \in GroupIndices(S, b)}
             e == [y \in Members(S, b) |-> y.group[k]]
  <2>1. IsFiniteSet(Members(S, b))
    BY FS_Subset DEF Members
  <2>2. M = Range(e)
    BY DEF Range, GroupIndices
  <2>3. DOMAIN e = Members(S, b) /\ e = [y \in DOMAIN e |-> e[y]]
    OBVIOUS
  <2> HIDE DEF e
  <2>4. IsFiniteSet(M)
    BY <2>1, <2>2, <2>3, RangeFinite
  <2>5. M \subseteq Nat
    <3>1. \A h \in GroupIndices(S, b) : h[k] \in Nat
      BY <1>3
    <3> QED BY <3>1
  <2>6. x.group[k] \in M
    BY <1>2
  <2>7. f[k] = Max(M) + 1
    BY <1>5
  <2> HIDE DEF M, f
  <2>8. Max(M) \in M /\ x.group[k] <= Max(M)
    <3>1. M \subseteq Int /\ M # {}
      BY <2>5, <2>6
    <3> QED BY <2>4, <2>6, <3>1, MaxOk
  <2>9. Max(M) \in Nat /\ x.group[k] \in Nat
    BY <2>5, <2>6, <2>8
  <2> QED BY <2>7, <2>8, <2>9
<1>7. f = [k \in 1 .. n |-> f[k]]
  BY <1>5
<1> HIDE DEF f
<1>8. f \in Seq(Nat) /\ Len(f) = n
  <2>1. \A k \in 1 .. n : f[k] \in Nat
    BY <1>6
  <2> HIDE DEF n
  <2>2. f \in Seq(Nat) /\ DOMAIN f = 1 .. n
    BY <1>5, <1>7, <2>1, IsASeq
  <2> QED BY <1>5, <2>2
<1> QED BY <1>1, <1>6, <1>8

\* The slot of a tensor or scalar.
SlotIn(C, x) == IF x.group = <<>> THEN 0 ELSE slot(C[baseNameWithNamespace(x)], x.group)

LEMMA ContainersApart ==
  ASSUME NEW S, ~ MixedGroups(S), IsFiniteSet(S), \A x \in S : x.group \in Seq(Nat),
         NEW x \in S, x.group # <<>>
  PROVE  /\ slot(Containers(S)[baseNameWithNamespace(x)], x.group)
              < containerLength(Containers(S)[baseNameWithNamespace(x)])
         /\ \A y \in S : /\ baseNameWithNamespace(y) = baseNameWithNamespace(x)
                         /\ slot(Containers(S)[baseNameWithNamespace(x)], y.group)
                              = slot(Containers(S)[baseNameWithNamespace(x)], x.group)
                         => y.group = x.group
<1> DEFINE b == baseNameWithNamespace(x)
           size == groupSize(S, b)
           n == Len(size)
<1>1. Containers(S)[b] = size
  <2>1. b \in BaseNames(Grouped(S))
    BY DEF BaseNames, Grouped
  <2> QED BY <2>1 DEF Containers
<1>2. ASSUME NEW y \in S, baseNameWithNamespace(y) = b
      PROVE  /\ size \in Seq(Nat) /\ n = Len(y.group) /\ y.group \in Seq(Nat)
             /\ \A k \in 1 .. n : y.group[k] < size[k]
  BY <1>2, GroupSizeBounds
<1>3. /\ size \in Seq(Nat) /\ n = Len(x.group) /\ x.group \in Seq(Nat)
      /\ \A k \in 1 .. n : x.group[k] < size[k]
  BY <1>2
<1>4. n > 0
  BY <1>3
<1> HIDE DEF size
<1>5. /\ slot(size, x.group) < containerLength(size)
      /\ \A h \in Seq(Nat) :
           /\ Len(h) = n /\ \A k \in 1 .. n : h[k] < size[k]
           /\ slot(size, h) = slot(size, x.group)
           => h = x.group
  BY <1>3, <1>4, SlotsApart
<1> HIDE DEF n
<1>6. ASSUME NEW y \in S, baseNameWithNamespace(y) = b, slot(size, y.group) = slot(size, x.group)
      PROVE  y.group = x.group
  <2> DEFINE h == y.group
  <2>1. h \in Seq(Nat) /\ Len(h) = n /\ \A k \in 1 .. n : h[k] < size[k]
    BY <1>2, <1>6
  <2> HIDE DEF h
  <2> QED BY <1>5, <1>6, <2>1 DEF h
<1> QED BY <1>1, <1>5, <1>6

\* No two of the arguments A share a slot, and no slot is outside of its Container.
Apart(o, A) ==
  /\ \A a, b \in A : Member(o, a) = Member(o, b) => a = b
  /\ \A a \in A : a.x.group = <<>> \/ At(o, a) < containerLength(sizeOf(o, a))

\* What the Containers of a kind of arguments are made of.
Sound(S) ==
  /\ ~ MixedGroups(S) /\ IsFiniteSet(S) /\ \A x \in S : x.group \in Seq(Nat)
  /\ \A x, y \in S : <<x.ns, x.name, x.group>> = <<y.ns, y.name, y.group>> => x = y

LEMMA SameSlot ==
  ASSUME NEW S, Sound(S), NEW x \in S, NEW y \in S,
         baseNameWithNamespace(x) = baseNameWithNamespace(y),
         SlotIn(Containers(S), x) = SlotIn(Containers(S), y)
  PROVE  x = y
<1>1. Len(x.group) = Len(y.group) /\ x.group \in Seq(Nat) /\ y.group \in Seq(Nat)
  BY DEF Sound, MixedGroups
<1>2. x.group = y.group
  <2>1. CASE x.group = <<>>
    BY <1>1, <2>1
  <2>2. CASE x.group # <<>>
    <3>1. y.group # <<>>
      BY <1>1, <2>2
    <3> QED BY <2>2, <3>1, ContainersApart DEF Sound, SlotIn
  <2> QED BY <2>1, <2>2
<1>3. x.ns = y.ns /\ x.name = y.name
  BY DEF baseNameWithNamespace
<1> QED BY <1>2, <1>3 DEF Sound

LEMMA ArgumentsApart ==
  ASSUME NEW o, NEW T, NEW S, Sound(T), Sound(S),
         o.containers = Containers(T), o.scalars = Containers(S),
         NEW A, A \subseteq [kind : {"tensor"}, x : T] \cup [kind : {"scalar"}, x : S]
  PROVE  Apart(o, A)
<1>1. ASSUME NEW a \in A, a.kind = "tensor"
      PROVE  /\ a.x \in T /\ a = [kind |-> "tensor", x |-> a.x]
             /\ At(o, a) = SlotIn(Containers(T), a.x)
             /\ sizeOf(o, a) = Containers(T)[baseNameWithNamespace(a.x)]
  <2>1. a.x \in T /\ a = [kind |-> "tensor", x |-> a.x]
    BY <1>1
  <2> QED BY <1>1, <2>1 DEF At, SlotIn, sizeOf
<1>2. ASSUME NEW a \in A, a.kind # "tensor"
      PROVE  /\ a.x \in S /\ a = [kind |-> "scalar", x |-> a.x] /\ a.kind = "scalar"
             /\ At(o, a) = SlotIn(Containers(S), a.x)
             /\ sizeOf(o, a) = Containers(S)[baseNameWithNamespace(a.x)]
  <2>1. a.x \in S /\ a = [kind |-> "scalar", x |-> a.x]
    BY <1>2
  <2> QED BY <1>2, <2>1 DEF At, SlotIn, sizeOf
<1>3. ASSUME NEW a \in A, NEW b \in A, Member(o, a) = Member(o, b) PROVE a = b
  <2>1. /\ a.kind = b.kind /\ baseNameWithNamespace(a.x) = baseNameWithNamespace(b.x)
        /\ At(o, a) = At(o, b)
    BY <1>3 DEF Member
  <2>2. CASE a.kind = "tensor"
    <3>1. b.kind = "tensor"
      BY <2>1, <2>2
    <3>2. a.x = b.x
      BY <1>1, <2>1, <2>2, <3>1, SameSlot
    <3> QED BY <1>1, <2>2, <3>1, <3>2
  <2>3. CASE a.kind # "tensor"
    <3>1. b.kind # "tensor"
      BY <2>1, <2>3
    <3>2. a.x = b.x
      BY <1>2, <2>1, <2>3, <3>1, SameSlot
    <3> QED BY <1>2, <2>3, <3>1, <3>2
  <2> QED BY <2>2, <2>3
<1>4. ASSUME NEW a \in A, a.x.group # <<>> PROVE At(o, a) < containerLength(sizeOf(o, a))
  <2>1. CASE a.kind = "tensor"
    BY <1>1, <1>4, <2>1, ContainersApart DEF Sound, SlotIn
  <2>2. CASE a.kind # "tensor"
    BY <1>2, <1>4, <2>2, ContainersApart DEF Sound, SlotIn
  <2> QED BY <2>1, <2>2
<1> QED BY <1>3, <1>4 DEF Apart

-----------------------------------------------------------------------------
(* The memory of a class *)

\* w[k] is the size of the first k buffers.
Bytes(w, buffers) ==
  /\ w \in [0 .. Len(buffers) -> Nat] /\ w[0] = 0
  /\ \A k \in 1 .. Len(buffers) : w[k] = w[k - 1] + buffers[k] * bytesPerReal

LEMMA RequiredBytes ==
  ASSUME NEW buffers \in Seq(Nat)
  PROVE  \E w : Bytes(w, buffers) /\ requiredTmpMem(buffers) = w[Len(buffers)]
<1> DEFINE n == Len(buffers)
           S == DOMAIN buffers
           Eqn(f) == f = [t \in SUBSET S |->
                            IF t = {} THEN 0
                            ELSE LET x == CHOOSE x \in t : TRUE
                                 IN  buffers[x] * bytesPerReal + f[t \ {x}]]
           iter == CHOOSE f : Eqn(f)
           g == [k \in 1 .. n |-> buffers[k] * bytesPerReal]
<1>1. n \in Nat /\ S = 1 .. n /\ \A k \in 1 .. n : buffers[k] \in Nat
  OBVIOUS
<1>2. requiredTmpMem(buffers) = iter[S]
  BY DEF requiredTmpMem, MapThenSumSet, MapThenFoldSet
<1>3. g \in [1 .. n -> Nat]
  <2> SUFFICES ASSUME NEW k \in 1 .. n PROVE buffers[k] * bytesPerReal \in Nat
    OBVIOUS
  <2>1. buffers[k] \in Nat /\ bytesPerReal \in Nat
    BY <1>1, RealAssumption
  <2> QED BY <2>1, TimesMonotone
<1>4. ASSUME NEW f PROVE Summed(f, 1 .. n, g) <=> Eqn(f)
  <2> DEFINE a(u) == IF u = {} THEN 0 ELSE g[Chosen(u)] + f[u \ {Chosen(u)}]
             b(u) == IF u = {} THEN 0 ELSE buffers[Chosen(u)] * bytesPerReal + f[u \ {Chosen(u)}]
  <2>1. \A t \in (SUBSET (1 .. n)) \ {{}} : Chosen(t) \in 1 .. n
    BY DEF Chosen
  <2>2. \A t \in (SUBSET (1 .. n)) \ {{}} : g[Chosen(t)] = buffers[Chosen(t)] * bytesPerReal
    BY <2>1
  <2>3. \A u \in SUBSET (1 .. n) : a(u) = b(u)
    <3> HIDE DEF g, n
    <3> QED BY <2>2
  <2>4. Eqn(f) <=> f = [u \in SUBSET S |-> b(u)]
    BY DEF Chosen
  <2>5. Summed(f, 1 .. n, g) <=> f = [u \in SUBSET (1 .. n) |-> a(u)]
    BY DEF Summed
  <2> HIDE DEF a, b, Eqn, S
  <2> QED BY <1>1, <2>3, <2>4, <2>5
<1> HIDE DEF Eqn, iter, g, S, n
<1>5. \E f : Eqn(f)
  <2>1. IsFiniteSet(1 .. n)
    BY <1>1, FS_Interval
  <2> QED BY <1>3, <1>4, <2>1, SummedExists
<1>6. Summed(iter, 1 .. n, g)
  BY <1>4, <1>5 DEF iter
<1> DEFINE h == [k \in 0 .. n |-> iter[1 .. k]]
<1>7. /\ iter[{}] = 0
      /\ \A k \in 0 .. n : iter[1 .. k] \in Nat
      /\ \A k \in 1 .. n : iter[1 .. k] = g[k] + iter[1 .. k - 1]
  BY <1>1, <1>3, <1>6, SummedInOrder
<1>8. Bytes(h, buffers)
  <2>1. h \in [0 .. n -> Nat]
    BY <1>7
  <2>2. h[0] = 0
    <3>1. 1 .. 0 = {} /\ 0 \in 0 .. n
      BY <1>1
    <3> QED BY <1>7, <3>1
  <2>3. ASSUME NEW k \in 1 .. n PROVE h[k] = h[k - 1] + buffers[k] * bytesPerReal
    <3>1. k \in 0 .. n /\ k - 1 \in 0 .. n
      BY <1>1
    <3>2. h[k] = iter[1 .. k] /\ h[k - 1] = iter[1 .. k - 1]
      BY <3>1
    <3>3. g[k] = buffers[k] * bytesPerReal /\ g[k] \in Nat /\ iter[1 .. k - 1] \in Nat
      BY <1>3, <1>7, <3>1 DEF g
    <3> HIDE DEF h
    <3> QED BY <1>7, <3>2, <3>3
  <2> HIDE DEF h
  <2> QED BY <2>1, <2>2, <2>3 DEF Bytes, n
<1>9. h[n] = iter[1 .. n]
  BY <1>1
<1> QED BY <1>1, <1>2, <1>8, <1>9 DEF n

Outlines(outlines) == UNION Range(outlines)
Arguments(outlines) == UNION {Args(ko) : ko \in Outlines(outlines)}

\* The memory mem is enough for every member.
Fits(outlines, mem) ==
  /\ mem \in Nat
  /\ \A ko \in Outlines(outlines) :
       ko.buffers \in Seq(Nat) /\ requiredTmpMem(ko.buffers) \in Nat /\ requiredTmpMem(ko.buffers) <= mem

LEMMA OutlineSize ==
  ASSUME NEW k, Keyed(k)
  PROVE  /\ Outline(k).buffers \in Seq(Nat)
         /\ Outline(k).tmp_mem_size = requiredTmpMem(Outline(k).buffers)
         /\ Outline(k).tmp_mem_size \in Nat
<1>1. Outline(k).buffers = Program(k).buffers
  BY DEF Outline, generateKernelOutline
<1>2. Outline(k).tmp_mem_size = requiredTmpMem(Program(k).buffers)
  BY DEF Outline, generateKernelOutline
<1> DEFINE buffers == Program(k).buffers
<1>3. buffers \in Seq(Nat)
  BY ProgramAssumption DEF Keyed, Program
<1> HIDE DEF buffers
<1>4. PICK w : Bytes(w, buffers) /\ requiredTmpMem(buffers) = w[Len(buffers)]
  BY <1>3, RequiredBytes
<1>5. Len(buffers) \in 0 .. Len(buffers)
  BY <1>3
<1>6. requiredTmpMem(buffers) \in Nat
  BY <1>4, <1>5 DEF Bytes
<1> QED BY <1>1, <1>2, <1>3, <1>6 DEF buffers

LEMMA ClassFits ==
  ASSUME SInv, NEW class, NEW K \in SUBSET AllKernels, ClassOf(class, K)
  PROVE  Fits(class.outlines, class.TmpMaxMem)
<1> DEFINE o == class.outlines
           size == [k \in K |-> Outline(k).tmp_mem_size]
           S == {0} \cup Range(size)
<1>1. \A k \in K : Keyed(k)
  BY AllKernelsKeyed
<1>2. Outlines(o) = {Outline(k) : k \in K}
  BY DEF ClassOf, Outlines
<1>3. class.TmpMaxMem = Max(S)
  <2>1. class.TmpMaxMem = Max({0} \cup {ko.tmp_mem_size : ko \in Outlines(o)})
    BY DEF ClassOf, TmpMaxMem, Outlines
  <2>2. {ko.tmp_mem_size : ko \in Outlines(o)} = Range(size)
    BY <1>2 DEF Range
  <2> QED BY <2>1, <2>2
<1>4. IsFiniteSet(S)
  <2>1. IsFiniteSet(K)
    BY AllKernelsFinite, FS_Subset
  <2>2. DOMAIN size = K /\ size = [k \in DOMAIN size |-> size[k]]
    OBVIOUS
  <2> HIDE DEF size
  <2>3. IsFiniteSet(Range(size))
    BY <2>1, <2>2, RangeFinite
  <2>4. IsFiniteSet(Range(size) \cup {0})
    BY <2>3, FS_AddElement
  <2>5. Range(size) \cup {0} = S
    OBVIOUS
  <2> QED BY <2>4, <2>5
<1>5. S \subseteq Nat /\ \A k \in K : Outline(k).tmp_mem_size \in S
  BY <1>1, OutlineSize DEF Range
<1> HIDE DEF o, size
<1>6. Max(S) \in S /\ \A x \in S : x <= Max(S)
  <2>1. S \subseteq Int /\ S # {}
    BY <1>5
  <2> HIDE DEF S
  <2> QED BY <1>4, <2>1, MaxOk
<1> HIDE DEF S
<1>7. ASSUME NEW ko \in Outlines(o)
      PROVE  /\ ko.buffers \in Seq(Nat) /\ requiredTmpMem(ko.buffers) \in Nat
             /\ requiredTmpMem(ko.buffers) <= Max(S)
  <2>1. PICK k \in K : ko = Outline(k)
    BY <1>2
  <2> QED BY <1>1, <1>5, <1>6, <2>1, OutlineSize
<1> QED BY <1>3, <1>5, <1>6, <1>7 DEF Fits, o

LEMMA EveryTensorFinite ==
  ASSUME SInv
  PROVE  IsFiniteSet(EveryTensor) /\ IsFiniteSet(AllScalars)
<1> DEFINE f == [k \in AllKernels |-> Program(k).tensors]
           g == [k \in AllKernels |-> Program(k).scalars]
<1>1. \A k \in AllKernels : IsFiniteSet(Program(k).tensors) /\ IsFiniteSet(Program(k).scalars)
  BY AllKernelsKeyed, ProgramAssumption DEF Keyed, Program
<1>2. /\ DOMAIN f = AllKernels /\ f = [k \in DOMAIN f |-> f[k]]
      /\ DOMAIN g = AllKernels /\ g = [k \in DOMAIN g |-> g[k]]
      /\ EveryTensor = UNION Range(f) /\ AllScalars = UNION Range(g)
  BY DEF Range, EveryTensor, AllScalars
<1>3. (\A A \in Range(f) : IsFiniteSet(A)) /\ (\A A \in Range(g) : IsFiniteSet(A))
  BY <1>1 DEF Range
<1> HIDE DEF f, g
<1>4. IsFiniteSet(Range(f)) /\ IsFiniteSet(Range(g))
  BY <1>2, AllKernelsFinite, RangeFinite
<1> QED BY <1>2, <1>3, <1>4, FS_UNION

\* What the objects of the emitted classes are made of.
OutMembers(out) ==
  /\ \A c \in out.classes : Fits(c.class.outlines, c.class.TmpMaxMem)
  /\ Namesakes(AllTensors(out)) = {} => \A c \in out.classes : Apart(out, Arguments(c.class.outlines))

LEMMA GeneratedMembers ==
  ASSUME SInv, NEW tensors \in Entered(EveryTensor), ~ GenerateRaises(AllRequests, tensors, AllScalars),
         NEW out, out = [classes |-> KernelClasses \cup FamilyClasses,
                         containers |-> Containers(tensors), scalars |-> Containers(AllScalars)]
  PROVE  OutMembers(out)
<1>1. /\ ~ MixedGroups(tensors) /\ ~ MixedGroups(AllScalars)
      /\ \A x \in EveryTensor \cup AllScalars : x.group \in Seq(Nat)
      /\ \A c \in out.classes : \E K \in SUBSET AllKernels : ClassOf(c.class, K)
      /\ AllTensors(out) = EveryTensor
      /\ Namesakes(AllTensors(out)) = {} => tensors = EveryTensor
  BY GeneratedAll
<1>2. out.containers = Containers(tensors) /\ out.scalars = Containers(AllScalars)
  OBVIOUS
<1>3. \A c \in out.classes : Fits(c.class.outlines, c.class.TmpMaxMem)
  BY <1>1, ClassFits
<1>4. ASSUME Namesakes(AllTensors(out)) = {}, NEW c \in out.classes
      PROVE  Apart(out, Arguments(c.class.outlines))
  <2> DEFINE o == c.class.outlines
             A == Arguments(o)
  <2>1. PICK K \in SUBSET AllKernels : ClassOf(c.class, K)
    BY <1>1
  <2>2. \A ko \in Outlines(o) : ko.tensors \subseteq EveryTensor /\ ko.scalars \subseteq AllScalars
    <3>1. ASSUME NEW k \in K
          PROVE  Outline(k).tensors \subseteq EveryTensor /\ Outline(k).scalars \subseteq AllScalars
      BY DEF Outline, generateKernelOutline, EveryTensor, AllScalars
    <3>2. Outlines(o) = {Outline(k) : k \in K}
      BY <2>1 DEF ClassOf, Outlines
    <3> QED BY <3>1, <3>2
  <2>3. A \subseteq [kind : {"tensor"}, x : EveryTensor] \cup [kind : {"scalar"}, x : AllScalars]
    <3>1. ASSUME NEW ko \in Outlines(o)
          PROVE  Args(ko) \subseteq [kind : {"tensor"}, x : EveryTensor] \cup [kind : {"scalar"}, x : AllScalars]
      BY <2>2 DEF Args
    <3> QED BY <3>1 DEF Arguments
  <2>4. Sound(EveryTensor)
    <3>1. \A x, y \in EveryTensor : <<x.name, x.group>> = <<y.name, y.group>> => x = y
      BY <1>1, <1>4 DEF Namesakes
    <3>2. \A x, y \in EveryTensor : <<x.ns, x.name, x.group>> = <<y.ns, y.name, y.group>> => x = y
      BY <3>1
    <3>3. ~ MixedGroups(EveryTensor)
      BY <1>1, <1>4
    <3> QED BY <1>1, <3>2, <3>3, EveryTensorFinite DEF Sound
  <2>5. Sound(AllScalars)
    <3>1. \A x \in AllScalars : x = [ns |-> x.ns, name |-> x.name, group |-> x.group]
      <4>1. \A k \in AllKernels : \A x \in Program(k).scalars :
               x = [ns |-> x.ns, name |-> x.name, group |-> x.group]
        BY AllKernelsKeyed, ProgramAssumption DEF Keyed, Program
      <4> QED BY <4>1 DEF AllScalars
    <3>2. \A x, y \in AllScalars : <<x.ns, x.name, x.group>> = <<y.ns, y.name, y.group>> => x = y
      <4> SUFFICES ASSUME NEW x \in AllScalars, NEW y \in AllScalars,
                          x.ns = y.ns, x.name = y.name, x.group = y.group
                   PROVE  x = y
        OBVIOUS
      <4>1. x = [ns |-> x.ns, name |-> x.name, group |-> x.group]
        BY <3>1
      <4>2. y = [ns |-> y.ns, name |-> y.name, group |-> y.group]
        BY <3>1
      <4> QED BY <4>1, <4>2
    <3> QED BY <1>1, <3>2, EveryTensorFinite DEF Sound
  <2>6. out.containers = Containers(EveryTensor)
    BY <1>1, <1>2, <1>4
  <2> HIDE DEF A
  <2>7. Apart(out, A)
    BY <1>2, <2>3, <2>4, <2>5, <2>6, ArgumentsApart
  <2> QED BY <2>7 DEF A
<1> QED BY <1>3, <1>4 DEF OutMembers

-----------------------------------------------------------------------------
(* The memory of an execution *)

LEMMA ModuloSmall ==
  ASSUME NEW x \in Nat, NEW m \in Nat, x <= m
  PROVE  x % (2 * m) = x \/ m = 0
OBVIOUS

LEMMA ModuloShifted ==
  ASSUME NEW x \in Nat, NEW m \in Nat, x <= m
  PROVE  ((x + m + 1) % (2 * (m + 1))) - (m + 1) = x
OBVIOUS

LEMMA Quotient ==
  ASSUME NEW x \in Nat, NEW d \in Nat \ {0}, NEW m \in Nat, d * x <= m
  PROVE  x <= m \div d
OBVIOUS

LEMMA Cancel ==
  ASSUME NEW d \in Nat \ {0}, NEW x \in Nat, NEW y \in Nat, d * x <= d * y
  PROVE  x <= y
<1> SUFFICES ASSUME y + 1 <= x PROVE FALSE
  OBVIOUS
<1>1. d * (y + 1) <= d * x
  BY TimesMonotone
<1>2. d * (y + 1) = d * y + d /\ d * y \in Nat /\ d * x \in Nat
  OBVIOUS
<1> QED BY <1>1, <1>2

\* r[k] is the number of reals of the first k buffers of a batch.
Reals(r, buffers, batch) ==
  /\ r \in [0 .. Len(buffers) -> Nat] /\ r[0] = 0
  /\ \A k \in 1 .. Len(buffers) :
       batch * buffers[k] \in Nat /\ r[k] = r[k - 1] + batch * buffers[k]

LEMMA RealsExist ==
  ASSUME NEW buffers \in Seq(Nat), NEW batch \in Nat
  PROVE  \E r : Reals(r, buffers, batch)
<1> DEFINE n == Len(buffers)
           s == [k \in 1 .. n |-> batch]
<1>1. n \in Nat
  OBVIOUS
<1>2. s \in Seq(Nat) /\ DOMAIN s = 1 .. n
  <2>1. \A k \in 1 .. n : batch \in Nat
    OBVIOUS
  <2> HIDE DEF n
  <2> QED BY <1>1, <2>1, IsASeq
<1>3. Len(s) = n
  <2> HIDE DEF s
  <2> QED BY <1>1, <1>2
<1>4. \A k \in 1 .. n : s[k] = batch
  OBVIOUS
<1> HIDE DEF s
<1>5. PICK r : PartialSums(buffers, s, r)
  BY <1>1, <1>2, <1>3, PartialSumsExist
<1>6. ASSUME NEW k \in 1 .. n PROVE buffers[k] * batch = batch * buffers[k] /\ batch * buffers[k] \in Nat
  <2>1. buffers[k] \in Nat
    OBVIOUS
  <2> QED BY <2>1, TimesMonotone
<1>7. Reals(r, buffers, batch)
  BY <1>4, <1>5, <1>6 DEF Reals, PartialSums
<1> QED BY <1>7

LEMMA RealsMonotone ==
  ASSUME NEW buffers \in Seq(Nat), NEW batch, NEW r, Reals(r, buffers, batch)
  PROVE  \A l \in 0 .. Len(buffers) : \A k \in 0 .. l : r[k] <= r[l]
<1> DEFINE n == Len(buffers)
           P == {l \in Nat : l <= n => \A k \in 0 .. l : r[k] <= r[l]}
<1>1. n \in Nat /\ \A k \in 0 .. n : r[k] \in Nat
  <2>1. n \in Nat
    OBVIOUS
  <2>2. r \in [0 .. n -> Nat]
    BY DEF Reals
  <2> QED BY <2>1, <2>2
<1>2. 0 \in P
  BY <1>1
<1>3. ASSUME NEW l \in Nat, l \in P PROVE l + 1 \in P
  <2> SUFFICES ASSUME l + 1 <= n, NEW k \in 0 .. l + 1 PROVE r[k] <= r[l + 1]
    OBVIOUS
  <2> DEFINE m == l + 1
  <2>1. m \in 1 .. n /\ m - 1 = l /\ m \in 0 .. n /\ l \in 0 .. n
    BY <1>1
  <2>2. r[m] = r[l] + batch * buffers[m] /\ batch * buffers[m] \in Nat /\ r[l] \in Nat /\ r[m] \in Nat
    BY <2>1 DEF Reals
  <2>3. r[l] <= r[m]
    BY <2>2
  <2>4. k = m \/ k \in 0 .. l
    OBVIOUS
  <2>5. CASE k \in 0 .. l
    <3>1. r[k] <= r[l]
      BY <1>3, <2>1, <2>5
    <3>2. r[k] \in Nat
      BY <1>1, <2>1
    <3> QED BY <2>2, <2>3, <3>1, <3>2
  <2>6. CASE k = m
    BY <2>2, <2>6
  <2> QED BY <2>4, <2>5, <2>6
<1> HIDE DEF P
<1>4. Nat \subseteq P
  BY <1>2, <1>3, NatSetInduction
<1> QED BY <1>4 DEF P

LEMMA RealsBytes ==
  ASSUME NEW buffers \in Seq(Nat), NEW batch \in Nat, NEW r, Reals(r, buffers, batch)
  PROVE  bytesPerReal * r[Len(buffers)] = batch * requiredTmpMem(buffers)
<1> DEFINE n == Len(buffers)
<1>1. PICK w : Bytes(w, buffers) /\ requiredTmpMem(buffers) = w[n]
  BY RequiredBytes
<1> DEFINE P == {k \in Nat : k <= n => bytesPerReal * r[k] = batch * w[k]}
<1>2. n \in Nat /\ bytesPerReal \in Nat
  BY RealAssumption
<1>3. 0 \in P
  BY <1>1, <1>2 DEF Reals, Bytes
<1>4. ASSUME NEW k \in Nat, k \in P PROVE k + 1 \in P
  <2> SUFFICES ASSUME k + 1 <= n PROVE bytesPerReal * r[k + 1] = batch * w[k + 1]
    OBVIOUS
  <2> DEFINE m == k + 1
             b == bytesPerReal
             x == buffers[m]
  <2>1. m \in 1 .. n /\ m - 1 = k /\ k \in 0 .. n
    BY <1>2
  <2>2. b * r[k] = batch * w[k]
    BY <1>4, <2>1
  <2>3. r[m] = r[k] + batch * x /\ batch * x \in Nat /\ r[k] \in Nat
    BY <2>1 DEF Reals
  <2>4. w[m] = w[k] + x * b /\ w[k] \in Nat
    BY <1>1, <2>1 DEF Bytes
  <2>5. x \in Nat /\ b \in Nat
    BY <1>2, <2>1
  <2> HIDE DEF m, b, x
  <2>6. b * r[m] = b * r[k] + b * (batch * x)
    BY <2>3, <2>5
  <2>7. batch * w[m] = batch * w[k] + batch * (x * b)
    BY <2>4, <2>5
  <2>8. b * (batch * x) = batch * (x * b)
    BY <2>5
  <2> QED BY <2>2, <2>6, <2>7, <2>8 DEF b, m
<1> HIDE DEF P
<1>5. n \in P
  BY <1>2, <1>3, <1>4, NatSetInduction
<1> QED BY <1>1, <1>5 DEF P

\* Where the buffers start, as long as all of them are no more than an int
\* counts.
LEMMA AllocatedOk ==
  ASSUME NEW buffers \in Seq(Nat), NEW batch \in Nat, NEW r, Reals(r, buffers, batch),
         NEW alloc, alloc.byteCount = 0, r[Len(buffers)] <= MaxInt + 1
  PROVE  /\ DOMAIN Allocated(alloc, batch, buffers) = 1 .. Len(buffers)
         /\ \A k \in 1 .. Len(buffers) : Allocated(alloc, batch, buffers)[k] = asInt(r[k - 1])
<1> DEFINE n == Len(buffers)
           Eqn(f) == f = [k \in 1 .. Len(buffers) |->
                            IF k = 1 THEN alloc.byteCount
                            ELSE f[k - 1] + asUnsigned(batch * buffers[k - 1])]
           before == CHOOSE f : Eqn(f)
           f == [k \in 1 .. n |-> r[k - 1]]
<1>1. n \in Nat /\ MaxInt \in Nat /\ \A k \in 0 .. n : r[k] \in Nat
  BY ObjectAssumption DEF Reals
<1>2. Allocated(alloc, batch, buffers) = [k \in 1 .. n |-> asInt(before[k])]
  BY DEF Allocated
<1>3. ASSUME NEW k \in 1 .. n
      PROVE  /\ asUnsigned(batch * buffers[k]) = batch * buffers[k]
             /\ r[k] = r[k - 1] + batch * buffers[k]
  <2> DEFINE x == batch * buffers[k]
             m == MaxInt + 1
  <2>1. r[k] = r[k - 1] + x /\ x \in Nat
    BY DEF Reals
  <2>2. r[k] <= r[n]
    <3>1. n \in 0 .. n /\ k \in 0 .. n
      BY <1>1
    <3> QED BY <3>1, RealsMonotone
  <2>3. r[k - 1] \in Nat /\ r[k] \in Nat /\ r[n] \in Nat
    <3>1. k - 1 \in 0 .. n /\ k \in 0 .. n /\ n \in 0 .. n
      BY <1>1
    <3> QED BY <1>1, <3>1
  <2>4. m \in Nat /\ m # 0
    BY <1>1
  <2>5. x <= m
    <3> HIDE DEF x, m, n
    <3>1. r[n] <= m
      BY DEF m, n
    <3> QED BY <2>1, <2>2, <2>3, <2>4, <3>1
  <2>6. asUnsigned(x) = x % (2 * m)
    BY DEF asUnsigned
  <2> HIDE DEF x, m
  <2>7. asUnsigned(x) = x
    BY <2>1, <2>4, <2>5, <2>6, ModuloSmall
  <2> QED BY <2>1, <2>7 DEF x
<1>4. Eqn(f)
  <2>1. ASSUME NEW k \in 1 .. n
        PROVE  r[k - 1] = IF k = 1 THEN alloc.byteCount
                          ELSE f[k - 1] + asUnsigned(batch * buffers[k - 1])
    <3>1. CASE k = 1
      BY <3>1 DEF Reals
    <3>2. CASE k # 1
      <4> DEFINE j == k - 1
      <4>1. j \in 1 .. n
        BY <1>1, <3>2
      <4>2. f[j] = r[j - 1] /\ r[j] = r[j - 1] + asUnsigned(batch * buffers[j])
        BY <1>3, <4>1
      <4> HIDE DEF f
      <4> QED BY <3>2, <4>2
    <3> QED BY <3>1, <3>2
  <2> QED BY <2>1
<1>5. Eqn(before)
  BY <1>4
<1>6. /\ n > 0 => before[1] = alloc.byteCount
      /\ \A k \in 1 .. n : k # 1 => before[k] = before[k - 1] + asUnsigned(batch * buffers[k - 1])
  <2> HIDE DEF before
  <2>1. before = [k \in 1 .. n |-> IF k = 1 THEN alloc.byteCount
                                   ELSE before[k - 1] + asUnsigned(batch * buffers[k - 1])]
    BY <1>5
  <2> HIDE DEF Eqn, n
  <2>2. \A k \in 1 .. n : before[k] = IF k = 1 THEN alloc.byteCount
                                      ELSE before[k - 1] + asUnsigned(batch * buffers[k - 1])
    BY <2>1
  <2>3. n > 0 => 1 \in 1 .. n
    BY <1>1
  <2> QED BY <2>2, <2>3
<1> HIDE DEF Eqn, before, f
<1> DEFINE P == {k \in Nat : k + 1 <= n => before[k + 1] = r[k]}
<1>7. 0 \in P
  BY <1>6 DEF Reals
<1>8. ASSUME NEW k \in Nat, k \in P PROVE k + 1 \in P
  <2> SUFFICES ASSUME k + 2 <= n PROVE before[k + 2] = r[k + 1]
    OBVIOUS
  <2> DEFINE m == k + 1
             l == k + 2
  <2>1. m \in 1 .. n /\ m - 1 = k /\ l \in 1 .. n /\ l # 1 /\ l - 1 = m
    BY <1>1
  <2>2. before[m] = r[k]
    BY <1>8, <2>1
  <2>3. before[l] = before[m] + asUnsigned(batch * buffers[m])
    BY <1>6, <2>1
  <2>4. r[m] = r[k] + asUnsigned(batch * buffers[m])
    BY <1>3, <2>1
  <2> QED BY <2>2, <2>3, <2>4
<1> HIDE DEF P
<1>9. Nat \subseteq P
  BY <1>7, <1>8, NatSetInduction
<1>10. ASSUME NEW k \in 1 .. n PROVE before[k] = r[k - 1]
  <2>1. k - 1 \in P /\ (k - 1) + 1 = k /\ k <= n
    BY <1>1, <1>9
  <2> QED BY <2>1 DEF P
<1>11. \A k \in 1 .. n : Allocated(alloc, batch, buffers)[k] = asInt(r[k - 1])
  BY <1>2, <1>10
<1>12. DOMAIN Allocated(alloc, batch, buffers) = 1 .. n
  BY <1>2
<1> QED BY <1>11, <1>12

\* The reals that buffer k of an execution takes.
Chunk(e, k) == e.chunks[k] .. e.chunks[k] + e.batch * e.buffers[k] - 1
Enough(e) ==
  LET total == e.batch * requiredTmpMem(e.buffers)
  IN  total <= bytesPerReal * (MaxInt + 1) /\ (e.memory = TMP_SIZE => total <= TMP_SIZE)
      => \A k \in DOMAIN e.chunks :
           /\ Chunk(e, k) \subseteq 0 .. e.memory \div bytesPerReal - 1
           /\ \A l \in DOMAIN e.chunks : l = k \/ Chunk(e, k) \cap Chunk(e, l) = {}

LEMMA ChunksOk ==
  ASSUME NEW e, NEW alloc, e.buffers \in Seq(Nat), e.batch \in Nat, e.memory \in Nat,
         e.chunks = Allocated(alloc, e.batch, e.buffers), alloc.byteCount = 0,
         e.batch * requiredTmpMem(e.buffers) <= bytesPerReal * (MaxInt + 1),
         e.batch * requiredTmpMem(e.buffers) <= e.memory
  PROVE  \A k \in DOMAIN e.chunks :
           /\ Chunk(e, k) \subseteq 0 .. e.memory \div bytesPerReal - 1
           /\ \A l \in DOMAIN e.chunks : l = k \/ Chunk(e, k) \cap Chunk(e, l) = {}
<1> DEFINE buffers == e.buffers
           batch == e.batch
           n == Len(buffers)
           d == bytesPerReal
           M == e.memory \div d
<1>1. buffers \in Seq(Nat) /\ batch \in Nat /\ n \in Nat
  OBVIOUS
<1>2. d \in Nat \ {0} /\ MaxInt \in Nat
  BY RealAssumption, ObjectAssumption
<1>3. PICK r : Reals(r, buffers, batch)
  <2> HIDE DEF buffers, batch
  <2> QED BY <1>1, RealsExist
<1>4. r[n] \in Nat /\ \A k \in 0 .. n : r[k] \in Nat
  BY SMTT(30), <1>1, <1>3 DEF Reals
<1>5. d * r[n] = batch * requiredTmpMem(buffers)
  <2> HIDE DEF buffers, batch
  <2> QED BY <1>1, <1>3, RealsBytes DEF n
<1>6. r[n] <= MaxInt + 1
  <2>1. d * r[n] <= d * (MaxInt + 1) /\ MaxInt + 1 \in Nat
    BY <1>2, <1>5
  <2> HIDE DEF d
  <2> QED BY <1>2, <1>4, <2>1, Cancel
<1>7. r[n] <= M
  <2>1. d * r[n] <= e.memory
    BY <1>5
  <2> HIDE DEF d
  <2> QED BY <1>2, <1>4, <2>1, Quotient
<1>8. M \in Int
  BY <1>2
<1>9. DOMAIN e.chunks = 1 .. n /\ \A k \in 1 .. n : e.chunks[k] = asInt(r[k - 1])
  <2>1. e.chunks = Allocated(alloc, batch, buffers)
    OBVIOUS
  <2> HIDE DEF buffers, batch
  <2> QED BY <1>1, <1>3, <1>6, <2>1, AllocatedOk DEF n
<1>10. \A l \in 0 .. n : \A k \in 0 .. l : r[k] <= r[l]
  <2> HIDE DEF buffers, batch
  <2> QED BY <1>1, <1>3, RealsMonotone DEF n
<1> HIDE DEF n, d, M
<1>11. ASSUME NEW k \in 1 .. n, NEW i \in Chunk(e, k)
       PROVE  i \in Int /\ r[k - 1] <= i /\ i < r[k]
  <2> DEFINE x == batch * buffers[k]
             p == r[k - 1]
  <2>1. r[k] = p + x /\ x \in Nat
    BY <1>3 DEF Reals, n
  <2>2. p \in Nat /\ r[k] \in Nat /\ r[k] <= r[n]
    <3>1. k - 1 \in 0 .. n /\ k \in 0 .. n /\ n \in 0 .. n
      BY <1>1 DEF n
    <3> QED BY <1>4, <1>10, <3>1
  <2>3. i \in asInt(p) .. asInt(p) + x - 1
    BY <1>9 DEF Chunk
  <2>4. asInt(p) = ((p + MaxInt + 1) % (2 * (MaxInt + 1))) - (MaxInt + 1)
    BY DEF asInt
  <2> HIDE DEF x, p
  <2>5. asInt(p) \in Int
    <3>1. 2 * (MaxInt + 1) \in Nat \ {0} /\ p + MaxInt + 1 \in Nat
      BY <1>2, <2>2
    <3>2. (p + MaxInt + 1) % (2 * (MaxInt + 1)) \in Int
      BY <3>1
    <3> QED BY <1>2, <2>4, <3>2
  <2>6. CASE p <= MaxInt
    <3>1. asInt(p) = p
      BY <1>2, <2>2, <2>4, <2>6, ModuloShifted
    <3>2. i \in p .. p + x - 1
      BY <2>3, <3>1
    <3> QED BY <2>1, <2>2, <3>2 DEF p
  <2>7. CASE ~ p <= MaxInt
    <3>1. x = 0
      BY <1>2, <1>4, <1>6, <2>1, <2>2, <2>7
    <3> QED BY <2>3, <2>5, <3>1
  <2> QED BY <2>6, <2>7
<1>12. ASSUME NEW k \in 1 .. n
       PROVE  /\ r[k - 1] \in Nat /\ r[k] \in Nat /\ r[k] <= r[n]
              /\ \A l \in 1 .. n : k < l => r[k] <= r[l - 1]
  <2>1. k - 1 \in 0 .. n /\ k \in 0 .. n /\ n \in 0 .. n
    BY <1>1 DEF n
  <2>2. ASSUME NEW l \in 1 .. n, k < l PROVE r[k] <= r[l - 1]
    <3>1. l - 1 \in 0 .. n /\ k \in 0 .. l - 1
      BY <1>1, <2>2 DEF n
    <3> QED BY <1>10, <3>1
  <2> QED BY <1>4, <1>10, <2>1, <2>2
<1>13. ASSUME NEW k \in 1 .. n PROVE Chunk(e, k) \subseteq 0 .. M - 1
  <2> SUFFICES ASSUME NEW i \in Chunk(e, k) PROVE i \in 0 .. M - 1
    OBVIOUS
  <2> QED BY <1>4, <1>7, <1>8, <1>11, <1>12
<1>14. ASSUME NEW k \in 1 .. n, NEW l \in 1 .. n, k < l, NEW i \in Chunk(e, k), i \in Chunk(e, l)
       PROVE  FALSE
  <2>1. i \in Int /\ i < r[k] /\ r[l - 1] <= i
    BY <1>11, <1>14
  <2>2. r[k] <= r[l - 1] /\ r[k] \in Nat /\ r[l - 1] \in Nat
    BY <1>12, <1>14
  <2> QED BY <2>1, <2>2
<1>15. ASSUME NEW k \in 1 .. n, NEW l \in 1 .. n, l # k PROVE Chunk(e, k) \cap Chunk(e, l) = {}
  <2>1. k < l \/ l < k
    BY <1>1, <1>15 DEF n
  <2> QED BY <1>14, <2>1
<1> QED BY <1>9, <1>13, <1>15 DEF M, d

-----------------------------------------------------------------------------
(* Objects *)

Fields == {"outlines", "TmpMaxMem", "containers", "scalars", "namesakes", "args", "given",
           "numElements", "stream", "alloc"}

\* Whatever the order of the calls, a member holds what was last given for the
\* argument that it is the member of.
Holds(o) ==
  ~ o.namesakes =>
    /\ Apart(o, Arguments(o.outlines))
    /\ \A a \in Arguments(o.outlines) : Get(o.args, Member(o, a), 0) = Get(o.given, a, 0)

\* What the user prepared, or a unit test.
HasMemory(o) ==
  /\ Fits(o.outlines, o.TmpMaxMem)
  /\ o.numElements \in Nat
  /\ o.alloc.byteCount = 0
  /\ o.alloc.isInit => o.alloc.userSpaceMem \in {o.numElements * o.TmpMaxMem, TMP_SIZE}

ObjectOk(o) == DOMAIN o = Fields /\ Holds(o) /\ HasMemory(o)

Sees(e) == ~ e.namesakes => e.inside /\ e.seen = e.given
LastOk(e) == Enough(e) /\ Sees(e)

LEMMA SameMembers ==
  ASSUME NEW o, NEW p, p.containers = o.containers, p.scalars = o.scalars
  PROVE  /\ \A a : sizeOf(p, a) = sizeOf(o, a) /\ At(p, a) = At(o, a) /\ Member(p, a) = Member(o, a)
         /\ \A A : Apart(o, A) => Apart(p, A)
<1>1. \A a : sizeOf(p, a) = sizeOf(o, a)
  BY DEF sizeOf
<1>2. \A a : At(p, a) = At(o, a)
  BY <1>1 DEF At
<1>3. \A a : Member(p, a) = Member(o, a)
  BY <1>2 DEF Member
<1> QED BY <1>1, <1>2, <1>3 DEF Apart

\* A change of anything but the arguments.
LEMMA HoldsKept ==
  ASSUME NEW o, NEW p, Holds(o),
         p.containers = o.containers, p.scalars = o.scalars, p.outlines = o.outlines,
         p.namesakes = o.namesakes, p.args = o.args, p.given = o.given
  PROVE  Holds(p)
<1>1. /\ \A a : Member(p, a) = Member(o, a)
      /\ \A A : Apart(o, A) => Apart(p, A)
  BY SameMembers
<1> QED BY <1>1 DEF Holds

LEMMA WithArgumentsOk ==
  ASSUME NEW o, ObjectOk(o), NEW ko \in Outlines(o.outlines), NEW v
  PROVE  ObjectOk(WithArguments(o, ko, v))
<1> DEFINE p == WithArguments(o, ko, v)
           members == {Member(o, arg) : arg \in Args(ko)}
           args == [y \in members \cup DOMAIN o.args |-> IF y \in members THEN v ELSE o.args[y]]
           given == [arg \in Args(ko) \cup DOMAIN o.given |-> IF arg \in Args(ko) THEN v ELSE o.given[arg]]
<1>1. p = [o EXCEPT !.args = args, !.given = given]
  BY DEF WithArguments
<1>2. DOMAIN o = Fields
  BY DEF ObjectOk
<1> HIDE DEF p
<1>3. /\ DOMAIN p = Fields
      /\ p.args = args /\ p.given = given
      /\ p.outlines = o.outlines /\ p.TmpMaxMem = o.TmpMaxMem
      /\ p.containers = o.containers /\ p.scalars = o.scalars
      /\ p.namesakes = o.namesakes
      /\ p.numElements = o.numElements /\ p.alloc = o.alloc
  <2> HIDE DEF args, given
  <2> QED BY <1>1, <1>2 DEF Fields
<1>4. \A y : Get(args, y, 0) = IF y \in members THEN v ELSE Get(o.args, y, 0)
  <2> HIDE DEF members
  <2> QED BY DEF Get
<1>5. \A a : Get(given, a, 0) = IF a \in Args(ko) THEN v ELSE Get(o.given, a, 0)
  BY DEF Get
<1>6. Args(ko) \subseteq Arguments(o.outlines)
  BY DEF Arguments
<1> HIDE DEF args, given
<1>7. /\ \A a : Member(p, a) = Member(o, a)
      /\ \A A : Apart(o, A) => Apart(p, A)
  BY <1>3, SameMembers
<1>8. Holds(p)
  <2> SUFFICES ASSUME ~ p.namesakes
               PROVE  /\ Apart(p, Arguments(p.outlines))
                      /\ \A a \in Arguments(p.outlines) : Get(p.args, Member(p, a), 0) = Get(p.given, a, 0)
    BY DEF Holds
  <2>1. /\ Apart(o, Arguments(o.outlines))
        /\ \A a \in Arguments(o.outlines) : Get(o.args, Member(o, a), 0) = Get(o.given, a, 0)
    BY <1>3 DEF ObjectOk, Holds
  <2>2. ASSUME NEW a \in Arguments(o.outlines)
        PROVE  Get(args, Member(o, a), 0) = Get(given, a, 0)
    <3>1. a \in Args(ko) <=> Member(o, a) \in members
      BY <1>6, <2>1 DEF Apart
    <3> HIDE DEF members
    <3> QED BY <1>4, <1>5, <2>1, <3>1
  <2> QED BY <1>3, <1>7, <2>1, <2>2
<1>9. HasMemory(p)
  BY <1>3 DEF ObjectOk, HasMemory
<1> QED BY <1>3, <1>8, <1>9 DEF ObjectOk, p

LEMMA PrepareOk ==
  ASSUME NEW o, ObjectOk(o), NEW k \in Nat, NEW mem, mem \in {k * o.TmpMaxMem, TMP_SIZE}
  PROVE  ObjectOk([o EXCEPT !.numElements = k, !.stream = TRUE, !.alloc = initialize(mem)])
<1> DEFINE yes == TRUE
           alloc == initialize(mem)
           p == [o EXCEPT !.numElements = k, !.stream = yes, !.alloc = alloc]
<1>1. DOMAIN o = Fields
  BY DEF ObjectOk
<1> HIDE DEF yes, alloc
<1>2. /\ DOMAIN p = Fields
      /\ p.args = o.args /\ p.given = o.given
      /\ p.outlines = o.outlines /\ p.TmpMaxMem = o.TmpMaxMem
      /\ p.containers = o.containers /\ p.scalars = o.scalars
      /\ p.namesakes = o.namesakes
      /\ p.numElements = k /\ p.alloc = alloc
  BY <1>1 DEF Fields
<1> HIDE DEF p
<1>3. alloc.byteCount = 0 /\ alloc.userSpaceMem = mem
  BY DEF alloc, initialize
<1>4. Holds(p)
  BY <1>2, HoldsKept DEF ObjectOk
<1>5. HasMemory(p)
  BY <1>2, <1>3 DEF ObjectOk, HasMemory
<1>6. ObjectOk(p)
  BY <1>2, <1>4, <1>5 DEF ObjectOk
<1> QED BY <1>6 DEF p, yes, alloc

LEMMA ExecutedOk ==
  ASSUME NEW o, ObjectOk(o), NEW ko
  PROVE  ObjectOk(Executed(o, ko))
<1> DEFINE no == FALSE
           alloc == NewAllocator
           p == [o EXCEPT !.alloc = alloc, !.stream = no]
<1>1. DOMAIN o = Fields
  BY DEF ObjectOk
<1>2. alloc.byteCount = 0 /\ ~ alloc.isInit
  BY DEF NewAllocator
<1> HIDE DEF no, alloc
<1>3. /\ DOMAIN p = Fields
      /\ p.args = o.args /\ p.given = o.given
      /\ p.outlines = o.outlines /\ p.TmpMaxMem = o.TmpMaxMem
      /\ p.containers = o.containers /\ p.scalars = o.scalars
      /\ p.namesakes = o.namesakes
      /\ p.numElements = o.numElements /\ p.alloc = alloc
  BY <1>1 DEF Fields
<1> HIDE DEF p
<1>4. Holds(p)
  BY <1>3, HoldsKept DEF ObjectOk
<1>5. HasMemory(p)
  BY <1>2, <1>3 DEF ObjectOk, HasMemory
<1>6. ObjectOk(p)
  BY <1>3, <1>4, <1>5 DEF ObjectOk
<1>7. Executed(o, ko) = p \/ Executed(o, ko) = o
  BY DEF Executed, p, no, alloc
<1> QED BY <1>6, <1>7

LEMMA ExecutionOk ==
  ASSUME NEW o, ObjectOk(o), NEW ko \in Outlines(o.outlines), ~ Aborts(o, ko)
  PROVE  LastOk(Execution(o, ko))
<1> DEFINE seen == [arg \in Args(ko) |-> Get(o.args, Member(o, arg), 0)]
           given == [arg \in Args(ko) |-> Get(o.given, arg, 0)]
           inside == \A arg \in Args(ko) :
                       arg.x.group = <<>> \/ At(o, arg) < containerLength(sizeOf(o, arg))
           namesakes == o.namesakes
           batch == IF ko.target = "gpu" THEN o.numElements ELSE 1
           memory == o.alloc.userSpaceMem
           chunks == IF ko.target = "gpu" THEN Allocated(o.alloc, o.numElements, ko.buffers) ELSE <<>>
           e == Execution(o, ko)
<1>1. e = [seen |-> seen, given |-> given, inside |-> inside, namesakes |-> namesakes, batch |-> batch,
           buffers |-> ko.buffers, memory |-> memory, chunks |-> chunks]
  BY DEF Execution
<1>2. Args(ko) \subseteq Arguments(o.outlines)
  BY DEF Arguments
<1>3. ~ namesakes => inside /\ seen = given
  BY <1>2 DEF ObjectOk, Holds, Apart
<1> HIDE DEF e, seen, given, inside, namesakes, batch, memory, chunks
<1>4. /\ e.seen = seen /\ e.given = given /\ e.inside = inside /\ e.namesakes = namesakes
      /\ e.batch = batch /\ e.buffers = ko.buffers /\ e.memory = memory /\ e.chunks = chunks
  BY <1>1
<1>5. Sees(e)
  BY <1>3, <1>4 DEF Sees
<1>6. /\ ko.buffers \in Seq(Nat) /\ requiredTmpMem(ko.buffers) \in Nat
      /\ requiredTmpMem(ko.buffers) <= o.TmpMaxMem /\ o.TmpMaxMem \in Nat /\ o.numElements \in Nat
  BY DEF ObjectOk, HasMemory, Fits
<1>7. Enough(e)
  <2>1. CASE ko.target # "gpu"
    <3>1. chunks = <<>>
      BY <2>1 DEF chunks
    <3>2. DOMAIN e.chunks = {}
      BY <1>4, <3>1
    <3> QED BY <3>2 DEF Enough
  <2>2. CASE ko.target = "gpu" /\ ~ o.alloc.isInit
    <3>1. ko.buffers = <<>>
      BY <2>2 DEF Aborts
    <3>2. chunks = Allocated(o.alloc, o.numElements, ko.buffers)
      BY <2>2 DEF chunks
    <3>3. DOMAIN chunks = 1 .. Len(ko.buffers)
      BY <3>2 DEF Allocated
    <3>4. DOMAIN e.chunks = {}
      BY <1>4, <3>1, <3>3
    <3> QED BY <3>4 DEF Enough
  <2>3. CASE ko.target = "gpu" /\ o.alloc.isInit
    <3> SUFFICES ASSUME e.batch * requiredTmpMem(e.buffers) <= bytesPerReal * (MaxInt + 1),
                        e.memory = TMP_SIZE => e.batch * requiredTmpMem(e.buffers) <= TMP_SIZE
                 PROVE  \A k \in DOMAIN e.chunks :
                          /\ Chunk(e, k) \subseteq 0 .. e.memory \div bytesPerReal - 1
                          /\ \A l \in DOMAIN e.chunks : l = k \/ Chunk(e, k) \cap Chunk(e, l) = {}
      BY DEF Enough
    <3>1. e.batch = o.numElements /\ e.chunks = Allocated(o.alloc, e.batch, e.buffers)
      BY <1>4, <2>3 DEF batch, chunks
    <3>2. e.memory \in {o.numElements * o.TmpMaxMem, TMP_SIZE} /\ o.alloc.byteCount = 0
      BY <1>4, <2>3 DEF ObjectOk, HasMemory, memory
    <3>3. o.numElements * requiredTmpMem(ko.buffers) <= o.numElements * o.TmpMaxMem
      BY <1>6, TimesMonotone
    <3>4. e.batch * requiredTmpMem(e.buffers) <= e.memory
      <4>1. CASE e.memory = TMP_SIZE
        BY <4>1
      <4>2. CASE e.memory = o.numElements * o.TmpMaxMem
        BY <1>4, <3>1, <3>3, <4>2
      <4> QED BY <3>2, <4>1, <4>2
    <3>5. e.memory \in Nat
      <4>1. o.numElements * o.TmpMaxMem \in Nat
        BY <1>6, TimesMonotone
      <4> QED BY <3>2, <4>1 DEF TMP_SIZE
    <3>6. e.buffers \in Seq(Nat) /\ e.batch \in Nat
      BY <1>4, <1>6, <3>1
    <3> QED BY <3>1, <3>2, <3>4, <3>5, <3>6, ChunksOk
  <2> QED BY <2>1, <2>2, <2>3
<1> QED BY <1>5, <1>7 DEF LastOk, e

ObjectInv ==
  /\ \A out \in output : OutMembers(out)
  /\ \A o \in object : ObjectOk(o)
  /\ \A e \in last : LastOk(e)

LEMMA DeclareOk ==
  ASSUME ObjectInv, Declare
  PROVE  ObjectInv'
<1>1. PICK out \in output : \E c \in out.classes :
        object' = {[outlines |-> c.class.outlines, TmpMaxMem |-> c.class.TmpMaxMem,
                    containers |-> out.containers, scalars |-> out.scalars,
                    namesakes |-> Namesakes(AllTensors(out)) # {},
                    args |-> Empty, given |-> Empty,
                    numElements |-> 0, stream |-> FALSE, alloc |-> NewAllocator]}
  BY DEF Declare
<1> DEFINE namesakes == Namesakes(AllTensors(out)) # {}
           no == FALSE
           alloc == NewAllocator
           O(c) == [outlines |-> c.class.outlines, TmpMaxMem |-> c.class.TmpMaxMem,
                    containers |-> out.containers, scalars |-> out.scalars,
                    namesakes |-> namesakes,
                    args |-> Empty, given |-> Empty,
                    numElements |-> 0, stream |-> no, alloc |-> alloc]
<1>2. PICK c \in out.classes : object' = {O(c)}
  BY <1>1
<1> DEFINE o == O(c)
<1>3. /\ Fits(c.class.outlines, c.class.TmpMaxMem)
      /\ ~ namesakes => Apart(out, Arguments(c.class.outlines))
  BY DEF ObjectInv, OutMembers
<1>4. alloc.byteCount = 0 /\ ~ alloc.isInit
  BY DEF NewAllocator
<1> HIDE DEF namesakes, no, alloc
<1>5. /\ DOMAIN o = Fields
      /\ o.args = Empty /\ o.given = Empty
      /\ o.outlines = c.class.outlines /\ o.TmpMaxMem = c.class.TmpMaxMem
      /\ o.containers = out.containers /\ o.scalars = out.scalars
      /\ o.namesakes = namesakes
      /\ o.numElements = 0 /\ o.alloc = alloc
  BY DEF Fields
<1>6. object' = {o}
  BY <1>2
<1> HIDE DEF o, O
<1>7. \A A : Apart(out, A) => Apart(o, A)
  BY <1>5, SameMembers
<1>8. \A y : Get(Empty, y, 0) = 0
  BY DEF Get, Empty
<1>9. Holds(o)
  BY <1>3, <1>5, <1>7, <1>8 DEF Holds
<1>10. HasMemory(o)
  BY <1>3, <1>4, <1>5 DEF HasMemory
<1>11. ObjectOk(o)
  BY <1>5, <1>9, <1>10 DEF ObjectOk
<1>12. output' = {} /\ last' = {}
  BY DEF Declare
<1> QED BY <1>6, <1>11, <1>12 DEF ObjectInv

LEMMA UserStepOk ==
  ASSUME ObjectInv, NEW o \in object, NEW ko \in UNION Range(o.outlines), UserStep(o, ko),
         output' = output
  PROVE  ObjectInv'
<1>1. ObjectOk(o) /\ ko \in Outlines(o.outlines)
  BY DEF ObjectInv, Outlines
<1>2. \A out \in output' : OutMembers(out)
  BY DEF ObjectInv
<1>3. ASSUME NEW v \in Values, SetArguments(o, ko, v) PROVE ObjectInv'
  <2>1. ObjectOk(WithArguments(o, ko, v))
    BY <1>1, WithArgumentsOk
  <2> QED BY <1>2, <1>3, <2>1 DEF SetArguments, ObjectInv
<1>4. ASSUME NEW k \in Batches, Prepare(o, ko, k) PROVE ObjectInv'
  <2> DEFINE mem == k * o.TmpMaxMem
             p == [o EXCEPT !.numElements = k, !.stream = TRUE, !.alloc = initialize(mem)]
  <2>1. k \in Nat
    BY ObjectAssumption
  <2>2. mem \in {k * o.TmpMaxMem, TMP_SIZE}
    OBVIOUS
  <2>3. object' = {p} /\ last' = {}
    BY <1>4 DEF Prepare
  <2> HIDE DEF mem
  <2>4. ObjectOk(p)
    BY <1>1, <2>1, <2>2, PrepareOk
  <2> HIDE DEF p
  <2> QED BY <1>2, <2>3, <2>4 DEF ObjectInv
<1>5. CASE Run(o, ko)
  <2>1. CASE Aborts(o, ko)
    BY <1>2, <1>5, <2>1 DEF Run, ObjectInv
  <2>2. CASE ~ Aborts(o, ko)
    <3>1. ObjectOk(Executed(o, ko)) /\ LastOk(Execution(o, ko))
      BY <1>1, <2>2, ExecutedOk, ExecutionOk
    <3> QED BY <1>2, <1>5, <2>2, <3>1 DEF Run, ObjectInv
  <2> QED BY <2>1, <2>2
<1>6. CASE UnitTest(o, ko)
  <2> DEFINE v == Min(Values)
             q == WithArguments(o, ko, v)
             mem == TMP_SIZE
             test == [q EXCEPT !.numElements = 1, !.stream = TRUE, !.alloc = initialize(mem)]
  <2>1. ObjectOk(q)
    <3> HIDE DEF v
    <3> QED BY <1>1, WithArgumentsOk
  <2>2. object' = {} /\ last' = IF Aborts(test, ko) THEN {} ELSE {Execution(test, ko)}
    BY <1>6 DEF UnitTest
  <2>3. q.outlines = o.outlines
    BY DEF WithArguments, ObjectOk, Fields
  <2>4. mem \in {1 * q.TmpMaxMem, TMP_SIZE} /\ 1 \in Nat
    OBVIOUS
  <2> HIDE DEF q, mem
  <2>5. ObjectOk(test)
    BY <2>1, <2>4, PrepareOk
  <2>6. test.outlines = q.outlines
    BY <2>1 DEF ObjectOk, Fields
  <2> HIDE DEF test
  <2>7. ~ Aborts(test, ko) => LastOk(Execution(test, ko))
    BY <1>1, <2>3, <2>5, <2>6, ExecutionOk
  <2> QED BY <1>2, <2>2, <2>7 DEF ObjectInv
<1> QED BY <1>3, <1>4, <1>5, <1>6 DEF UserStep

LEMMA ObjectStep ==
  ASSUME SInv, ObjectInv, [ONext]_ovars
  PROVE  ObjectInv'
<1>1. CASE generate /\ UNCHANGED <<object, last>>
  <2>1. PICK tensors \in Entered(EveryTensor) :
           IF GenerateRaises(AllRequests, tensors, AllScalars)
           THEN UNCHANGED output
           ELSE output' = {[classes |-> KernelClasses \cup FamilyClasses,
                            containers |-> Containers(tensors), scalars |-> Containers(AllScalars)]}
    BY <1>1 DEF generate, EveryTensor, AllRequests, AllScalars
  <2>2. \A out \in output' : OutMembers(out)
    BY <2>1, GeneratedMembers DEF ObjectInv
  <2> QED BY <1>1, <2>2 DEF ObjectInv
<1>2. CASE Declare
  BY <1>2, DeclareOk
<1>3. CASE output' \subseteq output /\ UNCHANGED <<object, last>>
  BY <1>3 DEF ObjectInv
<1>4. ASSUME KNext, ~ generate PROVE output' \subseteq output
  BY <1>4 DEF KNext, addKernel, add, addFamily, AddMember, AstGeneratorRaises, NewGenerator, result
<1>5. ASSUME NEW o \in object, NEW ko \in UNION Range(o.outlines), UserStep(o, ko), UNCHANGED kvars
      PROVE  ObjectInv'
  BY <1>5, UserStepOk DEF kvars, result
<1>6. CASE UNCHANGED ovars
  BY <1>6, <1>3 DEF ovars, kvars, result
<1> QED BY <1>1, <1>2, <1>3, <1>4, <1>5, <1>6 DEF ONext

LEMMA ObjectInvariant == OSpec => []ObjectInv
<1>1. OInit => ObjectInv
  BY DEF OInit, KInit, ObjectInv
<1>2. ObjectInv /\ SInv /\ [ONext]_ovars => ObjectInv'
  BY ObjectStep
<1>3. OSpec => [](SInv /\ EInv)
  BY SessionInvariant
<1> QED BY <1>1, <1>2, <1>3, PTL DEF OSpec

\* The memory that the class asks for is enough for every member and every
\* batch, and the buffers of an execution do not overlap in it, up to what an
\* int counts.
THEOREM MemorySuffices == OSpec => []TmpMemSuffices
<1>1. ObjectInv => TmpMemSuffices
  BY DEF ObjectInv, LastOk, Enough, Chunk, TmpMemSuffices
<1> QED BY <1>1, ObjectInvariant, PTL

\* In every order of setting arguments and executing members, an execution sees
\* what was last set for each of its own arguments.
THEOREM ArgumentsAreOwn == OSpec => []SeesOwnArguments
<1>1. ObjectInv => SeesOwnArguments
  BY DEF ObjectInv, LastOk, Sees, SeesOwnArguments
<1> QED BY <1>1, ObjectInvariant, PTL
=============================================================================
