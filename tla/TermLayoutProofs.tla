-------------------------- MODULE TermLayoutProofs --------------------------
(***************************************************************************)
(* Proofs about the layout of a term (TermLayout, MemoryLayout), for       *)
(* shapes of any size and dimension, every box, pattern, slice and         *)
(* permutation, and vectors of any length.                                 *)
(***************************************************************************)
EXTENDS TermLayout, Induction, FiniteSetsExt, SequenceTheorems, FunctionTheorems

-----------------------------------------------------------------------------
(* Sums and products over finite sets, as the folds of the model *)

\* A fold over a part of a set is part of the fold over the set.
LEMMA FoldsAgree ==
  ASSUME NEW S, IsFiniteSet(S), NEW T \in SUBSET S, NEW g, NEW h, \A x \in T : g[x] = h[x],
         NEW op, NEW base, NEW f, FoldedOver(f, S, g, op, base),
         NEW k, FoldedOver(k, T, h, op, base)
  PROVE  f[T] = k[T]
<1> DEFINE P == {s \in SUBSET T : f[s] = k[s]}
<1>1. IsFiniteSet(T)
  BY FS_Subset
<1>2. /\ f[{}] = base /\ k[{}] = base
      /\ \A s \in (SUBSET T) \ {{}} : f[s] = op[<<g[Chosen(s)], f[s \ {Chosen(s)}]>>]
      /\ \A s \in (SUBSET T) \ {{}} : k[s] = op[<<h[Chosen(s)], k[s \ {Chosen(s)}]>>]
  <2>1. \A s \in SUBSET T : s \in SUBSET S
    OBVIOUS
  <2>2. {} \in SUBSET S /\ {} \in SUBSET T
    OBVIOUS
  <2> QED BY <2>1, <2>2 DEF FoldedOver
<1>3. {} \in P
  BY <1>2
<1>4. ASSUME NEW s \in SUBSET T, s # {}, \A x \in s : s \ {x} \in P PROVE s \in P
  <2>1. Chosen(s) \in s /\ Chosen(s) \in T
    BY <1>4 DEF Chosen
  <2>2. f[s \ {Chosen(s)}] = k[s \ {Chosen(s)}]
    BY <1>4, <2>1
  <2> QED BY <1>2, <1>4, <2>1, <2>2
<1> HIDE DEF P
<1>5. SUBSET T \subseteq P
  BY <1>1, <1>3, <1>4, FiniteSetInduction
<1>6. T \in P
  BY <1>5
<1> QED BY <1>6 DEF P

Naturals(S, s) == \A x \in S : s[x] \in Nat

LEMMA TimesOver ==
  ASSUME NEW S, IsFiniteSet(S), NEW s, Naturals(S, s)
  PROVE  \E f : FoldedOver(f, S, [x \in S |-> s[x]], Product, 1) /\ Times(s, S) = f[S]
<1> DEFINE g == [x \in S |-> s[x]]
           Eqn(f) == f = [t \in SUBSET S |->
                            IF t = {} THEN 1
                            ELSE LET x == CHOOSE x \in t : TRUE
                                 IN  s[x] * f[t \ {x}]]
           iter == CHOOSE f : Eqn(f)
<1>1. Times(s, S) = iter[S]
  BY DEF Times, FoldFunctionOnSet, MapThenFoldSet
<1>2. g \in [S -> Nat]
  BY DEF Naturals
<1>3. \A t \in (SUBSET S) \ {{}} : g[Chosen(t)] = s[Chosen(t)]
  <2>1. \A t \in (SUBSET S) \ {{}} : Chosen(t) \in S
    BY DEF Chosen
  <2> QED BY <2>1
<1>4. ASSUME NEW f PROVE Multiplied(f, S, g) <=> Eqn(f)
  <2> DEFINE a(u) == IF u = {} THEN 1 ELSE g[Chosen(u)] * f[u \ {Chosen(u)}]
             b(u) == IF u = {} THEN 1 ELSE s[Chosen(u)] * f[u \ {Chosen(u)}]
  <2>1. \A u \in SUBSET S : a(u) = b(u)
    <3> HIDE DEF g
    <3> QED BY <1>3
  <2>2. Eqn(f) <=> f = [u \in SUBSET S |-> b(u)]
    BY DEF Chosen
  <2>3. Multiplied(f, S, g) <=> f = [u \in SUBSET S |-> a(u)]
    BY DEF Multiplied
  <2> HIDE DEF a, b, Eqn
  <2> QED BY <2>1, <2>2, <2>3
<1> HIDE DEF Eqn, iter, g
<1>5. \E f : Eqn(f)
  BY <1>2, <1>4, MultipliedExists
<1>6. Multiplied(iter, S, g)
  BY <1>4, <1>5 DEF iter
<1>7. FoldedOver(iter, S, g, Product, 1)
  BY <1>2, <1>6, MultipliedFolded
<1> QED BY <1>1, <1>7 DEF g

\* The factors of a product may be taken in any order.
LEMMA TimesStep ==
  ASSUME NEW S, IsFiniteSet(S), NEW s, Naturals(S, s)
  PROVE  /\ Times(s, {}) = 1
         /\ Times(s, S) \in Nat
         /\ \A x \in S : Times(s, S) = s[x] * Times(s, S \ {x})
<1> DEFINE g == [x \in S |-> s[x]]
<1>1. PICK f : FoldedOver(f, S, g, Product, 1) /\ Times(s, S) = f[S]
  BY TimesOver
<1>2. g \in [S -> Nat]
  BY DEF Naturals
<1> HIDE DEF g
<1>3. f \in [SUBSET S -> Nat] /\ AnyFirst(f, S, g, Product)
  BY <1>1, <1>2, ProductCommutative, FoldNat, FoldAny
<1>4. ASSUME NEW T \in SUBSET S PROVE Times(s, T) = f[T]
  <2> DEFINE h == [x \in T |-> s[x]]
  <2>1. IsFiniteSet(T) /\ Naturals(T, s)
    BY FS_Subset DEF Naturals
  <2>2. PICK k : FoldedOver(k, T, h, Product, 1) /\ Times(s, T) = k[T]
    BY <2>1, TimesOver
  <2>3. \A x \in T : g[x] = h[x]
    BY DEF g
  <2> HIDE DEF h
  <2> QED BY <1>1, <2>2, <2>3, FoldsAgree
<1>5. Times(s, {}) = 1
  <2>1. {} \in SUBSET S
    OBVIOUS
  <2>2. f[{}] = 1
    BY <1>1, <2>1 DEF FoldedOver
  <2> QED BY <1>4, <2>1, <2>2
<1>6. ASSUME NEW x \in S PROVE Times(s, S) = s[x] * Times(s, S \ {x})
  <2>1. S \in SUBSET S /\ S \ {x} \in SUBSET S
    OBVIOUS
  <2>2. f[S] = Product[<<g[x], f[S \ {x}]>>]
    BY <1>3, <2>1 DEF AnyFirst
  <2>3. g[x] \in Nat /\ f[S \ {x}] \in Nat /\ g[x] = s[x]
    BY <1>2, <1>3, <2>1 DEF g
  <2>4. f[S] = g[x] * f[S \ {x}]
    BY <2>2, <2>3 DEF Product
  <2> QED BY <1>4, <2>1, <2>3, <2>4
<1> QED BY <1>1, <1>3, <1>5, <1>6

LEMMA SumOver ==
  ASSUME NEW S, IsFiniteSet(S), NEW s, DOMAIN s = S, Naturals(S, s)
  PROVE  \E f : FoldedOver(f, S, [x \in S |-> s[x]], Sum, 0) /\ SumFunction(s) = f[S]
<1> DEFINE g == [x \in S |-> s[x]]
           Eqn(f) == f = [t \in SUBSET S |->
                            IF t = {} THEN 0
                            ELSE LET x == CHOOSE x \in t : TRUE
                                 IN  s[x] + f[t \ {x}]]
           iter == CHOOSE f : Eqn(f)
<1>1. SumFunction(s) = iter[S]
  BY DEF SumFunction, SumFunctionOnSet, FoldFunctionOnSet, MapThenFoldSet
<1>2. g \in [S -> Nat]
  BY DEF Naturals
<1>3. \A t \in (SUBSET S) \ {{}} : g[Chosen(t)] = s[Chosen(t)]
  <2>1. \A t \in (SUBSET S) \ {{}} : Chosen(t) \in S
    BY DEF Chosen
  <2> QED BY <2>1
<1>4. ASSUME NEW f PROVE Summed(f, S, g) <=> Eqn(f)
  <2> DEFINE a(u) == IF u = {} THEN 0 ELSE g[Chosen(u)] + f[u \ {Chosen(u)}]
             b(u) == IF u = {} THEN 0 ELSE s[Chosen(u)] + f[u \ {Chosen(u)}]
  <2>1. \A u \in SUBSET S : a(u) = b(u)
    <3> HIDE DEF g
    <3> QED BY <1>3
  <2>2. Eqn(f) <=> f = [u \in SUBSET S |-> b(u)]
    BY DEF Chosen
  <2>3. Summed(f, S, g) <=> f = [u \in SUBSET S |-> a(u)]
    BY DEF Summed
  <2> HIDE DEF a, b, Eqn
  <2> QED BY <2>1, <2>2, <2>3
<1> HIDE DEF Eqn, iter, g
<1>5. \E f : Eqn(f)
  BY <1>2, <1>4, SummedExists
<1>6. Summed(iter, S, g)
  BY <1>4, <1>5 DEF iter
<1>7. FoldedOver(iter, S, g, Sum, 0)
  BY <1>2, <1>6, SummedFolded
<1> QED BY <1>1, <1>7 DEF g

\* The function on a part of its domain.
Part(s, T) == [x \in T |-> s[x]]

\* The addends of a sum may be taken in any order.
LEMMA SumStep ==
  ASSUME NEW S, IsFiniteSet(S), NEW s, DOMAIN s = S, Naturals(S, s)
  PROVE  /\ SumFunction(s) \in Nat
         /\ S = {} => SumFunction(s) = 0
         /\ \A x \in S : SumFunction(s) = s[x] + SumFunction(Part(s, S \ {x}))
<1> DEFINE g == [x \in S |-> s[x]]
<1>1. PICK f : FoldedOver(f, S, g, Sum, 0) /\ SumFunction(s) = f[S]
  BY SumOver
<1>2. g \in [S -> Nat]
  BY DEF Naturals
<1> HIDE DEF g
<1>3. f \in [SUBSET S -> Nat] /\ AnyFirst(f, S, g, Sum)
  BY <1>1, <1>2, SumCommutative, FoldNat, FoldAny
<1>4. ASSUME NEW T \in SUBSET S PROVE SumFunction(Part(s, T)) = f[T]
  <2> DEFINE r == Part(s, T)
             h == [x \in T |-> r[x]]
  <2>1. IsFiniteSet(T) /\ DOMAIN r = T /\ Naturals(T, r) /\ \A x \in T : r[x] = s[x]
    BY FS_Subset DEF Naturals, Part
  <2> HIDE DEF r
  <2>2. PICK k : FoldedOver(k, T, h, Sum, 0) /\ SumFunction(r) = k[T]
    BY <2>1, SumOver
  <2>3. \A x \in T : g[x] = h[x]
    BY <2>1 DEF g
  <2> HIDE DEF h
  <2>4. f[T] = k[T]
    BY <1>1, <2>2, <2>3, FoldsAgree
  <2> QED BY <2>2, <2>4 DEF r
<1>5. ASSUME S = {} PROVE SumFunction(s) = 0
  BY <1>1, <1>5 DEF FoldedOver
<1>6. ASSUME NEW x \in S PROVE SumFunction(s) = s[x] + SumFunction(Part(s, S \ {x}))
  <2>1. S \in SUBSET S /\ S \ {x} \in SUBSET S
    OBVIOUS
  <2>2. f[S] = Sum[<<g[x], f[S \ {x}]>>]
    BY <1>3, <2>1 DEF AnyFirst
  <2>3. g[x] \in Nat /\ f[S \ {x}] \in Nat /\ g[x] = s[x]
    BY <1>2, <1>3, <2>1 DEF g
  <2>4. f[S] = g[x] + f[S \ {x}]
    BY <2>2, <2>3 DEF Sum
  <2> QED BY <1>1, <1>4, <2>1, <2>3, <2>4
<1> QED BY <1>1, <1>3, <1>5, <1>6

LEMMA PartStep ==
  ASSUME NEW S, IsFiniteSet(S), NEW s, Naturals(S, s), NEW T \in SUBSET S
  PROVE  /\ SumFunction(Part(s, T)) \in Nat
         /\ T = {} => SumFunction(Part(s, T)) = 0
         /\ \A x \in T : SumFunction(Part(s, T)) = s[x] + SumFunction(Part(s, T \ {x}))
<1> DEFINE r == Part(s, T)
<1>1. IsFiniteSet(T) /\ DOMAIN r = T /\ Naturals(T, r) /\ \A x \in T : r[x] = s[x]
  BY FS_Subset DEF Naturals, Part
<1>2. \A x \in T : Part(r, T \ {x}) = Part(s, T \ {x})
  BY DEF Part
<1> HIDE DEF r
<1>3. /\ SumFunction(r) \in Nat
      /\ T = {} => SumFunction(r) = 0
      /\ \A x \in T : SumFunction(r) = s[x] + SumFunction(Part(s, T \ {x}))
  BY <1>1, <1>2, SumStep
<1> QED BY <1>3 DEF r

LEMMA SumAdds ==
  ASSUME NEW S, IsFiniteSet(S), NEW s, NEW t, NEW u, Naturals(S, s), Naturals(S, t),
         \A x \in S : u[x] = s[x] + t[x]
  PROVE  SumFunction(Part(u, S)) = SumFunction(Part(s, S)) + SumFunction(Part(t, S))
<1> DEFINE P == {T \in SUBSET S : SumFunction(Part(u, T)) = SumFunction(Part(s, T)) + SumFunction(Part(t, T))}
<1>1. Naturals(S, u)
  BY DEF Naturals
<1>2. {} \in P
  <2>1. {} \in SUBSET S
    OBVIOUS
  <2>2. /\ SumFunction(Part(u, {})) = 0
        /\ SumFunction(Part(s, {})) = 0
        /\ SumFunction(Part(t, {})) = 0
    BY <1>1, <2>1, PartStep
  <2> QED BY <2>1, <2>2
<1>3. ASSUME NEW T \in SUBSET S, T # {}, \A x \in T : T \ {x} \in P PROVE T \in P
  <2>1. PICK x \in T : TRUE
    BY <1>3
  <2> DEFINE R == T \ {x}
  <2>2. R \in SUBSET S /\ R \in P
    BY <1>3, <2>1
  <2>3. /\ SumFunction(Part(u, T)) = u[x] + SumFunction(Part(u, R))
        /\ SumFunction(Part(s, T)) = s[x] + SumFunction(Part(s, R))
        /\ SumFunction(Part(t, T)) = t[x] + SumFunction(Part(t, R))
    BY <1>1, <2>1, PartStep
  <2>4. /\ SumFunction(Part(s, R)) \in Nat
        /\ SumFunction(Part(t, R)) \in Nat
    BY <2>2, PartStep
  <2>5. SumFunction(Part(u, R)) = SumFunction(Part(s, R)) + SumFunction(Part(t, R))
    BY <2>2
  <2>6. s[x] \in Nat /\ t[x] \in Nat /\ u[x] = s[x] + t[x]
    BY <2>1 DEF Naturals
  <2> HIDE DEF R
  <2> QED BY <2>3, <2>4, <2>5, <2>6
<1> HIDE DEF P
<1>4. S \in P
  BY <1>2, <1>3, FiniteSetInduction
<1> QED BY <1>4 DEF P

LEMMA SumScaled ==
  ASSUME NEW S, IsFiniteSet(S), NEW s, NEW u, Naturals(S, s), NEW c \in Nat,
         \A x \in S : u[x] = c * s[x]
  PROVE  SumFunction(Part(u, S)) = c * SumFunction(Part(s, S))
<1> DEFINE P == {T \in SUBSET S : SumFunction(Part(u, T)) = c * SumFunction(Part(s, T))}
<1>1. Naturals(S, u)
  BY DEF Naturals
<1>2. {} \in P
  <2>1. {} \in SUBSET S
    OBVIOUS
  <2>2. SumFunction(Part(u, {})) = 0 /\ SumFunction(Part(s, {})) = 0
    BY <1>1, <2>1, PartStep
  <2> QED BY <2>1, <2>2
<1>3. ASSUME NEW T \in SUBSET S, T # {}, \A x \in T : T \ {x} \in P PROVE T \in P
  <2>1. PICK x \in T : TRUE
    BY <1>3
  <2> DEFINE R == T \ {x}
             a == SumFunction(Part(s, R))
             b == s[x]
  <2>2. R \in SUBSET S /\ R \in P
    BY <1>3, <2>1
  <2>3. /\ SumFunction(Part(u, T)) = u[x] + SumFunction(Part(u, R))
        /\ SumFunction(Part(s, T)) = b + a
    BY <1>1, <2>1, PartStep
  <2>4. a \in Nat
    BY <2>2, PartStep
  <2>5. SumFunction(Part(u, R)) = c * a
    BY <2>2
  <2>6. b \in Nat /\ u[x] = c * b
    BY <2>1 DEF Naturals
  <2> HIDE DEF R, a, b
  <2>7. c * (b + a) = c * b + c * a
    BY <2>4, <2>6
  <2> QED BY <2>3, <2>5, <2>6, <2>7
<1> HIDE DEF P
<1>4. S \in P
  BY <1>2, <1>3, FiniteSetInduction
<1> QED BY <1>4 DEF P

LEMMA SumSplits ==
  ASSUME NEW S, IsFiniteSet(S), NEW s, Naturals(S, s), NEW Q \in SUBSET S
  PROVE  SumFunction(Part(s, S)) = SumFunction(Part(s, Q)) + SumFunction(Part(s, S \ Q))
<1> DEFINE P == {T \in SUBSET Q : SumFunction(Part(s, S)) = SumFunction(Part(s, T)) + SumFunction(Part(s, S \ T))}
<1>1. IsFiniteSet(Q)
  BY FS_Subset
<1>2. {} \in P
  <2>1. {} \in SUBSET S /\ S \ {} = S /\ S \in SUBSET S
    OBVIOUS
  <2>2. SumFunction(Part(s, {})) = 0 /\ SumFunction(Part(s, S)) \in Nat
    BY <2>1, PartStep
  <2> QED BY <2>1, <2>2
<1>3. ASSUME NEW T \in SUBSET Q, T # {}, \A x \in T : T \ {x} \in P PROVE T \in P
  <2>1. PICK x \in T : TRUE
    BY <1>3
  <2> DEFINE R == T \ {x}
             V == S \ R
  <2>2. R \in SUBSET S /\ R \in P /\ T \in SUBSET S /\ V \in SUBSET S /\ x \in V /\ V \ {x} = S \ T
        /\ S \ T \in SUBSET S
    BY <1>3, <2>1
  <2>3. SumFunction(Part(s, T)) = s[x] + SumFunction(Part(s, R))
    BY <2>1, <2>2, PartStep
  <2>4. SumFunction(Part(s, V)) = s[x] + SumFunction(Part(s, S \ T))
    BY <2>2, PartStep
  <2>5. SumFunction(Part(s, S)) = SumFunction(Part(s, R)) + SumFunction(Part(s, V))
    BY <2>2
  <2>6. s[x] \in Nat /\ SumFunction(Part(s, R)) \in Nat /\ SumFunction(Part(s, S \ T)) \in Nat
    BY <2>2, PartStep DEF Naturals
  <2> HIDE DEF R, V
  <2> QED BY <2>3, <2>4, <2>5, <2>6
<1> HIDE DEF P
<1>4. Q \in P
  BY <1>1, <1>2, <1>3, FiniteSetInduction
<1> QED BY <1>4 DEF P

-----------------------------------------------------------------------------
(* Numbers with digits of different sizes *)

Positions(S) == IsFiniteSet(S) /\ S \subseteq Int

LEMMA NumberNat ==
  ASSUME NEW S, Positions(S), NEW s, Naturals(S, s), NEW e, Naturals(S, e)
  PROVE  /\ \A p \in S : Scale(s, S, p) \in Nat
         /\ Naturals(S, [p \in S |-> Scale(s, S, p) * e[p]])
         /\ Number(s, S, e) \in Nat
         /\ S = {} => Number(s, S, e) = 0
<1> DEFINE g == [p \in S |-> Scale(s, S, p) * e[p]]
<1>1. ASSUME NEW p \in S PROVE Scale(s, S, p) \in Nat
  <2> DEFINE T == {q \in S : q < p}
  <2>1. T \in SUBSET S /\ IsFiniteSet(T) /\ Naturals(T, s)
    BY FS_Subset DEF Naturals, Positions
  <2> HIDE DEF T
  <2>2. Times(s, T) \in Nat
    BY <2>1, TimesStep
  <2> QED BY <2>2 DEF T, Scale
<1>2. Naturals(S, g) /\ DOMAIN g = S
  <2> SUFFICES ASSUME NEW p \in S PROVE Scale(s, S, p) * e[p] \in Nat
    BY DEF Naturals
  <2>1. Scale(s, S, p) \in Nat /\ e[p] \in Nat
    BY <1>1 DEF Naturals
  <2> QED BY <2>1
<1>3. Number(s, S, e) = SumFunction(g)
  BY DEF Number
<1> HIDE DEF g
<1>4. SumFunction(g) \in Nat /\ (S = {} => SumFunction(g) = 0)
  BY <1>2, SumStep DEF Positions
<1> QED BY <1>1, <1>2, <1>3, <1>4 DEF g

Greatest(m, S) == m \in S /\ \A p \in S : m >= p

\* The greatest position carries the highest digit.
LEMMA NumberTop ==
  ASSUME NEW S, Positions(S), NEW s, Naturals(S, s), NEW e, Naturals(S, e),
         NEW m, Greatest(m, S)
  PROVE  /\ Scale(s, S, m) = Times(s, S \ {m})
         /\ Number(s, S, e) = Times(s, S \ {m}) * e[m] + Number(s, S \ {m}, e)
<1> DEFINE g == [p \in S |-> Scale(s, S, p) * e[p]]
<1>1. Naturals(S, g) /\ DOMAIN g = S
  BY NumberNat
<1>2. {q \in S : q < m} = S \ {m}
  <2>1. \A q \in S : q < m <=> q # m
    BY DEF Greatest, Positions
  <2> QED BY <2>1
<1>3. Scale(s, S, m) = Times(s, S \ {m})
  BY <1>2 DEF Scale
<1>4. Part(g, S \ {m}) = [p \in S \ {m} |-> Scale(s, S \ {m}, p) * e[p]]
  <2>1. ASSUME NEW p \in S \ {m} PROVE Scale(s, S, p) = Scale(s, S \ {m}, p)
    <3>1. \A q \in S : q < p => q # m
      BY <2>1 DEF Greatest, Positions
    <3>2. {q \in S : q < p} = {q \in S \ {m} : q < p}
      BY <3>1
    <3> QED BY <3>2 DEF Scale
  <2> QED BY <2>1 DEF Part
<1>5. SumFunction(Part(g, S \ {m})) = Number(s, S \ {m}, e) /\ Number(s, S, e) = SumFunction(g)
  BY <1>4 DEF Number
<1>6. g[m] = Times(s, S \ {m}) * e[m]
  BY <1>3 DEF Greatest
<1> HIDE DEF g
<1>7. SumFunction(g) = g[m] + SumFunction(Part(g, S \ {m}))
  BY <1>1, SumStep DEF Greatest, Positions
<1> QED BY <1>3, <1>5, <1>6, <1>7

\* Every digit is below its size.
DigitsOf(S, s, e) == \A p \in S : e[p] \in Nat /\ e[p] < s[p]

LEMMA NumberBelow ==
  ASSUME NEW S, Positions(S), NEW s, Naturals(S, s), NEW e, DigitsOf(S, s, e)
  PROVE  Number(s, S, e) < Times(s, S)
<1> DEFINE P == {T \in SUBSET S : Number(s, T, e) < Times(s, T)}
<1>1. ASSUME NEW T \in SUBSET S
      PROVE  Positions(T) /\ Naturals(T, s) /\ Naturals(T, e)
  BY FS_Subset DEF Naturals, DigitsOf, Positions
<1>2. {} \in P
  <2>1. {} \in SUBSET S
    OBVIOUS
  <2>2. Number(s, {}, e) = 0 /\ Times(s, {}) = 1
    BY <1>1, <2>1, NumberNat, TimesStep DEF Positions
  <2> QED BY <2>1, <2>2
<1>3. ASSUME NEW T \in SUBSET S, T # {}, \A x \in T : T \ {x} \in P PROVE T \in P
  <2>1. PICK m \in T : Greatest(m, T)
    BY <1>1, <1>3, GreatestNumber DEF Greatest, Positions
  <2> DEFINE R == T \ {m}
             w == Times(s, R)
             a == Number(s, R, e)
             x == e[m]
             z == s[m]
  <2>2. R \in SUBSET S /\ R \in P
    BY <1>3, <2>1
  <2>3. w \in Nat /\ a \in Nat /\ a < w
    BY <1>1, <2>2, TimesStep, NumberNat DEF Positions
  <2>4. Number(s, T, e) = w * x + a /\ Times(s, T) = z * w
    <3>1. Positions(T) /\ Naturals(T, s) /\ Naturals(T, e)
      BY <1>1
    <3>2. Number(s, T, e) = w * x + a
      BY <2>1, <3>1, NumberTop
    <3>3. Times(s, T) = z * w
      BY <2>1, <3>1, TimesStep DEF Positions
    <3> QED BY <3>2, <3>3
  <2>5. x \in Nat /\ z \in Nat /\ x < z
    BY <2>1 DEF DigitsOf, Naturals
  <2> HIDE DEF R, w, a, x, z
  <2>6. w * (x + 1) <= w * z
    <3>1. x + 1 \in Nat /\ x + 1 <= z
      BY <2>5
    <3> QED BY <2>3, <2>5, <3>1, TimesMonotone
  <2>7. w * (x + 1) = w * x + w /\ w * z = z * w /\ w * x \in Nat /\ z * w \in Nat
    BY <2>3, <2>5
  <2> QED BY <2>3, <2>4, <2>6, <2>7
<1> HIDE DEF P
<1>4. S \in P
  BY <1>2, <1>3, FiniteSetInduction DEF Positions
<1> QED BY <1>4 DEF P

LEMMA NumberUnique ==
  ASSUME NEW S, Positions(S), NEW s, Naturals(S, s),
         NEW e, DigitsOf(S, s, e), NEW f, DigitsOf(S, s, f),
         Number(s, S, e) = Number(s, S, f)
  PROVE  \A p \in S : e[p] = f[p]
<1> DEFINE P == {T \in SUBSET S : Number(s, T, e) = Number(s, T, f) => \A p \in T : e[p] = f[p]}
<1>1. ASSUME NEW T \in SUBSET S
      PROVE  /\ Positions(T) /\ Naturals(T, s) /\ Naturals(T, e) /\ Naturals(T, f)
             /\ DigitsOf(T, s, e) /\ DigitsOf(T, s, f)
  BY FS_Subset DEF Naturals, DigitsOf, Positions
<1>2. {} \in P
  OBVIOUS
<1>3. ASSUME NEW T \in SUBSET S, T # {}, \A x \in T : T \ {x} \in P PROVE T \in P
  <2> SUFFICES ASSUME Number(s, T, e) = Number(s, T, f) PROVE \A p \in T : e[p] = f[p]
    OBVIOUS
  <2>1. PICK m \in T : Greatest(m, T)
    BY <1>1, <1>3, GreatestNumber DEF Greatest, Positions
  <2> DEFINE R == T \ {m}
             w == Times(s, R)
             a == Number(s, R, e)
             b == Number(s, R, f)
             x == e[m]
             y == f[m]
  <2>2. R \in SUBSET S /\ R \in P
    BY <1>3, <2>1
  <2>3. w \in Nat /\ a \in Nat /\ b \in Nat
    BY <1>1, <2>2, TimesStep, NumberNat DEF Positions
  <2>4. a < w /\ b < w
    BY <1>1, <2>2, NumberBelow
  <2>5. Number(s, T, e) = w * x + a /\ Number(s, T, f) = w * y + b
    <3>1. Positions(T) /\ Naturals(T, s) /\ Naturals(T, e) /\ Naturals(T, f)
      BY <1>1
    <3> QED BY <2>1, <3>1, NumberTop
  <2>6. x \in Nat /\ y \in Nat
    BY <2>1 DEF DigitsOf
  <2>7. a = b => \A p \in R : e[p] = f[p]
    BY <2>2
  <2>8. \A p \in T : p = m \/ p \in R
    OBVIOUS
  <2>9. w * x + a = w * y + b
    BY <2>5
  <2> HIDE DEF R, w, a, b
  <2>10. a = b /\ x = y
    <3> HIDE DEF x, y
    <3>1. w * x = x * w /\ w * y = y * w /\ x * w \in Nat /\ y * w \in Nat
      BY <2>3, <2>6
    <3>2. w * x + a = w * y + b
      BY <2>9
    <3>3. a + x * w = b + y * w
      BY <2>3, <3>1, <3>2
    <3> QED BY <2>3, <2>4, <2>6, <3>3, DigitUnique
  <2> QED BY <2>7, <2>8, <2>10
<1> HIDE DEF P
<1>4. S \in P
  BY <1>2, <1>3, FiniteSetInduction DEF Positions
<1> QED BY <1>4 DEF P

-----------------------------------------------------------------------------
(* Folds from the left *)

LEMMA MaxOk ==
  ASSUME NEW S, IsFiniteSet(S), S \subseteq Int, S # {}
  PROVE  Max(S) \in S /\ \A x \in S : x <= Max(S)
<1>1. PICK m \in S : \A y \in S : m >= y
  BY GreatestNumber
<1>2. Max(S) \in S /\ \A y \in S : Max(S) >= y
  BY <1>1 DEF Max
<1> QED BY <1>2

Turn(f, t, base, step) == IF t = {} THEN base ELSE step[<<Max(t), f[t \ {Max(t)}]>>]

\* What FoldLeft computes on the way, which takes the last element last.
LeftFold(f, n, base, step) == f = [t \in SUBSET (1 .. n) |-> Turn(f, t, base, step)]

LEMMA GreatestOf ==
  ASSUME NEW n \in Nat, NEW t \in (SUBSET (1 .. n)) \ {{}}
  PROVE  Max(t) \in t /\ \A x \in t : x <= Max(t)
<1>1. IsFiniteSet(t)
  <2>1. IsFiniteSet(1 .. n)
    BY FS_Interval
  <2> QED BY <2>1, FS_Subset
<1>2. t \subseteq Int /\ t # {}
  OBVIOUS
<1> QED BY <1>1, <1>2, MaxOk

LEMMA LeftFoldExists ==
  ASSUME NEW n \in Nat, NEW T, NEW base \in T, NEW step \in StepFunctions(n, T)
  PROVE  \E f \in [SUBSET (1 .. n) -> T] : LeftFold(f, n, base, step)
<1> DEFINE S == 1 .. n
           pick == [t \in (SUBSET S) \ {{}} |-> Max(t)]
<1>1. IsFiniteSet(S)
  BY FS_Interval
<1>2. pick \in Picks(S)
  <2>1. \A t \in (SUBSET S) \ {{}} : Max(t) \in t
    BY GreatestOf
  <2> QED BY <2>1 DEF Picks
<1>3. step \in SetSteps(S, T)
  BY DEF StepFunctions, SetSteps
<1>4. PICK f : SetSolves(f, S, T, base, step, pick)
  <2> HIDE DEF S, pick
  <2> QED BY <1>1, <1>2, <1>3, SetRecursionExists
<1>5. f \in [SUBSET S -> T] /\ f = [t \in SUBSET S |-> IF t = {} THEN base ELSE step[<<pick[t], f[t \ {pick[t]}]>>]]
  BY <1>4 DEF SetSolves
<1>6. \A t \in SUBSET S : t # {} => pick[t] = Max(t)
  OBVIOUS
<1> HIDE DEF pick
<1>7. f = [t \in SUBSET S |-> Turn(f, t, base, step)]
  BY <1>5, <1>6 DEF Turn
<1> QED BY <1>5, <1>7 DEF LeftFold

LEMMA LeftFoldSolves ==
  ASSUME NEW n \in Nat, NEW T, NEW base \in T, NEW step \in StepFunctions(n, T),
         NEW f, LeftFold(f, n, base, step)
  PROVE  \E h : Solves(h, n, T, base, step) /\ h[n] = f[1 .. n]
<1> DEFINE h == [k \in 0 .. n |-> f[1 .. k]]
<1>1. f[{}] = base
  <2>1. {} \in SUBSET (1 .. n)
    OBVIOUS
  <2> QED BY <2>1 DEF LeftFold, Turn
<1>2. ASSUME NEW k \in 1 .. n PROVE f[1 .. k] = step[<<k, f[1 .. k - 1]>>]
  <2>1. 1 .. k \in (SUBSET (1 .. n)) \ {{}} /\ k \in 1 .. k
    OBVIOUS
  <2>2. Max(1 .. k) = k
    <3>1. Max(1 .. k) \in 1 .. k /\ k <= Max(1 .. k)
      BY <2>1, GreatestOf
    <3> QED BY <3>1
  <2>3. (1 .. k) \ {k} = 1 .. k - 1
    OBVIOUS
  <2> QED BY <2>1, <2>2, <2>3 DEF LeftFold, Turn
<1>3. 1 .. 0 = {} /\ 0 \in 0 .. n /\ n \in 0 .. n
  OBVIOUS
<1>4. h[0] = base /\ h[n] = f[1 .. n]
  BY <1>1, <1>3
<1>5. \A k \in 1 .. n : h[k] = step[<<k, h[k - 1]>>]
  <2> SUFFICES ASSUME NEW k \in 1 .. n PROVE h[k] = step[<<k, h[k - 1]>>]
    OBVIOUS
  <2>1. k \in 0 .. n /\ k - 1 \in 0 .. n
    OBVIOUS
  <2> QED BY <1>2, <2>1
<1>6. DOMAIN h = 0 .. n /\ h = [k \in 0 .. n |-> h[k]]
  OBVIOUS
<1> HIDE DEF h
<1> DEFINE P == {k \in Nat : k <= n => h[k] \in T}
<1>7. 0 \in P
  BY <1>4
<1>8. ASSUME NEW k \in Nat, k \in P PROVE k + 1 \in P
  <2> SUFFICES ASSUME k + 1 <= n PROVE h[k + 1] \in T
    OBVIOUS
  <2>1. k + 1 \in 1 .. n /\ (k + 1) - 1 = k /\ h[k] \in T
    BY <1>8
  <2>2. h[k + 1] = step[<<k + 1, h[k]>>]
    BY <1>5, <2>1
  <2> QED BY <2>1, <2>2 DEF StepFunctions
<1> HIDE DEF P
<1>9. \A k \in 0 .. n : h[k] \in T
  <2>1. Nat \subseteq P
    BY <1>7, <1>8, NatSetInduction
  <2> QED BY <2>1 DEF P
<1>10. h \in [0 .. n -> T]
  BY <1>6, <1>9
<1> QED BY <1>4, <1>5, <1>10 DEF Solves

-----------------------------------------------------------------------------
(* The layouts that a term can have *)

IsRange(r) == r = Interval(r.start, r.stop) /\ r.start \in Nat /\ r.stop \in Nat /\ r.start < r.stop
IsBox(b, n) == b = [d \in 1 .. n |-> b[d]] /\ \A d \in 1 .. n : IsRange(b[d])

IsShape(s) == s \in Seq(Nat \ {0}) /\ s # <<>>

\* A base that DenseLayout made.
DenseBase(b) ==
  /\ b.csc = FALSE /\ IsShape(b.shape) /\ IsBox(b.bbox, Len(b.shape))
  /\ b.stride = Strides(b.bbox)
  /\ b.range0 = <<>> \/ \E r : IsRange(r) /\ b.range0 = <<r>> /\ b.bbox[1] = aligned(r)

\* A base that CSCLayout made.
IsPattern(spp, s) == spp \in (SUBSET ((0 .. s[1] - 1) \X (0 .. s[2] - 1))) \ {{}}
CscBase(b) ==
  \E s, spp : \E a \in BOOLEAN : IsShape(s) /\ Len(s) = 2 /\ IsPattern(spp, s) /\ b = CSCLayout(s, spp, a)

IsView(v, n) == v.index \in 1 .. n /\ v.start \in Nat /\ v.stop \in Nat /\ v.start < v.stop

LayoutOk(lay) ==
  /\ DenseBase(lay.base) \/ CscBase(lay.base)
  /\ lay = [base |-> lay.base, views |-> lay.views]
  /\ lay.views = [k \in 1 .. Len(lay.views) |-> lay.views[k]] /\ Len(lay.views) \in Nat
  /\ \A k \in 1 .. Len(lay.views) : IsView(lay.views[k], Len(lay.base.shape))

LEMMA AlignedNumbers ==
  ASSUME NEW k \in Nat
  PROVE  /\ alignedLower(k) \in Nat /\ alignedLower(k) <= k
         /\ alignedUpper(k) \in Nat /\ k <= alignedUpper(k)
<1> DEFINE A == AlignedReals
           q == k \div A
           r == k % A
<1>1. A \in Nat \ {0}
  BY AlignmentAssumption
<1>2. r \in 0 .. A - 1 /\ k = A * q + r /\ q \in Int
  BY <1>1
<1>3. q \in Nat
  BY <1>1
<1>4. A * q \in Nat
  BY <1>1, <1>3
<1>5. (A - r) % A \in Nat
  <2>1. A - r \in Nat
    BY <1>1, <1>2
  <2> QED BY <1>1, <2>1
<1> HIDE DEF q, r
<1> QED BY <1>1, <1>2, <1>4, <1>5 DEF alignedLower, alignedUpper, r

LEMMA AlignedRange ==
  ASSUME NEW r, IsRange(r)
  PROVE  IsRange(aligned(r)) /\ Within(r, aligned(r))
<1>1. /\ alignedLower(r.start) \in Nat /\ alignedLower(r.start) <= r.start
      /\ alignedUpper(r.stop) \in Nat /\ r.stop <= alignedUpper(r.stop)
  BY AlignedNumbers DEF IsRange
<1> HIDE DEF alignedLower, alignedUpper
<1> QED BY <1>1 DEF IsRange, aligned, Interval, Within

LEMMA ShapeLength ==
  ASSUME NEW s, IsShape(s)
  PROVE  Len(s) \in Nat \ {0} /\ DOMAIN s = 1 .. Len(s) /\ \A d \in 1 .. Len(s) : s[d] \in Nat \ {0}
BY DEF IsShape

LEMMA CscOk ==
  ASSUME NEW b, CscBase(b)
  PROVE  b.csc /\ IsShape(b.shape) /\ Len(b.shape) = 2
BY DEF CscBase, CSCLayout

LEMMA BaseOk ==
  ASSUME NEW b, DenseBase(b) \/ CscBase(b)
  PROVE  IsShape(b.shape) /\ b.csc \in BOOLEAN /\ (b.csc => CscBase(b)) /\ (~ b.csc => DenseBase(b))
<1>1. CASE DenseBase(b)
  BY <1>1 DEF DenseBase
<1>2. CASE CscBase(b)
  BY <1>2, CscOk
<1> QED BY <1>1, <1>2

LEMMA MinOk ==
  ASSUME NEW S, S \subseteq Nat, S # {}
  PROVE  Min(S) \in S /\ \A x \in S : Min(S) <= x
<1>1. PICK m \in S : \A y \in S : m <= y
  BY LeastNumber
<1> QED BY <1>1 DEF Min

LEMMA PatternBounds ==
  ASSUME NEW s, IsShape(s), Len(s) = 2, NEW spp, IsPattern(spp, s), NEW d \in 1 .. 2
  PROVE  LET T == {x[d] : x \in spp}
         IN  /\ T \subseteq 0 .. s[d] - 1 /\ T # {} /\ IsFiniteSet(T)
             /\ IsRange(BoundingBoxOf(spp)[d])
             /\ T \subseteq Numbers(BoundingBoxOf(spp)[d])
<1> DEFINE T == {x[d] : x \in spp}
<1>1. s[1] \in Nat /\ s[2] \in Nat
  BY ShapeLength
<1>2. T \subseteq 0 .. s[d] - 1 /\ T # {} /\ s[d] \in Nat
  BY <1>1 DEF IsPattern
<1>3. BoundingBoxOf(spp)[d] = Interval(Min(T), Max(T) + 1)
  BY DEF BoundingBoxOf
<1> HIDE DEF T
<1>4. IsFiniteSet(T)
  <2>1. IsFiniteSet(0 .. s[d] - 1)
    BY <1>2, FS_Interval
  <2> QED BY <1>2, <2>1, FS_Subset
<1>5. T \subseteq Nat /\ T \subseteq Int
  BY <1>2
<1>6. Min(T) \in T /\ Max(T) \in T /\ \A x \in T : Min(T) <= x /\ x <= Max(T)
  BY <1>2, <1>4, <1>5, MinOk, MaxOk
<1>7. IsRange(BoundingBoxOf(spp)[d]) /\ T \subseteq Numbers(BoundingBoxOf(spp)[d])
  <2>1. Min(T) \in Nat /\ Max(T) \in Nat /\ Min(T) <= Max(T)
    BY <1>5, <1>6
  <2>2. \A x \in T : x \in Min(T) .. Max(T)
    BY <1>5, <1>6
  <2> HIDE DEF Interval
  <2>3. Interval(Min(T), Max(T) + 1).start = Min(T) /\ Interval(Min(T), Max(T) + 1).stop = Max(T) + 1
    BY DEF Interval
  <2>4. Numbers(BoundingBoxOf(spp)[d]) = Min(T) .. Max(T)
    BY <1>3, <2>1, <2>3 DEF Numbers
  <2> QED BY <1>3, <2>1, <2>2, <2>3, <2>4 DEF IsRange
<1> QED BY <1>2, <1>4, <1>7 DEF T

LEMMA BoxOk ==
  ASSUME NEW b, DenseBase(b) \/ CscBase(b)
  PROVE  IsBox(b.bbox, Len(b.shape))
<1>1. CASE DenseBase(b)
  BY <1>1 DEF DenseBase
<1>2. CASE CscBase(b)
  <2>1. PICK s, spp : \E a \in BOOLEAN :
          IsShape(s) /\ Len(s) = 2 /\ IsPattern(spp, s) /\ b = CSCLayout(s, spp, a)
    BY <1>2 DEF CscBase
  <2>2. PICK a \in BOOLEAN :
          IsShape(s) /\ Len(s) = 2 /\ IsPattern(spp, s) /\ b = CSCLayout(s, spp, a)
    BY <2>1
  <2> DEFINE box == BoundingBoxOf(spp)
  <2>3. b.shape = s /\ b.bbox = IF a THEN [box EXCEPT ![1] = aligned(@)] ELSE box
    BY <2>2 DEF CSCLayout
  <2>4. IsRange(box[1]) /\ IsRange(box[2]) /\ box = [d \in 1 .. 2 |-> box[d]]
    <3>1. IsRange(box[1]) /\ IsRange(box[2])
      <4>1. ASSUME NEW d \in 1 .. 2 PROVE IsRange(BoundingBoxOf(spp)[d])
        <5> HIDE DEF box
        <5> QED BY <2>2, PatternBounds
      <4> QED BY <4>1
    <3> QED BY <3>1 DEF BoundingBoxOf
  <2>5. IsRange(aligned(box[1]))
    BY <2>4, AlignedRange
  <2> HIDE DEF box
  <2>6. \A d \in 1 .. 2 : IsRange(b.bbox[d])
    BY <2>3, <2>4, <2>5
  <2>7. b.bbox = [d \in 1 .. 2 |-> b.bbox[d]]
    BY <2>3, <2>4
  <2> QED BY <2>2, <2>3, <2>6, <2>7 DEF IsBox
<1> QED BY <1>1, <1>2

\* What the views of a layout need: a box and a shape of as many dimensions.
Viewable(lay) ==
  /\ Len(lay.base.shape) \in Nat /\ lay.base.shape \in [1 .. Len(lay.base.shape) -> Int]
  /\ \A d \in 1 .. Len(lay.base.shape) : lay.base.bbox[d].start \in Nat /\ lay.base.bbox[d].stop \in Nat
  /\ lay.views = [k \in 1 .. Len(lay.views) |-> lay.views[k]] /\ Len(lay.views) \in Nat
  /\ \A k \in 1 .. Len(lay.views) :
       /\ lay.views[k].index \in 1 .. Len(lay.base.shape)
       /\ lay.views[k].start \in Nat /\ lay.views[k].stop \in Nat

LEMMA LayoutViewable ==
  ASSUME NEW lay, LayoutOk(lay)
  PROVE  Viewable(lay)
<1> DEFINE n == Len(lay.base.shape)
<1>1. IsShape(lay.base.shape) /\ IsBox(lay.base.bbox, n)
  BY BaseOk, BoxOk DEF LayoutOk
<1>2. n \in Nat /\ lay.base.shape \in [1 .. n -> Int]
  BY <1>1 DEF IsShape
<1>3. \A d \in 1 .. n : lay.base.bbox[d].start \in Nat /\ lay.base.bbox[d].stop \in Nat
  BY <1>1 DEF IsBox, IsRange
<1>4. /\ lay.views = [k \in 1 .. Len(lay.views) |-> lay.views[k]] /\ Len(lay.views) \in Nat
      /\ \A k \in 1 .. Len(lay.views) :
           /\ lay.views[k].index \in 1 .. n
           /\ lay.views[k].start \in Nat /\ lay.views[k].stop \in Nat
  BY DEF LayoutOk, IsView
<1> QED BY <1>2, <1>3, <1>4 DEF Viewable

\* The shape after the first k views.
LEMMA ShapeFolds ==
  ASSUME NEW lay, Viewable(lay)
  PROVE  LET step == [q \in (1 .. Len(lay.views)) \X [1 .. Len(lay.base.shape) -> Int] |->
                        [q[2] EXCEPT ![lay.views[q[1]].index] = lay.views[q[1]].stop - lay.views[q[1]].start]]
         IN  \E h : /\ Solves(h, Len(lay.views), [1 .. Len(lay.base.shape) -> Int], lay.base.shape, step)
                    /\ h[Len(lay.views)] = shapeOf(lay)
<1> DEFINE m == Len(lay.views)
           n == Len(lay.base.shape)
           T == [1 .. n -> Int]
           v == lay.views
           base == lay.base.shape
           step == [q \in (1 .. m) \X T |-> [q[2] EXCEPT ![v[q[1]].index] = v[q[1]].stop - v[q[1]].start]]
           Eqn(f) == f = [t \in SUBSET DOMAIN v |->
                            IF t = {} THEN base
                            ELSE LET x == Max(t)
                                 IN  [f[t \ {x}] EXCEPT ![v[x].index] = v[x].stop - v[x].start]]
           iter == CHOOSE f : Eqn(f)
<1>1. m \in Nat /\ DOMAIN v = 1 .. m /\ n \in Nat
  BY DEF Viewable
<1>2. shapeOf(lay) = iter[DOMAIN v]
  BY DEF shapeOf, FoldLeft, MapThenFoldSet
<1>3. base \in T
  BY DEF Viewable
<1>4. \A k \in 1 .. m : v[k].index \in 1 .. n /\ v[k].stop - v[k].start \in Int
  BY DEF Viewable
<1>5. step \in StepFunctions(m, T)
  BY <1>4 DEF StepFunctions
<1> HIDE DEF m, n, T, v, base, step
<1>6. ASSUME NEW f \in [SUBSET (1 .. m) -> T], NEW t \in SUBSET (1 .. m), t # {}
      PROVE  [f[t \ {Max(t)}] EXCEPT ![v[Max(t)].index] = v[Max(t)].stop - v[Max(t)].start]
               = step[<<Max(t), f[t \ {Max(t)}]>>]
  <2>1. Max(t) \in 1 .. m
    BY <1>1, <1>6, GreatestOf
  <2>2. f[t \ {Max(t)}] \in T
    BY <1>6
  <2> QED BY <2>1, <2>2 DEF step
<1>7. ASSUME NEW f \in [SUBSET (1 .. m) -> T] PROVE Eqn(f) <=> LeftFold(f, m, base, step)
  <2> DEFINE a(t) == IF t = {} THEN base
                     ELSE [f[t \ {Max(t)}] EXCEPT ![v[Max(t)].index] = v[Max(t)].stop - v[Max(t)].start]
  <2>1. \A t \in SUBSET (1 .. m) : a(t) = Turn(f, t, base, step)
    BY <1>6 DEF Turn
  <2>2. Eqn(f) <=> f = [t \in SUBSET (1 .. m) |-> a(t)]
    BY <1>1
  <2> HIDE DEF a, Eqn
  <2> QED BY <2>1, <2>2 DEF LeftFold
<1>8. PICK f \in [SUBSET (1 .. m) -> T] : LeftFold(f, m, base, step)
  BY <1>1, <1>3, <1>5, LeftFoldExists
<1>9. Eqn(iter)
  <2>1. Eqn(f)
    BY <1>7, <1>8
  <2> HIDE DEF Eqn
  <2> QED BY <2>1
<1>10. iter \in [SUBSET (1 .. m) -> T]
  <2> DEFINE P == {t \in SUBSET (1 .. m) : iter[t] \in T}
  <2> HIDE DEF iter
  <2>1. /\ iter = [t \in SUBSET (1 .. m) |-> iter[t]]
        /\ iter[{}] = base
        /\ \A t \in (SUBSET (1 .. m)) \ {{}} :
             iter[t] = [iter[t \ {Max(t)}] EXCEPT ![v[Max(t)].index] = v[Max(t)].stop - v[Max(t)].start]
    <3>1. {} \in SUBSET (1 .. m)
      OBVIOUS
    <3> QED BY <1>1, <1>9, <3>1
  <2>2. {} \in P
    BY <1>3, <2>1
  <2>3. ASSUME NEW t \in SUBSET (1 .. m), t # {}, \A x \in t : t \ {x} \in P PROVE t \in P
    <3>1. Max(t) \in t /\ Max(t) \in 1 .. m
      BY <1>1, <2>3, GreatestOf
    <3>2. iter[t \ {Max(t)}] \in T
      BY <2>3, <3>1
    <3>3. v[Max(t)].index \in 1 .. n /\ v[Max(t)].stop - v[Max(t)].start \in Int
      BY <1>4, <3>1
    <3>4. [iter[t \ {Max(t)}] EXCEPT ![v[Max(t)].index] = v[Max(t)].stop - v[Max(t)].start] \in T
      BY <3>2, <3>3 DEF T
    <3> QED BY <2>1, <2>3, <3>4
  <2> HIDE DEF P
  <2>4. IsFiniteSet(1 .. m)
    BY <1>1, FS_Interval
  <2>5. SUBSET (1 .. m) \subseteq P
    BY <2>2, <2>3, <2>4, FiniteSetInduction
  <2> QED BY <2>1, <2>5 DEF P
<1>11. LeftFold(iter, m, base, step)
  <2> HIDE DEF iter, Eqn
  <2> QED BY <1>7, <1>9, <1>10
<1>12. \E h : Solves(h, m, T, base, step) /\ h[m] = iter[1 .. m]
  <2> HIDE DEF iter
  <2> QED BY <1>1, <1>3, <1>5, <1>11, LeftFoldSolves
<1> QED BY <1>1, <1>2, <1>12 DEF m, n, T, v, base, step

LEMMA ShapeOk ==
  ASSUME NEW lay, Viewable(lay)
  PROVE  /\ DOMAIN shapeOf(lay) = 1 .. Len(lay.base.shape)
         /\ shapeOf(lay) = [d \in 1 .. Len(lay.base.shape) |-> shapeOf(lay)[d]]
         /\ \A d \in 1 .. Len(lay.base.shape) : d \notin Viewed(lay) => shapeOf(lay)[d] = lay.base.shape[d]
<1> DEFINE m == Len(lay.views)
           n == Len(lay.base.shape)
           T == [1 .. n -> Int]
           v == lay.views
           base == lay.base.shape
           step == [q \in (1 .. m) \X T |-> [q[2] EXCEPT ![v[q[1]].index] = v[q[1]].stop - v[q[1]].start]]
<1>1. PICK h : Solves(h, m, T, base, step) /\ h[m] = shapeOf(lay)
  BY ShapeFolds
<1>2. m \in Nat /\ DOMAIN v = 1 .. m
  BY DEF Viewable
<1>3. ASSUME NEW k \in 1 .. m, NEW d \in 1 .. n, d \notin Viewed(lay)
      PROVE  h[k][d] = h[k - 1][d]
  <2>1. k - 1 \in 0 .. m
    OBVIOUS
  <2>2. h[k - 1] \in T /\ h[k] = step[<<k, h[k - 1]>>]
    BY <1>1, <2>1 DEF Solves
  <2>3. h[k] = [h[k - 1] EXCEPT ![v[k].index] = v[k].stop - v[k].start]
    BY <2>2
  <2>4. v[k].index # d
    BY <1>2, <1>3 DEF Viewed, Views
  <2> QED BY <2>2, <2>3, <2>4
<1>4. h[m] \in T
  <2>1. m \in 0 .. m
    BY <1>2
  <2> QED BY <1>1, <2>1 DEF Solves
<1>5. h[0] = base
  BY <1>1 DEF Solves
<1> HIDE DEF T, step
<1> DEFINE P == {k \in Nat : k <= m => \A d \in 1 .. n : d \notin Viewed(lay) => h[k][d] = base[d]}
<1>6. 0 \in P
  BY <1>5
<1>7. ASSUME NEW k \in Nat, k \in P PROVE k + 1 \in P
  <2>1. k + 1 <= m => k + 1 \in 1 .. m /\ (k + 1) - 1 = k
    BY <1>2
  <2> QED BY <1>2, <1>3, <1>7, <2>1
<1> HIDE DEF P
<1>8. m \in P
  BY <1>2, <1>6, <1>7, NatSetInduction
<1> QED BY <1>1, <1>2, <1>4, <1>8 DEF P, T

LEMMA DenseLayoutOk ==
  ASSUME NEW s, IsShape(s), NEW bbox, IsBox(bbox, Len(s)), NEW a \in BOOLEAN
  PROVE  LET base == DenseLayout(s, bbox, a)
         IN  /\ DenseBase(base) /\ base.shape = s
             /\ base.bbox = IF a THEN [bbox EXCEPT ![1] = aligned(@)] ELSE bbox
             /\ base.range0 = IF a THEN <<bbox[1]>> ELSE <<>>
<1> DEFINE new == IF a THEN [bbox EXCEPT ![1] = aligned(@)] ELSE bbox
           base == DenseLayout(s, bbox, a)
           n == Len(s)
<1>1. n \in Nat \ {0} /\ 1 \in 1 .. n
  BY ShapeLength
<1>2. /\ base.csc = FALSE /\ base.shape = s /\ base.bbox = new /\ base.stride = Strides(new)
      /\ base.range0 = IF a THEN <<bbox[1]>> ELSE <<>>
  BY DEF DenseLayout, WithStride
<1>3. IsRange(bbox[1]) /\ IsRange(aligned(bbox[1]))
  BY <1>1, AlignedRange DEF IsBox
<1>4. IsBox(new, n)
  <2>1. CASE a
    <3>1. bbox = [d \in 1 .. n |-> bbox[d]]
      BY DEF IsBox
    <3>2. /\ new = [d \in 1 .. n |-> new[d]]
          /\ \A d \in 1 .. n : new[d] = IF d = 1 THEN aligned(bbox[1]) ELSE bbox[d]
      BY <1>1, <2>1, <3>1
    <3> HIDE DEF new
    <3> QED BY <1>3, <3>2 DEF IsBox
  <2>2. CASE ~ a
    BY <2>2
  <2> QED BY <2>1, <2>2
<1>5. a => new[1] = aligned(bbox[1])
  BY <1>1 DEF IsBox
<1> HIDE DEF new, base
<1>6. base.range0 = <<>> \/ \E r : IsRange(r) /\ base.range0 = <<r>> /\ base.bbox[1] = aligned(r)
  BY <1>2, <1>3, <1>5
<1> QED BY <1>2, <1>4, <1>6 DEF DenseBase, base, new, n

LEMMA BoxesOk ==
  ASSUME NEW s, IsShape(s), NEW bbox \in Boxes(s)
  PROVE  IsBox(bbox, Len(s))
<1>1. DOMAIN s = 1 .. Len(s) /\ \A d \in 1 .. Len(s) : s[d] \in Nat
  BY ShapeLength
<1>2. /\ bbox = [d \in 1 .. Len(s) |-> bbox[d]]
      /\ \A d \in 1 .. Len(s) : bbox[d] \in NonEmpty(SubRanges(s[d]))
  BY <1>1 DEF Boxes
<1>3. ASSUME NEW d \in 1 .. Len(s) PROVE IsRange(bbox[d])
  <2>1. PICK x \in 0 .. s[d] - 1, y \in 1 .. s[d] : bbox[d] = Interval(x, y)
    BY <1>2 DEF NonEmpty, SubRanges
  <2>2. size(bbox[d]) > 0
    BY <1>2 DEF NonEmpty
  <2> QED BY <1>1, <2>1, <2>2 DEF IsRange, Interval, size
<1> QED BY <1>2, <1>3 DEF IsBox

LEMMA PlainLayoutOk ==
  ASSUME NEW base, DenseBase(base) \/ CscBase(base)
  PROVE  LayoutOk(Layout(base))
BY DEF LayoutOk, Layout

\* One more view, which is a slice of dimension d.
LEMMA SubsliceOk ==
  ASSUME NEW lay, LayoutOk(lay), NEW d \in 1 .. Len(lay.base.shape),
         NEW a \in Nat, NEW b \in Nat, a < b
  PROVE  LayoutOk(subslice(lay, d, a, b)) /\ subslice(lay, d, a, b).base = lay.base
<1> DEFINE v == View(d, a, b)
           m == Len(lay.views)
           new == subslice(lay, d, a, b)
<1>0. lay = [base |-> lay.base, views |-> lay.views]
  BY DEF LayoutOk
<1>1. new.base = lay.base /\ new.views = Append(lay.views, v) /\ new = [base |-> new.base, views |-> new.views]
  <2>1. new = [base |-> lay.base, views |-> Append(lay.views, v)]
    <3> HIDE DEF v
    <3> QED BY <1>0 DEF subslice, v
  <2> QED BY <2>1
<1>2. m \in Nat /\ lay.views = [k \in 1 .. m |-> lay.views[k]]
  BY DEF LayoutOk
<1> DEFINE w == [k \in 1 .. m + 1 |-> IF k <= m THEN lay.views[k] ELSE v]
<1>3. Append(lay.views, v) = w
  <2>1. lay.views \in Seq({lay.views[k] : k \in 1 .. m} \cup {v})
    <3> DEFINE T == {lay.views[k] : k \in 1 .. m} \cup {v}
    <3>1. \A k \in 1 .. m : lay.views[k] \in T
      OBVIOUS
    <3>2. lay.views \in [1 .. m -> T]
      BY <1>2, <3>1
    <3> HIDE DEF T
    <3>3. lay.views \in Seq(T)
      BY <1>2, <3>1, IsASeq
    <3> QED BY <3>3 DEF T
  <2> HIDE DEF v
  <2> QED BY <1>2, <2>1
<1>4. Len(w) = m + 1 /\ w = [k \in 1 .. m + 1 |-> w[k]]
  BY <1>2
<1>5. \A k \in 1 .. m + 1 : IsView(w[k], Len(lay.base.shape))
  <2> SUFFICES ASSUME NEW k \in 1 .. m + 1 PROVE IsView(w[k], Len(lay.base.shape))
    OBVIOUS
  <2>1. CASE k <= m
    <3>1. k \in 1 .. m
      BY <1>2, <2>1
    <3> QED BY <2>1, <3>1 DEF LayoutOk
  <2>2. CASE ~ k <= m
    BY <2>2 DEF IsView, View
  <2> QED BY <2>1, <2>2
<1> HIDE DEF w, new
<1> QED BY <1>1, <1>2, <1>3, <1>4, <1>5 DEF LayoutOk, new

\* The box before its rows were extended to whole vectors.
unalignedBox(b) == IF b.range0 # <<>> THEN [b.bbox EXCEPT ![1] = b.range0[1]] ELSE b.bbox

LEMMA UnalignedBoxOk ==
  ASSUME NEW b, DenseBase(b)
  PROVE  /\ IsBox(unalignedBox(b), Len(b.shape))
         /\ \A d \in 1 .. Len(b.shape) :
              unalignedBox(b)[d] = IF d = 1 /\ b.range0 # <<>> THEN b.range0[1] ELSE b.bbox[d]
<1> DEFINE n == Len(b.shape)
           new == unalignedBox(b)
<1>1. n \in Nat \ {0} /\ 1 \in 1 .. n
  BY ShapeLength DEF DenseBase
<1>2. b.bbox = [d \in 1 .. n |-> b.bbox[d]] /\ \A d \in 1 .. n : IsRange(b.bbox[d])
  BY DEF DenseBase, IsBox
<1>3. b.range0 # <<>> => IsRange(b.range0[1])
  BY DEF DenseBase
<1>4. /\ new = [d \in 1 .. n |-> new[d]]
      /\ \A d \in 1 .. n : new[d] = IF d = 1 /\ b.range0 # <<>> THEN b.range0[1] ELSE b.bbox[d]
  BY <1>1, <1>2 DEF unalignedBox
<1> HIDE DEF new
<1>5. \A d \in 1 .. n : IsRange(new[d])
  BY <1>2, <1>3, <1>4
<1>6. IsBox(new, n)
  BY <1>4, <1>5 DEF IsBox
<1> QED BY <1>4, <1>6 DEF new

LEMMA PermutedBaseOk ==
  ASSUME NEW b, DenseBase(b), NEW p \in Bijection(1 .. Len(b.shape), 1 .. Len(b.shape))
  PROVE  LET base == permutedBase(b, p)
             box == [d \in 1 .. Len(b.shape) |-> unalignedBox(b)[p[d]]]
         IN  /\ DenseBase(base)
             /\ base.shape = [d \in 1 .. Len(b.shape) |-> b.shape[p[d]]]
             /\ Len(base.shape) = Len(b.shape)
             /\ unalignedBox(base) = box
<1> DEFINE n == Len(b.shape)
           base == permutedBase(b, p)
           box == [d \in 1 .. n |-> unalignedBox(b)[p[d]]]
           s == [d \in 1 .. n |-> b.shape[p[d]]]
           a == b.range0 # <<>>
<1>1. n \in Nat \ {0} /\ 1 \in 1 .. n /\ \A d \in 1 .. n : b.shape[d] \in Nat \ {0}
  BY ShapeLength DEF DenseBase
<1>2. DOMAIN p = 1 .. n /\ \A d \in 1 .. n : p[d] \in 1 .. n
  BY DEF Bijection, Injection
<1>3. IsShape(s) /\ Len(s) = n
  <2>1. s \in [1 .. n -> Nat \ {0}]
    BY <1>1, <1>2
  <2>2. s \in Seq(Nat \ {0}) /\ Len(s) = n
    BY <1>1, <2>1
  <2> QED BY <1>1, <2>2 DEF IsShape
<1>4. IsBox(box, n)
  <2>1. \A d \in 1 .. n : IsRange(unalignedBox(b)[p[d]])
    BY <1>2, UnalignedBoxOk DEF IsBox
  <2> QED BY <2>1 DEF IsBox
<1>5. base = DenseLayout(s, box, a)
  BY <1>2 DEF permutedBase, unalignedBox
<1>0. a \in BOOLEAN
  OBVIOUS
<1> HIDE DEF s, box, base, a
<1>6. /\ DenseBase(base) /\ base.shape = s
      /\ base.bbox = IF a THEN [box EXCEPT ![1] = aligned(@)] ELSE box
      /\ base.range0 = IF a THEN <<box[1]>> ELSE <<>>
  BY <1>0, <1>3, <1>4, <1>5, DenseLayoutOk
<1>7. unalignedBox(base) = box
  <2>1. box = [d \in 1 .. n |-> box[d]]
    BY <1>4 DEF IsBox
  <2>2. CASE a
    <3>1. base.bbox = [box EXCEPT ![1] = aligned(@)] /\ base.range0 = <<box[1]>>
      BY <1>6, <2>2
    <3>2. unalignedBox(base) = [[box EXCEPT ![1] = aligned(@)] EXCEPT ![1] = box[1]]
      BY <3>1 DEF unalignedBox
    <3> QED BY <2>1, <3>2
  <2>3. CASE ~ a
    BY <1>6, <2>3 DEF unalignedBox
  <2> QED BY <2>2, <2>3
<1> QED BY <1>3, <1>6, <1>7 DEF s, box, base

LEMMA PermutedOk ==
  ASSUME NEW lay, LayoutOk(lay), ~ lay.base.csc, NEW p \in Bijection(1 .. Len(lay.base.shape), 1 .. Len(lay.base.shape))
  PROVE  LayoutOk(permuted(lay, p)) /\ ~ permuted(lay, p).base.csc
<1> DEFINE new == permuted(lay, p)
           n == Len(lay.base.shape)
           m == Len(lay.views)
<1>1. DenseBase(lay.base)
  BY BaseOk DEF LayoutOk
<1>2. DenseBase(permutedBase(lay.base, p)) /\ Len(permutedBase(lay.base, p).shape) = n
  BY <1>1, PermutedBaseOk
<1>3. m \in Nat /\ DOMAIN lay.views = 1 .. m /\ \A k \in 1 .. m : IsView(lay.views[k], n)
  BY DEF LayoutOk
<1>4. /\ new.base = permutedBase(lay.base, p)
      /\ new.views = [k \in 1 .. m |-> [lay.views[k] EXCEPT !.index = p[@]]]
      /\ new = [base |-> new.base, views |-> new.views]
  BY <1>3 DEF permuted
<1>5. \A k \in 1 .. m : IsView([lay.views[k] EXCEPT !.index = p[@]], n)
  <2>1. \A d \in 1 .. n : p[d] \in 1 .. n
    BY DEF Bijection, Injection
  <2> QED BY <1>3, <2>1 DEF IsView
<1> HIDE DEF new
<1>6. Len(new.views) = m /\ new.views = [k \in 1 .. m |-> new.views[k]]
      /\ \A k \in 1 .. m : IsView(new.views[k], n)
  BY <1>3, <1>4, <1>5
<1> QED BY <1>2, <1>3, <1>4, <1>6 DEF LayoutOk, new, DenseBase

LEMMA FromSppOk ==
  ASSUME NEW s, IsShape(s), NEW bbox, IsBox(bbox, Len(s)), NEW a \in BOOLEAN, NEW from \in Nat
  PROVE  LET lay == fromSpp(s, bbox, a, from) IN LayoutOk(lay) /\ ~ lay.base.csc
<1>1. CASE ~ (a /\ from > 0)
  <2>1. DenseBase(DenseLayout(s, bbox, a))
    BY DenseLayoutOk
  <2>2. fromSpp(s, bbox, a, from) = Layout(DenseLayout(s, bbox, a))
    BY <1>1 DEF fromSpp
  <2>3. Layout(DenseLayout(s, bbox, a)).base = DenseLayout(s, bbox, a)
    BY DEF Layout
  <2> QED BY <2>1, <2>2, <2>3, PlainLayoutOk DEF DenseBase
<1>2. CASE a /\ from > 0
  <2> DEFINE long == [s EXCEPT ![1] = @ + from]
             box == [bbox EXCEPT ![1] = Shifted(@, from)]
             base == DenseLayout(long, box, TRUE)
             n == Len(s)
  <2>1. n \in Nat \ {0} /\ 1 \in 1 .. n /\ DOMAIN s = 1 .. n /\ \A d \in 1 .. n : s[d] \in Nat \ {0}
    BY ShapeLength
  <2>2. IsShape(long) /\ Len(long) = n /\ long[1] = s[1] + from
    <3>1. long \in [1 .. n -> Nat \ {0}]
      BY <1>2, <2>1 DEF IsShape
    <3>2. long \in Seq(Nat \ {0}) /\ Len(long) = n
      BY <2>1, <3>1
    <3> QED BY <2>1, <3>1, <3>2 DEF IsShape
  <2>3. IsBox(box, n)
    <3>1. bbox = [d \in 1 .. n |-> bbox[d]] /\ \A d \in 1 .. n : IsRange(bbox[d])
      BY DEF IsBox
    <3>2. /\ box = [d \in 1 .. n |-> box[d]]
          /\ \A d \in 1 .. n : box[d] = IF d = 1 THEN Shifted(bbox[1], from) ELSE bbox[d]
      BY <2>1, <3>1
    <3>3. IsRange(Shifted(bbox[1], from))
      BY <2>1, <3>1 DEF IsRange, Shifted, Interval
    <3> HIDE DEF box
    <3>4. \A d \in 1 .. n : IsRange(box[d])
      BY <3>1, <3>2, <3>3
    <3> QED BY <3>2, <3>4 DEF IsBox
  <2> HIDE DEF long, box
  <2>4. DenseBase(base) /\ base.shape = long
    BY <2>2, <2>3, DenseLayoutOk
  <2> HIDE DEF base
  <2>5. LayoutOk(Layout(base)) /\ Layout(base).base = base
    BY <2>4, PlainLayoutOk DEF Layout
  <2>6. 1 \in 1 .. Len(Layout(base).base.shape) /\ long[1] \in Nat /\ from < long[1]
    BY <2>1, <2>2, <2>4, <2>5
  <2>7. LayoutOk(subslice(Layout(base), 1, from, long[1]))
        /\ subslice(Layout(base), 1, from, long[1]).base = Layout(base).base
    BY <2>5, <2>6, SubsliceOk
  <2>8. fromSpp(s, bbox, a, from) = subslice(Layout(base), 1, from, long[1])
    BY <1>2 DEF fromSpp, base, long, box
  <2> QED BY <2>4, <2>5, <2>7, <2>8 DEF DenseBase
<1> QED BY <1>1, <1>2

-----------------------------------------------------------------------------
(* The term and its matrix *)

MatrixInv ==
  \E I, J \in FusedVariants :
    I \cap J = {} /\ HasMethod(I, J) /\ groups = <<I, J>> /\ matrix = MatrixOf(I, J)

TermInv ==
  /\ LayoutOk(term)
  /\ isOp \in BOOLEAN /\ (isOp => ~ term.base.csc)
  /\ phase # "Node" => MatrixInv

LEMMA DimsOk ==
  ASSUME LayoutOk(term)
  PROVE  Dims = 1 .. Len(term.base.shape) /\ IsShape(term.base.shape)
BY BaseOk, ShapeOk, LayoutViewable DEF Dims, LayoutOk

LEMMA TermInit == TInit => TermInv
<1> SUFFICES ASSUME TInit PROVE TermInv
  OBVIOUS
<1>1. PICK s \in Shapes : \/ isOp = FALSE /\ term \in TensorLayouts(s)
                          \/ isOp = TRUE /\ term \in OpLayouts(s)
  BY DEF TInit
<1>2. IsShape(s)
  BY ShapesAssumption DEF IsShape
<1>3. CASE isOp = FALSE /\ term \in TensorLayouts(s)
  <2>1. ASSUME \E bbox \in Boxes(s), a \in BOOLEAN : term = Layout(DenseLayout(s, bbox, a))
        PROVE  LayoutOk(term)
    <3>1. PICK bbox \in Boxes(s), a \in BOOLEAN : term = Layout(DenseLayout(s, bbox, a))
      BY <2>1
    <3> DEFINE base == DenseLayout(s, bbox, a)
    <3>2. DenseBase(base)
      BY <1>2, BoxesOk, DenseLayoutOk
    <3>3. term = Layout(base)
      BY <3>1
    <3> HIDE DEF base
    <3>4. LayoutOk(Layout(base))
      BY <3>2, PlainLayoutOk
    <3> QED BY <3>3, <3>4
  <2>2. ASSUME Len(s) = 2, \E a \in BOOLEAN, spp \in (SUBSET ((0 .. s[1] - 1) \X (0 .. s[2] - 1))) \ {{}} :
                 term = Layout(CSCLayout(s, spp, a))
        PROVE  LayoutOk(term)
    <3>1. PICK a \in BOOLEAN, spp \in (SUBSET ((0 .. s[1] - 1) \X (0 .. s[2] - 1))) \ {{}} :
            term = Layout(CSCLayout(s, spp, a))
      BY <2>2
    <3> DEFINE base == CSCLayout(s, spp, a)
    <3>2. IsPattern(spp, s)
      BY <3>1 DEF IsPattern
    <3>3. term = Layout(base)
      BY <3>1
    <3>4. base = CSCLayout(s, spp, a)
      OBVIOUS
    <3> HIDE DEF base
    <3>5. CscBase(base)
      BY <1>2, <2>2, <3>2, <3>4 DEF CscBase
    <3>6. LayoutOk(Layout(base))
      BY <3>5, PlainLayoutOk
    <3> QED BY <3>3, <3>6
  <2>3. \/ \E bbox \in Boxes(s), a \in BOOLEAN : term = Layout(DenseLayout(s, bbox, a))
        \/ Len(s) = 2 /\ \E a \in BOOLEAN, spp \in (SUBSET ((0 .. s[1] - 1) \X (0 .. s[2] - 1))) \ {{}} :
             term = Layout(CSCLayout(s, spp, a))
    BY <1>3 DEF TensorLayouts
  <2>4. LayoutOk(term)
    BY <2>1, <2>2, <2>3
  <2> QED BY <1>3, <2>4 DEF TInit, TermInv
<1>4. CASE isOp = TRUE /\ term \in OpLayouts(s)
  <2>1. PICK bbox \in Boxes(s), a \in BOOLEAN, from \in 0 .. AlignedReals - 1 :
          term = fromSpp(s, bbox, a, from)
    BY <1>4 DEF OpLayouts
  <2>2. from \in Nat
    BY AlignmentAssumption
  <2>3. LayoutOk(term) /\ ~ term.base.csc
    BY <1>2, <2>1, <2>2, BoxesOk, FromSppOk
  <2> QED BY <1>4, <2>3 DEF TInit, TermInv
<1> QED BY <1>1, <1>3, <1>4

LEMMA TermNext == TermInv /\ [TNext]_vars => TermInv'
<1> SUFFICES ASSUME TermInv, [TNext]_vars PROVE TermInv'
  OBVIOUS
<1> DEFINE n == Len(term.base.shape)
<1>1. Dims = 1 .. n /\ IsShape(term.base.shape) /\ LayoutOk(term)
  BY DimsOk DEF TermInv
<1>2. ASSUME NEW d \in Dims, NEW r \in NonEmpty(SubRanges(shapeOf(term)[d])), Subslice(d, r)
      PROVE  TermInv'
  <2>1. r.start \in Nat /\ r.stop \in Nat /\ r.start < r.stop
    BY <1>2 DEF NonEmpty, SubRanges, size, Interval
  <2>2. LayoutOk(subslice(term, d, r.start, r.stop))
    BY <1>1, <1>2, <2>1, SubsliceOk
  <2> QED BY <1>2, <2>2 DEF Subslice, TermInv
<1>3. ASSUME NEW p \in Bijection(Dims, Dims), Permute(p) PROVE TermInv'
  <2>1. LayoutOk(permuted(term, p)) /\ ~ permuted(term, p).base.csc
    BY <1>1, <1>3, PermutedOk DEF Permute, TermInv
  <2> QED BY <1>3, <2>1 DEF Permute, TermInv
<1>4. ASSUME UNCHANGED <<term, isOp>>, phase' # "Node" => MatrixInv' PROVE TermInv'
  BY <1>4 DEF TermInv
<1>5. ASSUME term' = term, NEW I \in FusedVariants, NEW J \in FusedVariants, I \cap J = {}, HasMethod(I, J),
             groups' = <<I, J>>, matrix' = MatrixOf(I, J)
      PROVE  MatrixInv'
  BY <1>5 DEF MatrixInv, FusedVariants, HasMethod, MatrixOf, Dims
<1>6. ASSUME NEW I \in FusedVariants, NEW J \in FusedVariants, MakeMatrix(I, J) PROVE TermInv'
  BY <1>4, <1>5, <1>6 DEF MakeMatrix
<1>7. ASSUME UNCHANGED <<term, isOp, groups, matrix>>, phase # "Node" PROVE TermInv'
  <2>1. MatrixInv
    BY <1>7 DEF TermInv
  <2>2. MatrixInv'
    BY <1>5, <1>7, <2>1 DEF MatrixInv
  <2> QED BY <1>4, <1>7, <2>2
<1>8. ASSUME phase = "Matrix", NEW m, NEW k, NEW loops, NEW ofProduct, NEW other,
             Describe(m, k, loops, ofProduct, other)
      PROVE  TermInv'
  BY <1>7, <1>8 DEF Describe
<1>9. CASE UNCHANGED vars
  <2>1. CASE phase = "Node"
    BY <1>4, <1>9, <2>1 DEF vars
  <2>2. CASE phase # "Node"
    BY <1>7, <1>9, <2>2 DEF vars
  <2> QED BY <2>1, <2>2
<1> QED BY <1>2, <1>3, <1>6, <1>8, <1>9 DEF TNext

\* The invariant of the layouts: bases are ones that the constructors make,
\* slices are of dimensions they have, and a matrix is that of its groups.
THEOREM LayoutsCorrect == TSpec => []TermInv
<1>1. TInit => TermInv
  BY TermInit
<1>2. TermInv /\ [TNext]_vars => TermInv'
  BY TermNext
<1> QED BY <1>1, <1>2, PTL DEF TSpec

-----------------------------------------------------------------------------
(* Permutations *)

Involution(lay, p) == lay.views = <<>> \/ \A d \in 1 .. Len(lay.base.shape) : p[p[d]] = d

LEMMA PermutedViews ==
  ASSUME NEW lay, LayoutOk(lay), ~ lay.base.csc,
         NEW p \in Bijection(1 .. Len(lay.base.shape), 1 .. Len(lay.base.shape)), Involution(lay, p)
  PROVE  LET new == permuted(lay, p)
         IN  /\ LayoutOk(new) /\ new.base = permutedBase(lay.base, p)
             /\ Len(new.views) = Len(lay.views) /\ DOMAIN new.views = DOMAIN lay.views
             /\ \A k \in 1 .. Len(lay.views) :
                  /\ new.views[k].start = lay.views[k].start
                  /\ new.views[k].stop = lay.views[k].stop
                  /\ \A d \in 1 .. Len(lay.base.shape) :
                       new.views[k].index = d <=> lay.views[k].index = p[d]
<1> DEFINE new == permuted(lay, p)
           n == Len(lay.base.shape)
           m == Len(lay.views)
<1>1. LayoutOk(new)
  BY PermutedOk
<1>2. m \in Nat /\ DOMAIN lay.views = 1 .. m /\ \A k \in 1 .. m : IsView(lay.views[k], n)
  BY DEF LayoutOk
<1>3. /\ new.base = permutedBase(lay.base, p)
      /\ new.views = [k \in 1 .. m |-> [lay.views[k] EXCEPT !.index = p[@]]]
  BY <1>2 DEF permuted
<1>4. Len(new.views) = m /\ DOMAIN new.views = 1 .. m
  BY <1>2, <1>3
<1>5. ASSUME NEW k \in 1 .. m
      PROVE  /\ new.views[k].start = lay.views[k].start
             /\ new.views[k].stop = lay.views[k].stop
             /\ new.views[k].index = p[lay.views[k].index]
  <2>1. IsView(lay.views[k], n)
    BY <1>2
  <2>2. new.views[k] = [lay.views[k] EXCEPT !.index = p[@]]
    BY <1>3
  <2>3. IsView(new.views[k], Len(new.base.shape))
    BY <1>1, <1>4 DEF LayoutOk
  <2> QED BY <2>1, <2>2, <2>3
<1>6. ASSUME NEW k \in 1 .. m, NEW d \in 1 .. n
      PROVE  new.views[k].index = d <=> lay.views[k].index = p[d]
  <2> DEFINE i == lay.views[k].index
  <2>1. i \in 1 .. n
    BY <1>2 DEF IsView
  <2>2. m # 0
    BY <1>2
  <2>3. \A x \in 1 .. n : p[p[x]] = x
    BY <1>2, <2>2 DEF Involution
  <2> HIDE DEF i
  <2>4. p[i] = d <=> i = p[d]
    BY <2>1, <2>3
  <2> QED BY <1>5, <2>4 DEF i
<1> QED BY <1>1, <1>2, <1>3, <1>4, <1>5, <1>6

LEMMA PermutedShape ==
  ASSUME NEW lay, LayoutOk(lay), ~ lay.base.csc,
         NEW p \in Bijection(1 .. Len(lay.base.shape), 1 .. Len(lay.base.shape)), Involution(lay, p)
  PROVE  LET new == permuted(lay, p)
         IN  \A d \in 1 .. Len(lay.base.shape) : shapeOf(new)[d] = shapeOf(lay)[p[d]]
<1> DEFINE new == permuted(lay, p)
           n == Len(lay.base.shape)
           m == Len(lay.views)
           v == lay.views
           w == new.views
           T == [1 .. n -> Int]
           step == [q \in (1 .. m) \X T |-> [q[2] EXCEPT ![v[q[1]].index] = v[q[1]].stop - v[q[1]].start]]
           turn == [q \in (1 .. m) \X T |-> [q[2] EXCEPT ![w[q[1]].index] = w[q[1]].stop - w[q[1]].start]]
<1>1. DenseBase(lay.base)
  BY BaseOk DEF LayoutOk
<1>2. /\ new.base.shape = [d \in 1 .. n |-> lay.base.shape[p[d]]]
      /\ Len(new.base.shape) = n /\ IsShape(new.base.shape)
  <2>1. new.base = permutedBase(lay.base, p)
    BY PermutedViews
  <2> HIDE DEF new
  <2> DEFINE base == permutedBase(lay.base, p)
  <2>2. /\ DenseBase(base) /\ base.shape = [d \in 1 .. n |-> lay.base.shape[p[d]]]
        /\ Len(base.shape) = n
    BY <1>1, PermutedBaseOk
  <2> HIDE DEF base
  <2>3. new.base = base
    BY <2>1 DEF base
  <2> QED BY <2>2, <2>3 DEF DenseBase
<1>3. /\ LayoutOk(new) /\ Len(w) = m /\ m \in Nat
      /\ \A k \in 1 .. m : /\ w[k].start = v[k].start
                           /\ w[k].stop = v[k].stop
                           /\ \A d \in 1 .. n : w[k].index = d <=> v[k].index = p[d]
  BY PermutedViews DEF LayoutOk
<1>4. \A d \in 1 .. n : p[d] \in 1 .. n
  BY DEF Bijection, Injection
<1> HIDE DEF new
<1>5. PICK h : Solves(h, m, T, lay.base.shape, step) /\ h[m] = shapeOf(lay)
  BY <1>1, ShapeFolds, LayoutViewable DEF DenseBase
<1>6. PICK g : Solves(g, m, T, new.base.shape, turn) /\ g[m] = shapeOf(new)
  BY <1>2, <1>3, ShapeFolds, LayoutViewable
<1>7. ASSUME NEW k \in 1 .. m, NEW d \in 1 .. n
      PROVE  /\ h[k][d] = IF v[k].index = d THEN v[k].stop - v[k].start ELSE h[k - 1][d]
             /\ g[k][d] = IF w[k].index = d THEN w[k].stop - w[k].start ELSE g[k - 1][d]
  <2>1. k - 1 \in 0 .. m
    OBVIOUS
  <2>2. h[k - 1] \in T /\ h[k] = step[<<k, h[k - 1]>>]
    BY <1>5, <2>1 DEF Solves
  <2>3. g[k - 1] \in T /\ g[k] = turn[<<k, g[k - 1]>>]
    BY <1>6, <2>1 DEF Solves
  <2>4. /\ h[k] = [h[k - 1] EXCEPT ![v[k].index] = v[k].stop - v[k].start]
        /\ g[k] = [g[k - 1] EXCEPT ![w[k].index] = w[k].stop - w[k].start]
    BY <2>2, <2>3
  <2> HIDE DEF w, v, step, turn
  <2> QED BY <2>2, <2>3, <2>4
<1>8. h[0] = lay.base.shape /\ g[0] = new.base.shape
  BY <1>5, <1>6 DEF Solves
<1> HIDE DEF T, step, turn, v, w
<1> DEFINE P == {k \in Nat : k <= m => \A d \in 1 .. n : g[k][d] = h[k][p[d]]}
<1>9. 0 \in P
  BY <1>2, <1>8
<1>10. ASSUME NEW k \in Nat, k \in P PROVE k + 1 \in P
  <2> SUFFICES ASSUME k + 1 <= m, NEW d \in 1 .. n PROVE g[k + 1][d] = h[k + 1][p[d]]
    OBVIOUS
  <2>1. k + 1 \in 1 .. m /\ (k + 1) - 1 = k /\ p[d] \in 1 .. n
    BY <1>3, <1>4
  <2>2. g[k][d] = h[k][p[d]]
    BY <1>3, <1>10
  <2>3. h[k + 1][p[d]] = IF v[k + 1].index = p[d] THEN v[k + 1].stop - v[k + 1].start ELSE h[k][p[d]]
    BY <1>7, <2>1
  <2>4. g[k + 1][d] = IF w[k + 1].index = d THEN w[k + 1].stop - w[k + 1].start ELSE g[k][d]
    BY <1>7, <2>1
  <2> QED BY <1>3, <2>1, <2>2, <2>3, <2>4
<1> HIDE DEF P
<1>11. m \in P
  BY <1>3, <1>9, <1>10, NatSetInduction
<1> QED BY <1>3, <1>5, <1>6, <1>11 DEF P, new

LEMMA PermutedBox ==
  ASSUME NEW lay, LayoutOk(lay), ~ lay.base.csc,
         NEW p \in Bijection(1 .. Len(lay.base.shape), 1 .. Len(lay.base.shape)), Involution(lay, p),
         NEW d \in 1 .. Len(lay.base.shape)
  PROVE  Unaligned(permuted(lay, p), d) = Unaligned(lay, p[d])
<1> DEFINE new == permuted(lay, p)
           n == Len(lay.base.shape)
<1>1. DenseBase(lay.base) /\ p[d] \in 1 .. n
  BY BaseOk DEF LayoutOk, Bijection, Injection
<1>2. /\ DenseBase(new.base) /\ Len(new.base.shape) = n
      /\ unalignedBox(new.base)[d] = unalignedBox(lay.base)[p[d]]
  <2>1. new.base = permutedBase(lay.base, p)
    BY PermutedViews
  <2> HIDE DEF new
  <2> DEFINE base == permutedBase(lay.base, p)
  <2>2. DenseBase(base) /\ Len(base.shape) = n /\ unalignedBox(base) = [x \in 1 .. n |-> unalignedBox(lay.base)[p[x]]]
    BY <1>1, PermutedBaseOk
  <2> HIDE DEF base
  <2>3. new.base = base
    BY <2>1 DEF base
  <2> QED BY <2>2, <2>3
<1>3. Shift(new, d) = Shift(lay, p[d])
  <2> DEFINE v == lay.views
             w == new.views
  <2>1. DOMAIN w = DOMAIN v /\ DOMAIN v = 1 .. Len(v)
        /\ \A k \in 1 .. Len(v) : w[k].start = v[k].start /\ (w[k].index = d <=> v[k].index = p[d])
    <3>1. DOMAIN v = 1 .. Len(v)
      BY DEF LayoutOk
    <3> QED BY <3>1, PermutedViews
  <2> HIDE DEF v, w
  <2>2. [k \in DOMAIN w |-> IF w[k].index = d THEN w[k].start ELSE 0]
          = [k \in DOMAIN v |-> IF v[k].index = p[d] THEN v[k].start ELSE 0]
    BY <2>1
  <2> QED BY <2>2 DEF Shift, v, w
<1> HIDE DEF new
<1>4. Unaligned(new, d) = Shifted(unalignedBox(new.base)[d], -Shift(new, d))
  BY <1>2, UnalignedBoxOk DEF Unaligned
<1>5. Unaligned(lay, p[d]) = Shifted(unalignedBox(lay.base)[p[d]], -Shift(lay, p[d]))
  BY <1>1, UnalignedBoxOk DEF Unaligned
<1> QED BY <1>2, <1>3, <1>4, <1>5 DEF new

\* setIndexPermutation moves the size, the box and the slices of every
\* dimension together (DenseMemoryLayout.permuted, MemoryLayoutView.permuted).
THEOREM PermutationsMoveTogether == TSpec => PermutedTogether
<1>1. TermInv /\ [TNext]_vars => [MovesTogether]_vars
  <2> SUFFICES ASSUME TermInv, NEW p \in Bijection(Dims, Dims), Permute(p),
                      term.views = <<>> \/ \A d \in Dims : p[p[d]] = d, NEW d \in Dims
               PROVE  /\ shapeOf(term')[d] = shapeOf(term)[p[d]]
                      /\ Unaligned(term', d) = Unaligned(term, p[d])
    BY DEF MovesTogether
  <2>1. LayoutOk(term) /\ ~ term.base.csc /\ Dims = 1 .. Len(term.base.shape)
    BY DimsOk DEF TermInv, Permute
  <2>2. Involution(term, p) /\ term' = permuted(term, p)
    BY <2>1 DEF Involution, Permute
  <2>3. shapeOf(permuted(term, p))[d] = shapeOf(term)[p[d]]
    BY <2>1, <2>2, PermutedShape
  <2>4. Unaligned(permuted(term, p), d) = Unaligned(term, p[d])
    BY <2>1, <2>2, PermutedBox
  <2> QED BY <2>2, <2>3, <2>4
<1> QED BY <1>1, LayoutsCorrect, PTL DEF TSpec, PermutedTogether

-----------------------------------------------------------------------------
(* Where entries are stored *)

\* A function that tells the members of S apart counts as many values.
LEMMA CountedApart ==
  ASSUME NEW S, NEW T, IsFiniteSet(T), NEW f \in [S -> T],
         \A x, y \in S : f[x] = f[y] => x = y
  PROVE  /\ IsFiniteSet(S) /\ Cardinality({f[x] : x \in S}) = Cardinality(S)
         /\ Cardinality(S) \in Nat
<1> DEFINE R == {f[x] : x \in S}
<1>1. IsFiniteSet(R)
  <2>1. R \in SUBSET T
    OBVIOUS
  <2> HIDE DEF R
  <2> QED BY <2>1, FS_Subset
<1>2. f \in [S -> R] /\ \A y \in R : \E x \in S : f[x] = y
  OBVIOUS
<1> HIDE DEF R
<1>3. f \in Injection(S, R) /\ f \in Surjection(S, R)
  BY <1>2, Fun_IsInj, Fun_IsSurj
<1>4. IsFiniteSet(S) /\ Cardinality(S) = Cardinality(R)
  BY <1>1, <1>3, FS_Injection
<1> QED BY <1>4, FS_CardinalityType DEF R

LEMMA BoxDigits ==
  ASSUME NEW n \in Nat, NEW bbox, IsBox(bbox, n)
  PROVE  LET s == [q \in DOMAIN bbox |-> size(bbox[q])]
         IN  DOMAIN bbox = 1 .. n /\ Positions(1 .. n) /\ Naturals(1 .. n, s)
<1>1. DOMAIN bbox = 1 .. n
  BY DEF IsBox
<1>2. Positions(1 .. n)
  BY FS_Interval DEF Positions
<1>3. \A d \in 1 .. n : size(bbox[d]) \in Nat
  BY DEF IsBox, IsRange, size
<1> QED BY <1>1, <1>2, <1>3 DEF Naturals

InBox(b, e) == \A d \in 1 .. Len(b.shape) : e[d] \in Numbers(b.bbox[d])

\* An entry of the box, counted from its corner.
LEMMA DenseNumber ==
  ASSUME NEW b, DenseBase(b), NEW e, InBox(b, e)
  PROVE  LET n == Len(b.shape)
             s == [q \in DOMAIN b.bbox |-> size(b.bbox[q])]
             x == [d \in 1 .. n |-> e[d] - b.bbox[d].start]
         IN  /\ DigitsOf(1 .. n, s, x)
             /\ DenseAddress(b, e) = Number(s, 1 .. n, x)
             /\ requiredReals(b) = Times(s, 1 .. n)
<1> DEFINE n == Len(b.shape)
           s == [q \in DOMAIN b.bbox |-> size(b.bbox[q])]
           x == [d \in 1 .. n |-> e[d] - b.bbox[d].start]
<1>1. n \in Nat \ {0} /\ IsBox(b.bbox, n)
  BY ShapeLength DEF DenseBase
<1>2. DOMAIN b.bbox = 1 .. n /\ Positions(1 .. n) /\ Naturals(1 .. n, s)
  BY <1>1, BoxDigits
<1>3. DigitsOf(1 .. n, s, x)
  <2> SUFFICES ASSUME NEW d \in 1 .. n PROVE x[d] \in Nat /\ x[d] < s[d]
    BY DEF DigitsOf
  <2>1. IsRange(b.bbox[d]) /\ e[d] \in Numbers(b.bbox[d])
    BY <1>1 DEF IsBox, InBox
  <2>2. s[d] = size(b.bbox[d]) /\ x[d] = e[d] - b.bbox[d].start
    BY <1>2
  <2> QED BY <2>1, <2>2 DEF IsRange, Numbers, size
<1>4. \A d \in 1 .. n : b.stride[d] = Scale(s, 1 .. n, d)
  BY <1>2 DEF DenseBase, Strides
<1>5. DenseAddress(b, e) = Number(s, 1 .. n, x)
  <2>1. \A d \in 1 .. n : (e[d] - b.bbox[d].start) * b.stride[d] = Scale(s, 1 .. n, d) * x[d]
    <3> SUFFICES ASSUME NEW d \in 1 .. n
                 PROVE  (e[d] - b.bbox[d].start) * b.stride[d] = Scale(s, 1 .. n, d) * x[d]
      OBVIOUS
    <3> DEFINE w == Scale(s, 1 .. n, d)
               k == e[d] - b.bbox[d].start
    <3>1. b.stride[d] = w /\ x[d] = k
      BY <1>4
    <3>2. w \in Nat /\ k \in Nat
      <4>1. \A q \in 1 .. n : x[q] \in Nat
        BY <1>3 DEF DigitsOf
      <4> HIDE DEF s
      <4>2. Naturals(1 .. n, x)
        BY <4>1 DEF Naturals
      <4> HIDE DEF x
      <4>3. w \in Nat
        BY <1>2, <4>2, NumberNat
      <4> QED BY <3>1, <4>1, <4>3
    <3> HIDE DEF w, k, s, x
    <3>3. k * w = w * k
      BY <3>2
    <3> QED BY <3>1, <3>3 DEF w, k
  <2>2. [d \in 1 .. n |-> (e[d] - b.bbox[d].start) * b.stride[d]] = [d \in 1 .. n |-> Scale(s, 1 .. n, d) * x[d]]
    <3> HIDE DEF s, x
    <3> QED BY <2>1
  <2> QED BY <1>2, <2>2 DEF DenseAddress, Number
<1>6. requiredReals(b) = Times(s, 1 .. n)
  <2>1. Len(b.bbox) = n /\ Len(b.stride) = n
    BY <1>1, <1>2 DEF IsBox, DenseBase, Strides
  <2>2. requiredReals(b) = s[n] * Scale(s, 1 .. n, n)
    <3>1. n \in 1 .. n
      BY <1>1
    <3>2. Last(b.bbox) = b.bbox[n] /\ Last(b.stride) = b.stride[n]
      BY <2>1 DEF Last
    <3>3. s[n] = size(b.bbox[n]) /\ b.stride[n] = Scale(s, 1 .. n, n)
      BY <1>2, <1>4, <3>1
    <3> QED BY <3>2, <3>3 DEF requiredReals, DenseBase
  <2>3. {q \in 1 .. n : q < n} = (1 .. n) \ {n} /\ n \in 1 .. n
    BY <1>1
  <2> HIDE DEF s
  <2>4. Times(s, 1 .. n) = s[n] * Times(s, (1 .. n) \ {n})
    BY <1>2, <2>3, TimesStep DEF Positions
  <2> QED BY <2>2, <2>3, <2>4 DEF Scale
<1> QED BY <1>3, <1>5, <1>6

LEMMA DenseApart ==
  ASSUME NEW b, DenseBase(b), NEW e, InBox(b, e), NEW f, InBox(b, f)
  PROVE  /\ DenseAddress(b, e) \in 0 .. requiredReals(b) - 1
         /\ requiredReals(b) \in Nat
         /\ DenseAddress(b, e) = DenseAddress(b, f) => \A d \in 1 .. Len(b.shape) : e[d] = f[d]
<1> DEFINE n == Len(b.shape)
           s == [q \in DOMAIN b.bbox |-> size(b.bbox[q])]
           x == [d \in 1 .. n |-> e[d] - b.bbox[d].start]
           y == [d \in 1 .. n |-> f[d] - b.bbox[d].start]
<1>1. /\ DigitsOf(1 .. n, s, x) /\ DigitsOf(1 .. n, s, y)
      /\ DenseAddress(b, e) = Number(s, 1 .. n, x) /\ DenseAddress(b, f) = Number(s, 1 .. n, y)
      /\ requiredReals(b) = Times(s, 1 .. n)
  BY DenseNumber
<1>2. Positions(1 .. n) /\ Naturals(1 .. n, s) /\ n \in Nat
  BY ShapeLength, BoxDigits DEF DenseBase
<1>3. \A d \in 1 .. n : x[d] = y[d] => e[d] = f[d]
  <2> SUFFICES ASSUME NEW d \in 1 .. n, e[d] - b.bbox[d].start = f[d] - b.bbox[d].start PROVE e[d] = f[d]
    OBVIOUS
  <2>1. b.bbox[d].start \in Nat /\ b.bbox[d].stop \in Nat
    BY DEF DenseBase, IsBox, IsRange
  <2>2. e[d] \in Int /\ f[d] \in Int
    BY <2>1 DEF Numbers, InBox
  <2> QED BY <2>1, <2>2
<1>4. Naturals(1 .. n, x)
  BY <1>1 DEF DigitsOf, Naturals
<1> HIDE DEF s, x, y
<1>5. Number(s, 1 .. n, x) \in Nat /\ Number(s, 1 .. n, x) < Times(s, 1 .. n) /\ Times(s, 1 .. n) \in Nat
  BY <1>1, <1>2, <1>4, NumberNat, NumberBelow, TimesStep DEF Positions
<1>6. Number(s, 1 .. n, x) = Number(s, 1 .. n, y) => \A d \in 1 .. n : x[d] = y[d]
  BY <1>1, <1>2, NumberUnique
<1> QED BY <1>1, <1>3, <1>5, <1>6

LEMMA ShapeInts ==
  ASSUME NEW lay, Viewable(lay), NEW d \in 1 .. Len(lay.base.shape)
  PROVE  shapeOf(lay)[d] \in Int
<1>1. PICK h : Solves(h, Len(lay.views), [1 .. Len(lay.base.shape) -> Int], lay.base.shape,
                 [q \in (1 .. Len(lay.views)) \X [1 .. Len(lay.base.shape) -> Int] |->
                    [q[2] EXCEPT ![lay.views[q[1]].index] = lay.views[q[1]].stop - lay.views[q[1]].start]])
               /\ h[Len(lay.views)] = shapeOf(lay)
  BY ShapeFolds
<1>2. Len(lay.views) \in 0 .. Len(lay.views)
  BY DEF Viewable
<1>3. shapeOf(lay) \in [1 .. Len(lay.base.shape) -> Int]
  BY <1>1, <1>2 DEF Solves
<1> QED BY <1>3

LEMMA ZeroSum ==
  ASSUME NEW S, IsFiniteSet(S), NEW s, Naturals(S, s), \A x \in S : s[x] = 0
  PROVE  SumFunction(Part(s, S)) = 0
<1>1. \A x \in S : s[x] = 0 * s[x]
  BY DEF Naturals
<1>2. SumFunction(Part(s, S)) = 0 * SumFunction(Part(s, S))
  BY <1>1, SumScaled
<1>3. SumFunction(Part(s, S)) \in Nat
  BY PartStep
<1> HIDE DEF Naturals
<1> QED BY <1>2, <1>3

\* The addends of Shift.
shifts(lay, d) ==
  [k \in 1 .. Len(lay.views) |-> IF lay.views[k].index = d THEN lay.views[k].start ELSE 0]

LEMMA ShiftOk ==
  ASSUME NEW lay, Viewable(lay), NEW d
  PROVE  /\ Shift(lay, d) = SumFunction(shifts(lay, d))
         /\ Naturals(1 .. Len(lay.views), shifts(lay, d))
         /\ Shift(lay, d) \in Nat
         /\ d \notin Viewed(lay) => Shift(lay, d) = 0
<1> DEFINE m == Len(lay.views)
           s == shifts(lay, d)
<1>1. DOMAIN lay.views = 1 .. m /\ m \in Nat /\ \A k \in 1 .. m : lay.views[k].start \in Nat
  BY DEF Viewable
<1>2. IsFiniteSet(1 .. m)
  BY <1>1, FS_Interval
<1>3. Shift(lay, d) = SumFunction(s) /\ DOMAIN s = 1 .. m /\ Naturals(1 .. m, s) /\ s = Part(s, 1 .. m)
  BY <1>1 DEF Shift, shifts, Naturals, Part
<1>4. d \notin Viewed(lay) => \A k \in 1 .. m : s[k] = 0
  BY <1>1 DEF Viewed, Views, shifts
<1> HIDE DEF s, m
<1>5. SumFunction(s) \in Nat
  BY <1>2, <1>3, SumStep
<1>6. ASSUME \A k \in 1 .. m : s[k] = 0 PROVE SumFunction(s) = 0
  <2>1. SumFunction(Part(s, 1 .. m)) = 0
    BY <1>2, <1>3, <1>6, ZeroSum
  <2> QED BY <1>3, <2>1
<1> QED BY <1>3, <1>4, <1>5, <1>6 DEF s, m

LEMMA PairBounds ==
  ASSUME NEW a \in Int, NEW b \in Int
  PROVE  /\ Max({a, b}) \in {a, b} /\ a <= Max({a, b}) /\ b <= Max({a, b})
         /\ Min({a, b}) \in {a, b} /\ Min({a, b}) <= a /\ Min({a, b}) <= b
<1>1. IsFiniteSet({a, b})
  <2>1. IsFiniteSet({a})
    BY FS_Singleton
  <2>2. {a} \cup {b} = {a, b}
    OBVIOUS
  <2> QED BY <2>1, <2>2, FS_AddElement
<1>2. Max({a, b}) \in {a, b} /\ \A x \in {a, b} : x <= Max({a, b})
  <2>1. {a, b} \subseteq Int /\ {a, b} # {}
    OBVIOUS
  <2> QED BY <1>1, <2>1, MaxOk
<1>3. Min({a, b}) \in {a, b} /\ \A x \in {a, b} : Min({a, b}) <= x
  <2>1. \E x \in {a, b} : \A y \in {a, b} : x <= y
    <3>1. CASE a <= b
      BY <3>1
    <3>2. CASE b <= a
      BY <3>2
    <3> QED BY <3>1, <3>2
  <2> QED BY <2>1 DEF Min
<1> QED BY <1>2, <1>3

\* The shift moves the part that is held into the storage.
LEMMA HeldRange ==
  ASSUME NEW lay, Viewable(lay), NEW d \in 1 .. Len(lay.base.shape)
  PROVE  LET h == Held(lay, d)
             r == lay.base.bbox[d]
         IN  /\ h.start \in Int /\ h.stop \in Int /\ r.start \in Nat /\ r.stop \in Nat
             /\ Shift(lay, d) \in Nat
             /\ r.start <= h.start + Shift(lay, d) /\ h.stop + Shift(lay, d) <= r.stop
<1> DEFINE r == lay.base.bbox[d]
           s == Shift(lay, d)
           n == shapeOf(lay)[d]
           h == Held(lay, d)
<1>1. r.start \in Nat /\ r.stop \in Nat
  BY DEF Viewable
<1>2. s \in Nat
  BY ShiftOk
<1>3. CASE d \notin Viewed(lay)
  <2>1. s = 0 /\ h = r
    BY <1>3, ShiftOk DEF Held
  <2> HIDE DEF s, r, h
  <2> QED BY <1>1, <2>1 DEF s, r, h
<1>4. CASE d \in Viewed(lay)
  <2>1. h.start = Max({r.start - s, 0}) /\ h.stop = Min({r.stop - s, n})
    BY <1>4 DEF Held, Interval
  <2>2. n \in Int
    BY ShapeInts
  <2> DEFINE a == r.start - s
             c == r.stop - s
  <2>3. a \in Int /\ c \in Int /\ 0 \in Int
    BY <1>1, <1>2
  <2>4. h.start = Max({a, 0}) /\ h.stop = Min({c, n})
    BY <2>1
  <2> HIDE DEF a, c, n, h
  <2>5. Max({a, 0}) \in {a, 0} /\ a <= Max({a, 0})
    BY <2>3, PairBounds
  <2>6. Min({c, n}) \in {c, n} /\ Min({c, n}) <= c
    BY <2>2, <2>3, PairBounds
  <2>7. h.start \in Int /\ h.stop \in Int /\ a <= h.start /\ h.stop <= c
    BY <2>2, <2>3, <2>4, <2>5, <2>6
  <2> HIDE DEF r, s
  <2>8. a + s = r.start /\ c + s = r.stop
    BY <1>1, <1>2 DEF a, c
  <2> QED BY <1>1, <1>2, <2>3, <2>7, <2>8 DEF r, s, h
<1> QED BY <1>3, <1>4

LEMMA HeldInBox ==
  ASSUME NEW lay, Viewable(lay), NEW d \in 1 .. Len(lay.base.shape), NEW k \in Numbers(Held(lay, d))
  PROVE  k \in Int /\ k + Shift(lay, d) \in Numbers(lay.base.bbox[d])
<1> DEFINE r == lay.base.bbox[d]
           s == Shift(lay, d)
           h == Held(lay, d)
<1>1. /\ h.start \in Int /\ h.stop \in Int /\ r.start \in Nat /\ r.stop \in Nat
      /\ s \in Nat /\ r.start <= h.start + s /\ h.stop + s <= r.stop
  BY HeldRange
<1>2. k \in h.start .. h.stop - 1
  BY DEF Numbers
<1> HIDE DEF r, s, h
<1>3. k \in Int /\ k + s \in r.start .. r.stop - 1
  BY <1>1, <1>2
<1> QED BY <1>3 DEF Numbers, r, s

-----------------------------------------------------------------------------
(* The columns of a sparse matrix *)

\* What the loop of ColPointer knows after some of the nonzeros.
Pointers(columns) == [ptr : [0 .. columns -> Int], last : Int]
Pointed(nz, columns, c, k) ==
  [ptr  |-> [j \in 0 .. columns |-> IF c.last < j /\ j <= nz[k][2] THEN k - 1 ELSE c.ptr[j]],
   last |-> nz[k][2]]
NoPointers(columns) == [ptr |-> [j \in 0 .. columns |-> 0], last |-> 0]

HasColumns(nz, n) == DOMAIN nz = 1 .. n /\ Len(nz) = n /\ \A k \in 1 .. n : nz[k][2] \in Nat

LEMMA PointerFolds ==
  ASSUME NEW n \in Nat, NEW columns \in Nat, NEW nz, HasColumns(nz, n)
  PROVE  LET step == [q \in (1 .. n) \X Pointers(columns) |-> Pointed(nz, columns, q[2], q[1])]
         IN  \E h : /\ Solves(h, n, Pointers(columns), NoPointers(columns), step)
                    /\ ColPointer(nz, columns)
                         = [j \in 0 .. columns |-> IF j > h[n].last THEN n ELSE h[n].ptr[j]]
<1> DEFINE T == Pointers(columns)
           base == NoPointers(columns)
           seq == [i \in DOMAIN nz |-> i]
           op(c, k) == [ptr  |-> [j \in DOMAIN c.ptr |->
                                    IF c.last < j /\ j <= nz[k][2] THEN k - 1 ELSE c.ptr[j]],
                        last |-> nz[k][2]]
           step == [q \in (1 .. n) \X T |-> Pointed(nz, columns, q[2], q[1])]
           Eqn(f) == f = [t \in SUBSET DOMAIN seq |->
                            IF t = {} THEN base ELSE LET x == Max(t) IN op(f[t \ {x}], seq[x])]
           iter == CHOOSE f : Eqn(f)
           end == iter[DOMAIN seq]
<1>0. DOMAIN nz = 1 .. n /\ Len(nz) = n /\ (\A k \in 1 .. n : nz[k][2] \in Nat) /\ IsFiniteSet(1 .. n)
  BY FS_Interval DEF HasColumns
<1>1. ColPointer(nz, columns) = [j \in 0 .. columns |-> IF j > end.last THEN Len(nz) ELSE end.ptr[j]]
  BY DEF ColPointer, FoldLeftDomain, FoldLeft, MapThenFoldSet, NoPointers
<1>2. DOMAIN seq = 1 .. n /\ \A k \in 1 .. n : seq[k] = k
  BY <1>0
<1>3. base \in T
  BY DEF NoPointers, Pointers
<1>4. ASSUME NEW c \in T, NEW k \in 1 .. n PROVE op(c, k) = Pointed(nz, columns, c, k) /\ op(c, k) \in T
  <2>1. DOMAIN c.ptr = 0 .. columns /\ c.last \in Int /\ \A j \in 0 .. columns : c.ptr[j] \in Int
    BY DEF Pointers
  <2> DEFINE p == [j \in 0 .. columns |-> IF c.last < j /\ j <= nz[k][2] THEN k - 1 ELSE c.ptr[j]]
  <2>2. p \in [0 .. columns -> Int]
    BY <2>1
  <2>3. op(c, k) = [ptr |-> p, last |-> nz[k][2]]
    BY <2>1
  <2>4. Pointed(nz, columns, c, k) = [ptr |-> p, last |-> nz[k][2]]
    BY DEF Pointed
  <2> HIDE DEF p
  <2>5. [ptr |-> p, last |-> nz[k][2]] \in T
    BY <1>0, <2>2 DEF Pointers
  <2> QED BY <2>3, <2>4, <2>5
<1>5. step \in StepFunctions(n, T)
  <2>1. \A q \in (1 .. n) \X T : Pointed(nz, columns, q[2], q[1]) \in T
    <3> HIDE DEF op
    <3> QED BY <1>4
  <2> QED BY <2>1 DEF StepFunctions
<1> HIDE DEF T, base, seq, op
<1>6. ASSUME NEW f, NEW t \in SUBSET (1 .. n), t # {}, f[t \ {Max(t)}] \in T
      PROVE  /\ op(f[t \ {Max(t)}], seq[Max(t)]) = step[<<Max(t), f[t \ {Max(t)}]>>]
             /\ op(f[t \ {Max(t)}], seq[Max(t)]) \in T
  <2>1. Max(t) \in 1 .. n
    BY <1>6, GreatestOf
  <2> DEFINE c == f[t \ {Max(t)}]
  <2> HIDE DEF c
  <2>2. step[<<Max(t), c>>] = Pointed(nz, columns, c, Max(t))
    BY <1>6, <2>1 DEF c
  <2>3. op(c, Max(t)) = Pointed(nz, columns, c, Max(t)) /\ op(c, Max(t)) \in T
    BY <1>4, <1>6, <2>1 DEF c
  <2> QED BY <1>2, <2>1, <2>2, <2>3 DEF c
<1> HIDE DEF step
<1>7. ASSUME NEW f \in [SUBSET (1 .. n) -> T] PROVE Eqn(f) <=> LeftFold(f, n, base, step)
  <2> DEFINE a(t) == IF t = {} THEN base ELSE op(f[t \ {Max(t)}], seq[Max(t)])
  <2>1. \A t \in SUBSET (1 .. n) : a(t) = Turn(f, t, base, step)
    BY <1>6 DEF Turn
  <2>2. Eqn(f) <=> f = [t \in SUBSET (1 .. n) |-> a(t)]
    BY <1>2
  <2> HIDE DEF a, Eqn
  <2> QED BY <2>1, <2>2 DEF LeftFold
<1>8. PICK f \in [SUBSET (1 .. n) -> T] : LeftFold(f, n, base, step)
  BY <1>3, <1>5, LeftFoldExists
<1>9. Eqn(iter)
  <2>1. Eqn(f)
    BY <1>7, <1>8
  <2> HIDE DEF Eqn
  <2> QED BY <2>1
<1> HIDE DEF iter
<1>10. iter \in [SUBSET (1 .. n) -> T]
  <2> DEFINE P == {t \in SUBSET (1 .. n) : iter[t] \in T}
  <2>1. /\ iter = [t \in SUBSET (1 .. n) |-> iter[t]]
        /\ iter[{}] = base
        /\ \A t \in (SUBSET (1 .. n)) \ {{}} : iter[t] = op(iter[t \ {Max(t)}], seq[Max(t)])
    <3>1. {} \in SUBSET (1 .. n)
      OBVIOUS
    <3> QED BY <1>2, <1>9, <3>1
  <2>2. {} \in P
    BY <1>3, <2>1
  <2>3. ASSUME NEW t \in SUBSET (1 .. n), t # {}, \A x \in t : t \ {x} \in P PROVE t \in P
    <3>1. Max(t) \in t
      BY <2>3, GreatestOf
    <3>2. iter[t \ {Max(t)}] \in T
      BY <2>3, <3>1
    <3>3. op(iter[t \ {Max(t)}], seq[Max(t)]) \in T
      BY <1>6, <2>3, <3>2
    <3> QED BY <2>1, <2>3, <3>3
  <2> HIDE DEF P
  <2> HIDE DEF Eqn
  <2>5. SUBSET (1 .. n) \subseteq P
    <3>1. IsFiniteSet(1 .. n)
      BY <1>0
    <3> QED BY <2>2, <2>3, <3>1, FiniteSetInduction
  <2> QED BY <2>1, <2>5 DEF P
<1>11. LeftFold(iter, n, base, step)
  <2> HIDE DEF Eqn
  <2> QED BY <1>7, <1>9, <1>10
<1>12. \E h : Solves(h, n, T, base, step) /\ h[n] = iter[1 .. n]
  BY <1>3, <1>5, <1>11, LeftFoldSolves
<1>13. PICK h : Solves(h, n, T, base, step) /\ h[n] = iter[1 .. n]
  BY <1>12
<1>14. end = h[n]
  BY <1>2, <1>13
<1> HIDE DEF end
<1>15. ColPointer(nz, columns) = [j \in 0 .. columns |-> IF j > h[n].last THEN n ELSE h[n].ptr[j]]
  BY <1>0, <1>1, <1>14
<1> QED BY <1>13, <1>15 DEF T, base, step

\* Nonzeros that come column by column.
ByColumn(nz, n) == \A k, l \in 1 .. n : k < l => nz[k][2] <= nz[l][2]

\* The pointer of a column counts the nonzeros in the columns before it.
LEMMA PointersCount ==
  ASSUME NEW n \in Nat, NEW columns \in Nat, NEW nz, HasColumns(nz, n), ByColumn(nz, n)
  PROVE  LET ptr == ColPointer(nz, columns)
         IN  /\ DOMAIN ptr = 0 .. columns
             /\ \A j \in 0 .. columns : /\ ptr[j] \in 0 .. n
                                       /\ \A l \in 1 .. n : l <= ptr[j] <=> nz[l][2] < j
<1> DEFINE T == Pointers(columns)
           step == [q \in (1 .. n) \X T |-> Pointed(nz, columns, q[2], q[1])]
<1>1. PICK h : /\ Solves(h, n, T, NoPointers(columns), step)
               /\ ColPointer(nz, columns) = [j \in 0 .. columns |-> IF j > h[n].last THEN n ELSE h[n].ptr[j]]
  BY PointerFolds
<1>0. \A k \in 1 .. n : nz[k][2] \in Nat
  BY DEF HasColumns
<1>2. h[0] = NoPointers(columns) /\ \A k \in 0 .. n : h[k] \in T
  BY <1>1 DEF Solves
<1>3. ASSUME NEW k \in 1 .. n
      PROVE  /\ h[k].last = nz[k][2]
             /\ \A j \in 0 .. columns :
                  h[k].ptr[j] = IF h[k - 1].last < j /\ j <= nz[k][2] THEN k - 1 ELSE h[k - 1].ptr[j]
  <2>1. k - 1 \in 0 .. n /\ h[k] = step[<<k, h[k - 1]>>] /\ h[k - 1] \in T
    <3>1. k - 1 \in 0 .. n
      OBVIOUS
    <3>2. h[k] = step[<<k, h[k - 1]>>]
      BY <1>1 DEF Solves
    <3>3. h[k - 1] \in T
      BY <1>2, <3>1
    <3> QED BY <3>1, <3>2, <3>3
  <2>2. h[k] = Pointed(nz, columns, h[k - 1], k)
    <3> HIDE DEF T
    <3> QED BY <2>1
  <2> QED BY <2>2 DEF Pointed
<1> DEFINE Counts(k) ==
             /\ h[k].last \in Nat
             /\ \A l \in 1 .. k : nz[l][2] <= h[k].last
             /\ k = 0 => h[k].last = 0
             /\ k > 0 => h[k].last = nz[k][2]
             /\ \A j \in 0 .. columns :
                  j <= h[k].last => /\ h[k].ptr[j] \in 0 .. k
                                    /\ \A l \in 1 .. k : l <= h[k].ptr[j] <=> nz[l][2] < j
           P == {k \in Nat : k <= n => Counts(k)}
<1> HIDE DEF step, T
<1>4. 0 \in P
  <2>1. h[0].last = 0 /\ \A j \in 0 .. columns : h[0].ptr[j] = 0
    BY <1>2 DEF NoPointers
  <2> QED BY <2>1
<1>5. ASSUME NEW k \in Nat, k \in P PROVE k + 1 \in P
  <2> SUFFICES ASSUME k + 1 <= n PROVE Counts(k + 1)
    OBVIOUS
  <2>1. k + 1 \in 1 .. n /\ (k + 1) - 1 = k /\ k <= n
    OBVIOUS
  <2> DEFINE c == nz[k + 1][2]
             old == h[k].last
  <2>2. /\ h[k + 1].last = c
        /\ \A j \in 0 .. columns :
             h[k + 1].ptr[j] = IF old < j /\ j <= c THEN k ELSE h[k].ptr[j]
    BY <1>3, <2>1
  <2>3. /\ c \in Nat /\ old \in Nat
        /\ \A l \in 1 .. k : nz[l][2] <= old
        /\ \A j \in 0 .. columns :
             j <= old => /\ h[k].ptr[j] \in 0 .. k
                         /\ \A l \in 1 .. k : l <= h[k].ptr[j] <=> nz[l][2] < j
    BY <1>0, <1>5, <2>1
  <2>4. old <= c
    <3>1. CASE k = 0
      BY <1>5, <2>3, <3>1
    <3>2. CASE k > 0
      <4>1. k \in 1 .. n /\ old = nz[k][2]
        BY <1>5, <2>1, <3>2
      <4> QED BY <2>1, <4>1 DEF ByColumn
    <3> QED BY <3>1, <3>2
  <2>5. \A l \in 1 .. k : nz[l][2] \in Nat
    BY <1>0, <2>1
  <2>6. \A l \in 1 .. k + 1 : l = k + 1 \/ l \in 1 .. k
    OBVIOUS
  <2>7. \A l \in 1 .. k + 1 : nz[l][2] <= h[k + 1].last
    BY <2>2, <2>3, <2>4, <2>5, <2>6
  <2>8. ASSUME NEW j \in 0 .. columns, j <= c
        PROVE  /\ h[k + 1].ptr[j] \in 0 .. k + 1
               /\ \A l \in 1 .. k + 1 : l <= h[k + 1].ptr[j] <=> nz[l][2] < j
    <3> HIDE DEF old
    <3>1. CASE j <= old
      <4>1. h[k + 1].ptr[j] = h[k].ptr[j]
        BY <2>2, <2>3, <3>1
      <4>2. h[k].ptr[j] \in 0 .. k /\ \A l \in 1 .. k : l <= h[k].ptr[j] <=> nz[l][2] < j
        BY <2>3, <3>1
      <4>3. ~ k + 1 <= h[k].ptr[j] /\ ~ c < j
        BY <2>3, <4>2, <2>8
      <4> QED BY <2>6, <4>1, <4>2, <4>3
    <3>2. CASE old < j
      <4>1. h[k + 1].ptr[j] = k
        BY <2>2, <2>8, <3>2
      <4>2. \A l \in 1 .. k : nz[l][2] < j
        BY <2>3, <2>5, <3>2
      <4>3. ~ c < j /\ ~ k + 1 <= k
        BY <2>3, <2>8
      <4> QED BY <2>6, <4>1, <4>2, <4>3
    <3> QED BY <2>3, <3>1, <3>2
  <2> QED BY <2>1, <2>2, <2>3, <2>7, <2>8
<1> HIDE DEF P, Counts
<1>6. Counts(n)
  <2>1. n \in P
    BY <1>4, <1>5, NatSetInduction
  <2> QED BY <2>1 DEF P
<1>7. ASSUME NEW j \in 0 .. columns
      PROVE  LET p == IF j > h[n].last THEN n ELSE h[n].ptr[j]
             IN  p \in 0 .. n /\ \A l \in 1 .. n : l <= p <=> nz[l][2] < j
  <2>1. h[n].last \in Nat /\ \A l \in 1 .. n : nz[l][2] <= h[n].last
    BY <1>6 DEF Counts
  <2>2. CASE j > h[n].last
    <3>1. \A l \in 1 .. n : l <= n /\ nz[l][2] < j
      BY <1>0, <2>1, <2>2
    <3> QED BY <2>2, <3>1
  <2>3. CASE j <= h[n].last
    <3>1. h[n].ptr[j] \in 0 .. n /\ \A l \in 1 .. n : l <= h[n].ptr[j] <=> nz[l][2] < j
      BY <1>6, <2>3 DEF Counts
    <3>2. ~ j > h[n].last
      BY <2>1, <2>3
    <3> QED BY <3>1, <3>2
  <2> QED BY <2>1, <2>2, <2>3
<1> QED BY <1>1, <1>7

\* The order of the nonzeros, column by column.
Precedes(y, x) == y[2] < x[2] \/ (y[2] = x[2] /\ y[1] < x[1])
Before(S, x)   == {y \in S : Precedes(y, x)}
Sorted(S)      == [k \in 1 .. Cardinality(S) |-> CHOOSE x \in S : Cardinality(Before(S, x)) = k - 1]

Pairs(S) == IsFiniteSet(S) /\ S \subseteq Nat \X Nat

LEMMA PrecedesOrder ==
  ASSUME NEW x \in Nat \X Nat, NEW y \in Nat \X Nat, NEW z \in Nat \X Nat
  PROVE  /\ ~ Precedes(x, x)
         /\ Precedes(x, y) /\ Precedes(y, z) => Precedes(x, z)
         /\ x = y \/ Precedes(x, y) \/ Precedes(y, x)
         /\ ~ (Precedes(x, y) /\ Precedes(y, x))
BY DEF Precedes

LEMMA RanksGrow ==
  ASSUME NEW S, Pairs(S), NEW x \in S, NEW y \in S
  PROVE  /\ Cardinality(Before(S, x)) \in 0 .. Cardinality(S) - 1
         /\ Precedes(x, y) <=> Cardinality(Before(S, x)) < Cardinality(Before(S, y))
<1>1. ASSUME NEW u \in S PROVE IsFiniteSet(Before(S, u)) /\ Cardinality(Before(S, u)) \in Nat
  <2>1. Before(S, u) \in SUBSET S
    BY DEF Before
  <2>2. IsFiniteSet(Before(S, u))
    BY <2>1, FS_Subset DEF Pairs
  <2> QED BY <2>2, FS_CardinalityType
<1>2. IsFiniteSet(S) /\ Cardinality(S) \in Nat
  BY FS_CardinalityType DEF Pairs
<1>3. ASSUME NEW u \in S, NEW v \in S, Precedes(u, v)
      PROVE  Cardinality(Before(S, u)) < Cardinality(Before(S, v))
  <2>1. Before(S, u) \in SUBSET Before(S, v)
    <3>1. \A w \in S : Precedes(w, u) => Precedes(w, v)
      BY <1>3, PrecedesOrder DEF Pairs
    <3> QED BY <3>1 DEF Before
  <2>2. u \in Before(S, v) /\ u \notin Before(S, u)
    BY <1>3, PrecedesOrder DEF Before, Pairs
  <2>3. Cardinality(Before(S, u)) <= Cardinality(Before(S, v))
        /\ Cardinality(Before(S, u)) # Cardinality(Before(S, v))
    BY <1>1, <2>1, <2>2, FS_Subset
  <2> QED BY <1>1, <2>3
<1>4. Cardinality(Before(S, x)) < Cardinality(S)
  <2>1. Before(S, x) \in SUBSET S
    BY DEF Before
  <2>2. x \in S /\ x \notin Before(S, x)
    BY PrecedesOrder DEF Before, Pairs
  <2>3. Cardinality(Before(S, x)) <= Cardinality(S) /\ Cardinality(Before(S, x)) # Cardinality(S)
    BY <1>2, <2>1, <2>2, FS_Subset
  <2> QED BY <1>1, <1>2, <2>3
<1>5. Precedes(x, y) <=> Cardinality(Before(S, x)) < Cardinality(Before(S, y))
  <2>1. x = y \/ Precedes(x, y) \/ Precedes(y, x)
    BY PrecedesOrder DEF Pairs
  <2>2. Cardinality(Before(S, x)) \in Nat /\ Cardinality(Before(S, y)) \in Nat
    BY <1>1
  <2> QED BY <1>3, <2>1, <2>2
<1> QED BY <1>1, <1>2, <1>4, <1>5

\* The members of S in their order, each once.
Listed(S, nz, n) ==
  /\ n \in Nat /\ DOMAIN nz = 1 .. n /\ nz = [k \in 1 .. n |-> nz[k]] /\ Len(nz) = n
  /\ \A k \in 1 .. n : nz[k] \in S
  /\ \A x \in S : \E k \in 1 .. n : nz[k] = x
  /\ \A k, l \in 1 .. n : k < l => Precedes(nz[k], nz[l])

LEMMA SortedLists ==
  ASSUME NEW S, Pairs(S)
  PROVE  Listed(S, Sorted(S), Cardinality(S))
<1> DEFINE n == Cardinality(S)
           nz == Sorted(S)
           rank == [x \in S |-> Cardinality(Before(S, x))]
<1>1. IsFiniteSet(S) /\ n \in Nat
  BY FS_CardinalityType DEF Pairs
<1>2. rank \in [S -> 0 .. n - 1]
  BY RanksGrow
<1>3. \A x, y \in S : rank[x] = rank[y] => x = y
  <2> SUFFICES ASSUME NEW x \in S, NEW y \in S, rank[x] = rank[y] PROVE x = y
    OBVIOUS
  <2>1. ~ Precedes(x, y) /\ ~ Precedes(y, x)
    <3>1. Precedes(x, y) <=> rank[x] < rank[y]
      BY RanksGrow
    <3>2. Precedes(y, x) <=> rank[y] < rank[x]
      BY RanksGrow
    <3>3. rank[x] \in 0 .. n - 1 /\ rank[y] \in 0 .. n - 1
      BY <1>2
    <3> HIDE DEF rank, n
    <3> QED BY <1>1, <3>1, <3>2, <3>3
  <2> QED BY <2>1, PrecedesOrder DEF Pairs
<1> HIDE DEF rank
<1>4. rank \in Surjection(S, 0 .. n - 1)
  <2>1. rank \in Injection(S, 0 .. n - 1)
    BY <1>2, <1>3, Fun_IsInj
  <2>2. IsFiniteSet(0 .. n - 1) /\ Cardinality(0 .. n - 1) = n
    <3>1. 0 \in Int /\ n - 1 \in Int
      BY <1>1
    <3> HIDE DEF n
    <3>2. IsFiniteSet(0 .. n - 1) /\ Cardinality(0 .. n - 1) = IF 0 > n - 1 THEN 0 ELSE (n - 1) - 0 + 1
      BY <3>1, FS_Interval
    <3> QED BY <1>1, <3>2
  <2> QED BY <2>1, <2>2, FS_Injection
<1>5. \A k \in 0 .. n - 1 : \E x \in S : rank[x] = k
  <2> DEFINE N == 0 .. n - 1
  <2>1. rank \in Surjection(S, N)
    BY <1>4
  <2> HIDE DEF N
  <2>2. \A k \in N : \E x \in S : rank[x] = k
    BY <2>1, Fun_SurjectionProperties, Zenon
  <2> QED BY <2>2 DEF N
<1>6. ASSUME NEW k \in 1 .. n PROVE nz[k] \in S /\ rank[nz[k]] = k - 1
  <2>1. k - 1 \in 0 .. n - 1
    BY <1>1
  <2>2. \E x \in S : Cardinality(Before(S, x)) = k - 1
    BY <1>5, <2>1 DEF rank
  <2>3. nz[k] \in S /\ Cardinality(Before(S, nz[k])) = k - 1
    BY <2>2 DEF Sorted
  <2> QED BY <2>3 DEF rank
<1>7. \A x \in S : \E k \in 1 .. n : nz[k] = x
  <2> SUFFICES ASSUME NEW x \in S PROVE \E k \in 1 .. n : nz[k] = x
    OBVIOUS
  <2>1. rank[x] + 1 \in 1 .. n /\ (rank[x] + 1) - 1 = rank[x]
    BY <1>1, <1>2
  <2>2. nz[rank[x] + 1] = x
    BY <1>3, <1>6, <2>1
  <2> QED BY <2>1, <2>2
<1>8. ASSUME NEW k \in 1 .. n, NEW l \in 1 .. n, k < l PROVE Precedes(nz[k], nz[l])
  <2>1. rank[nz[k]] < rank[nz[l]]
    BY <1>1, <1>6, <1>8
  <2> QED BY <1>6, <2>1, RanksGrow DEF rank
<1>9. DOMAIN nz = 1 .. n /\ nz = [k \in 1 .. n |-> nz[k]] /\ Len(nz) = n
  <2>1. nz = [k \in 1 .. n |-> nz[k]]
    BY DEF Sorted
  <2> HIDE DEF nz, n
  <2> QED BY <1>1, <2>1
<1> QED BY <1>1, <1>6, <1>7, <1>8, <1>9 DEF Listed

LEMMA StoredPairs ==
  ASSUME NEW s, IsShape(s), Len(s) = 2, NEW spp, IsPattern(spp, s), NEW a \in BOOLEAN
  PROVE  Pairs(StoredOf(spp, a)) /\ \A x \in StoredOf(spp, a) : x[2] \in 0 .. s[2] - 1
<1> DEFINE A == AlignedReals
           M == 0 .. s[1] + A
           N == 0 .. s[2] - 1
<1>1. s[1] \in Nat /\ s[2] \in Nat /\ A \in Nat \ {0}
  BY ShapeLength, AlignmentAssumption
<1>2. IsFiniteSet(M) /\ IsFiniteSet(N)
  <2>1. 0 \in Int /\ s[1] + A \in Int /\ s[2] - 1 \in Int
    BY <1>1
  <2> QED BY <2>1, FS_Interval
<1>3. spp \subseteq (0 .. s[1] - 1) \X N
  BY DEF IsPattern
<1>4. StoredOf(spp, a) \subseteq M \X N
  <2>1. CASE ~ a
    BY <1>1, <1>3, <2>1 DEF StoredOf
  <2>2. CASE a
    <3> SUFFICES ASSUME NEW x \in spp, NEW r \in alignedLower(x[1]) .. alignedLower(x[1]) + A - 1
                 PROVE  <<r, x[2]>> \in M \X N
      BY <2>2 DEF StoredOf, Blocks
    <3>1. x[1] \in Nat /\ x[1] < s[1] /\ x[2] \in N
      BY <1>1, <1>3
    <3>2. alignedLower(x[1]) \in Nat /\ alignedLower(x[1]) <= x[1]
      BY <3>1, AlignedNumbers
    <3>3. r \in M
      BY <1>1, <3>1, <3>2
    <3> QED BY <3>1, <3>3
  <2> QED BY <2>1, <2>2
<1>5. IsFiniteSet(StoredOf(spp, a))
  <2>1. IsFiniteSet(M \X N)
    BY <1>2, FS_Product
  <2> HIDE DEF M, N
  <2> QED BY <1>4, <2>1, FS_Subset
<1>6. M \X N \subseteq Nat \X Nat
  BY <1>1
<1>7. \A x \in StoredOf(spp, a) : x[2] \in N
  BY <1>4
<1> QED BY <1>4, <1>5, <1>6, <1>7 DEF Pairs

\* The storage of a sparse matrix lists its entries, column by column.
Stored(b) == StoredOf(b.spp, b.aligned)
Entries(b) == Sorted(Stored(b))
Placed(b, nz, n) ==
  /\ Listed(Stored(b), nz, n) /\ Pairs(Stored(b))
  /\ b.shape[2] \in Nat /\ \A x \in Stored(b) : x[2] \in 0 .. b.shape[2] - 1
  /\ Len(b.rowIndex) = n /\ \A k \in 1 .. n : b.rowIndex[k] = nz[k][1]
  /\ \A j \in 0 .. b.shape[2] : /\ b.colPtr[j] \in 0 .. n
                               /\ \A l \in 1 .. n : l <= b.colPtr[j] <=> nz[l][2] < j

LEMMA CscPlaced ==
  ASSUME NEW b, CscBase(b)
  PROVE  Placed(b, Entries(b), Cardinality(Stored(b)))
<1>1. PICK s, spp : \E a \in BOOLEAN :
        IsShape(s) /\ Len(s) = 2 /\ IsPattern(spp, s) /\ b = CSCLayout(s, spp, a)
  BY DEF CscBase
<1>2. PICK a \in BOOLEAN : IsShape(s) /\ Len(s) = 2 /\ IsPattern(spp, s) /\ b = CSCLayout(s, spp, a)
  BY <1>1
<1> DEFINE S == StoredOf(spp, a)
           nz == Sorted(S)
           n == Cardinality(S)
<1>3. /\ b.shape = s /\ b.spp = spp /\ b.aligned = a
      /\ b.rowIndex = [k \in DOMAIN nz |-> nz[k][1]]
      /\ b.colPtr = ColPointer(nz, s[2])
  BY <1>2 DEF CSCLayout, Sorted, Before, Precedes
<1>4. Pairs(S) /\ \A x \in S : x[2] \in 0 .. s[2] - 1
  BY <1>2, StoredPairs
<1>5. S = Stored(b)
  BY <1>3 DEF Stored
<1> HIDE DEF S
<1>6. Listed(S, nz, n)
  BY <1>4, SortedLists
<1>7. s[2] \in Nat
  BY <1>2, ShapeLength
<1>8. nz = Entries(b) /\ n = Cardinality(Stored(b))
  BY <1>5 DEF Entries
<1> HIDE DEF nz, n
<1>9. HasColumns(nz, n) /\ ByColumn(nz, n) /\ n \in Nat
  <2>1. n \in Nat /\ DOMAIN nz = 1 .. n /\ Len(nz) = n
    BY <1>6 DEF Listed
  <2>2. \A k \in 1 .. n : nz[k][2] \in Nat
    BY <1>4, <1>6 DEF Listed, Pairs
  <2>3. \A k, l \in 1 .. n : k < l => nz[k][2] <= nz[l][2]
    <3>1. \A k, l \in 1 .. n : k < l => Precedes(nz[k], nz[l])
      BY <1>6 DEF Listed
    <3> QED BY <2>2, <3>1 DEF Precedes
  <2> QED BY <2>1, <2>2, <2>3 DEF HasColumns, ByColumn
<1>10. \A j \in 0 .. s[2] : /\ ColPointer(nz, s[2])[j] \in 0 .. n
                            /\ \A l \in 1 .. n : l <= ColPointer(nz, s[2])[j] <=> nz[l][2] < j
  BY <1>7, <1>9, PointersCount
<1>11. Len(b.rowIndex) = n /\ \A k \in 1 .. n : b.rowIndex[k] = nz[k][1]
  BY <1>3, <1>9 DEF HasColumns
<1> QED BY <1>3, <1>4, <1>5, <1>6, <1>7, <1>8, <1>10, <1>11 DEF Placed

\* The places of a column, and the place of an entry.
LEMMA ColumnPlaces ==
  ASSUME NEW b, NEW nz, NEW n, Placed(b, nz, n), NEW c \in 0 .. b.shape[2] - 1
  PROVE  \A k : k \in Column(b, c) <=> k \in 1 .. n /\ nz[k][2] = c
<1>1. n \in Nat /\ b.shape[2] \in Nat
  BY DEF Placed, Listed
<1>2. c \in 0 .. b.shape[2] /\ c + 1 \in 0 .. b.shape[2] /\ c \in Nat
  BY <1>1
<1>3. /\ b.colPtr[c] \in 0 .. n /\ b.colPtr[c + 1] \in 0 .. n
      /\ \A l \in 1 .. n : /\ l <= b.colPtr[c] <=> nz[l][2] < c
                           /\ l <= b.colPtr[c + 1] <=> nz[l][2] < c + 1
  BY <1>2 DEF Placed
<1>4. \A l \in 1 .. n : nz[l][2] \in Nat
  BY DEF Placed, Listed, Pairs
<1>5. \A k : k \in Column(b, c) <=> k \in 1 .. n /\ ~ k <= b.colPtr[c] /\ k <= b.colPtr[c + 1]
  BY <1>1, <1>3 DEF Column
<1>6. \A k \in 1 .. n : ~ nz[k][2] < c /\ nz[k][2] < c + 1 <=> nz[k][2] = c
  BY <1>2, <1>4
<1> QED BY <1>3, <1>5, <1>6

LEMMA CscPlace ==
  ASSUME NEW b, NEW nz, NEW n, Placed(b, nz, n), NEW k \in 1 .. n, NEW e, e[1] = nz[k][1], e[2] = nz[k][2]
  PROVE  CSCAddress(b, e) = k - 1
<1>1. n \in Nat /\ nz[k] \in Stored(b) /\ nz[k][2] \in 0 .. b.shape[2] - 1
  BY DEF Placed, Listed
<1>2. \A l : l \in Column(b, e[2]) <=> l \in 1 .. n /\ nz[l][2] = nz[k][2]
  BY <1>1, ColumnPlaces
<1>3. \A l \in 1 .. n : b.rowIndex[l] = nz[l][1]
  BY DEF Placed
<1>4. ASSUME NEW l \in Column(b, e[2]), b.rowIndex[l] = e[1] PROVE l = k
  <2>1. l \in 1 .. n /\ nz[l][2] = nz[k][2] /\ nz[l][1] = nz[k][1]
    BY <1>2, <1>3, <1>4
  <2>2. nz[l] \in Nat \X Nat /\ nz[k] \in Nat \X Nat
    BY <2>1 DEF Placed, Listed, Pairs
  <2>3. nz[l] = nz[k]
    BY <2>1, <2>2
  <2>4. ~ Precedes(nz[k], nz[k])
    BY <2>2, PrecedesOrder
  <2>5. ~ l < k /\ ~ k < l
    BY <2>1, <2>3, <2>4 DEF Placed, Listed
  <2> QED BY <1>1, <2>1, <2>5
<1>5. k \in Column(b, e[2]) /\ b.rowIndex[k] = e[1]
  BY <1>2, <1>3
<1>6. (CHOOSE l \in Column(b, e[2]) : b.rowIndex[l] = e[1]) = k
  BY <1>4, <1>5
<1> QED BY <1>6 DEF CSCAddress

LEMMA StoredEntry ==
  ASSUME LayoutOk(term), NEW e \in StoredEntries
  PROVE  /\ e = [d \in 1 .. Len(term.base.shape) |-> e[d]]
         /\ DOMAIN relidx(term, e) = 1 .. Len(term.base.shape)
         /\ \A d \in 1 .. Len(term.base.shape) :
              /\ e[d] \in Int
              /\ relidx(term, e)[d] = e[d] + Shift(term, d)
              /\ relidx(term, e)[d] \in Numbers(term.base.bbox[d])
         /\ term.base.csc => relidx(term, e) \in Stored(term.base)
<1> DEFINE n == Len(term.base.shape)
           box == [d \in Dims |-> Held(term, d)]
<1>1. Dims = 1 .. n
  BY DimsOk
<1>2. e \in Cells(box) /\ (term.base.csc => relidx(term, e) \in Stored(term.base))
  BY DEF StoredEntries, Nonzeros, Stored
<1>3. e = [d \in 1 .. n |-> e[d]] /\ \A d \in 1 .. n : e[d] \in Numbers(Held(term, d))
  BY <1>1, <1>2 DEF Cells
<1> HIDE DEF box, n
<1>4. DOMAIN relidx(term, e) = 1 .. n /\ \A d \in 1 .. n : relidx(term, e)[d] = e[d] + Shift(term, d)
  BY <1>3 DEF relidx
<1>5. ASSUME NEW d \in 1 .. n PROVE e[d] \in Int /\ e[d] + Shift(term, d) \in Numbers(term.base.bbox[d])
  BY <1>3, HeldInBox, LayoutViewable DEF n
<1> QED BY <1>2, <1>3, <1>4, <1>5 DEF n

LEMMA EntryAddress ==
  ASSUME LayoutOk(term), NEW e \in StoredEntries, NEW f \in StoredEntries
  PROVE  /\ address(term, e) \in 0 .. requiredReals(term.base) - 1
         /\ requiredReals(term.base) \in Nat
         /\ address(term, e) = address(term, f) => e = f
<1> DEFINE n == Len(term.base.shape)
           b == term.base
           x == relidx(term, e)
           y == relidx(term, f)
<1>1. (\A d \in 1 .. n : x[d] = y[d]) => e = f
  <2> SUFFICES ASSUME \A d \in 1 .. n : x[d] = y[d] PROVE e = f
    OBVIOUS
  <2>1. ASSUME NEW d \in 1 .. n PROVE e[d] = f[d]
    <3>1. e[d] \in Int /\ f[d] \in Int /\ x[d] = e[d] + Shift(term, d) /\ y[d] = f[d] + Shift(term, d)
      BY StoredEntry
    <3>2. Shift(term, d) \in Nat
      BY ShiftOk, LayoutViewable
    <3>3. x[d] = y[d]
      OBVIOUS
    <3> HIDE DEF x, y
    <3> QED BY <3>1, <3>2, <3>3
  <2>2. e = [d \in 1 .. n |-> e[d]] /\ f = [d \in 1 .. n |-> f[d]]
    BY StoredEntry
  <2> HIDE DEF n
  <2> QED BY <2>1, <2>2
<1>2. CASE ~ b.csc
  <2>1. DenseBase(b)
    BY <1>2, BaseOk DEF LayoutOk
  <2>2. InBox(b, x) /\ InBox(b, y)
    BY StoredEntry DEF InBox
  <2>3. address(term, e) = DenseAddress(b, x) /\ address(term, f) = DenseAddress(b, y)
    BY <1>2 DEF address
  <2> HIDE DEF x, y, b
  <2>4. /\ DenseAddress(b, x) \in 0 .. requiredReals(b) - 1 /\ requiredReals(b) \in Nat
        /\ DenseAddress(b, x) = DenseAddress(b, y) => \A d \in 1 .. Len(b.shape) : x[d] = y[d]
    BY <2>1, <2>2, DenseApart DEF b
  <2> QED BY <1>1, <2>3, <2>4 DEF b
<1>3. CASE b.csc
  <2> DEFINE nz == Entries(b)
             m == Cardinality(Stored(b))
  <2>1. CscBase(b)
    BY <1>3, BaseOk DEF LayoutOk
  <2>2. x \in Stored(b) /\ y \in Stored(b)
    BY <1>3, StoredEntry
  <2>3. address(term, e) = CSCAddress(b, x) /\ address(term, f) = CSCAddress(b, y)
    BY <1>3 DEF address
  <2> HIDE DEF x, y, b
  <2>4. Placed(b, nz, m)
    BY <2>1, CscPlaced
  <2> HIDE DEF nz, m
  <2>5. PICK k \in 1 .. m, l \in 1 .. m : nz[k] = x /\ nz[l] = y
    BY <2>2, <2>4 DEF Placed, Listed
  <2>6. CSCAddress(b, x) = k - 1 /\ CSCAddress(b, y) = l - 1
    <3>1. nz[k][1] = x[1] /\ nz[k][2] = x[2] /\ nz[l][1] = y[1] /\ nz[l][2] = y[2]
      BY <2>5
    <3> QED BY <2>4, <3>1, CscPlace
  <2>7. requiredReals(b) = m /\ m \in Nat
    BY <1>3, <2>4 DEF requiredReals, Placed, Listed, b
  <2>8. k - 1 = l - 1 => x = y
    BY <2>5, <2>7
  <2> QED BY <1>1, <2>3, <2>5, <2>6, <2>7, <2>8 DEF b
<1> QED BY <1>2, <1>3

\* Different entries of a term have different addresses in its storage, dense
\* or sparse (DenseMemoryLayout and CSCMemoryLayout.address, MemoryLayoutView).
THEOREM EntriesAreStoredApart == TSpec => []StoredApart
<1>1. TermInv => StoredApart
  <2> SUFFICES ASSUME TermInv
               PROVE  /\ Cardinality(Addresses) = Cardinality(StoredEntries)
                      /\ Addresses \subseteq 0 .. requiredReals(term.base) - 1
    BY DEF StoredApart
  <2> DEFINE S == StoredEntries
             T == 0 .. requiredReals(term.base) - 1
             f == [e \in S |-> address(term, e)]
  <2>1. \A e, g \in S : f[e] \in T /\ (f[e] = f[g] => e = g)
    BY EntryAddress DEF TermInv
  <2>2. f \in [S -> T] /\ {f[e] : e \in S} = Addresses
    BY <2>1 DEF Addresses
  <2>3. Addresses \subseteq T
    BY <2>2
  <2>4. CASE S = {}
    BY <2>3, <2>4 DEF Addresses
  <2>5. CASE S # {}
    <3>1. requiredReals(term.base) \in Nat
      BY <2>5, EntryAddress DEF TermInv
    <3>2. IsFiniteSet(T)
      <4>1. 0 \in Int /\ requiredReals(term.base) - 1 \in Int
        BY <3>1
      <4> QED BY <4>1, FS_Interval
    <3> HIDE DEF S, T, f
    <3>3. Cardinality({f[e] : e \in S}) = Cardinality(S)
      BY <2>1, <2>2, <3>2, CountedApart
    <3> QED BY <2>2, <2>3, <3>3 DEF S, T
  <2> QED BY <2>4, <2>5
<1> QED BY <1>1, LayoutsCorrect, PTL

LEMMA CscColumns ==
  ASSUME NEW b, CscBase(b)
  PROVE  b.bbox[2].stop <= b.shape[2]
<1>1. PICK s, spp : \E a \in BOOLEAN :
        IsShape(s) /\ Len(s) = 2 /\ IsPattern(spp, s) /\ b = CSCLayout(s, spp, a)
  BY DEF CscBase
<1>2. PICK a \in BOOLEAN : IsShape(s) /\ Len(s) = 2 /\ IsPattern(spp, s) /\ b = CSCLayout(s, spp, a)
  BY <1>1
<1> DEFINE T == {x[2] : x \in spp}
           box == BoundingBoxOf(spp)
<1>3. b.shape = s /\ b.bbox[2] = box[2]
  <2>1. b.shape = s /\ b.bbox = IF a THEN [box EXCEPT ![1] = aligned(@)] ELSE box
    BY <1>2 DEF CSCLayout
  <2>2. DOMAIN box = 1 .. 2
    BY DEF BoundingBoxOf
  <2> HIDE DEF box
  <2> QED BY <2>1, <2>2
<1>6. T \subseteq 0 .. s[2] - 1 /\ T # {} /\ IsFiniteSet(T) /\ s[2] \in Nat
  <2>1. s[2] \in Nat
    BY <1>2, ShapeLength
  <2>2. 2 \in 1 .. 2
    OBVIOUS
  <2>3. T \subseteq 0 .. s[2] - 1 /\ T # {} /\ IsFiniteSet(T)
    BY <1>2, <2>2, PatternBounds
  <2> QED BY <2>1, <2>3
<1>4. box[2].stop = Max(T) + 1
  BY DEF BoundingBoxOf, Interval
<1> HIDE DEF T, box
<1>5. Max(T) \in 0 .. s[2] - 1
  <2>1. T \subseteq Int
    BY <1>6
  <2>2. Max(T) \in T
    BY <1>6, <2>1, MaxOk
  <2> QED BY <1>6, <2>2
<1> QED BY <1>3, <1>6, <1>4, <1>5

\* The columns of a GEMM are columns of the storage.
LEMMA PatternColumns ==
  ASSUME LayoutOk(term), CscBase(term.base), NEW cols \in Patterns(term, 2)
  PROVE  LET at == Shifted(cols, Shift(term, 2))
         IN  /\ at.start \in 0 .. term.base.shape[2] /\ at.stop \in 0 .. term.base.shape[2]
             /\ at.start < at.stop
<1> DEFINE h == Held(term, 2)
           s == Shift(term, 2)
           r == term.base.bbox[2]
           m == term.base.shape[2]
           at == Shifted(cols, s)
<1>1. Len(term.base.shape) = 2 /\ m \in Nat
  BY CscOk, ShapeLength
<1>2. /\ h.start \in Int /\ h.stop \in Int /\ r.start \in Nat /\ r.stop \in Nat
      /\ s \in Nat /\ r.start <= h.start + s /\ h.stop + s <= r.stop
  BY <1>1, HeldRange, LayoutViewable
<1>3. cols.start \in Nat /\ cols.stop \in Nat /\ cols.start < cols.stop
  BY DEF Patterns, NonEmpty, SubRanges, Interval, size
<1>4. h.start <= cols.start /\ cols.stop <= h.stop
  BY DEF Patterns, Within
<1>5. r.stop <= m
  BY CscColumns
<1>6. at.start = cols.start + s /\ at.stop = cols.stop + s
  BY DEF Shifted, Interval
<1> HIDE DEF h, s, r, m, at
<1>7. at.start \in 0 .. m /\ at.stop \in 0 .. m /\ at.start < at.stop
  BY <1>1, <1>2, <1>3, <1>4, <1>5, <1>6
<1> QED BY <1>7 DEF m, at, s

\* A sparse GEMM enumerates the nonzeros of its columns, which lie one after
\* the other (CSCMemoryLayout.entries and subtensorOffset).
THEOREM EntriesAreAddressed == TSpec => []EntriesAddressed
<1>1. TermInv => EntriesAddressed
  <2> SUFFICES ASSUME TermInv, term.base.csc, NEW cols \in Patterns(term, 2)
               PROVE  LET rows  == term.base.bbox[1]
                          at    == Shifted(cols, Shift(term, 2))
                          nz    == cscEntries(term.base, rows, at)
                          entry(k) == <<rows.start + nz[k][1], at.start + nz[k][2]>>
                      IN  /\ {entry(k) : k \in DOMAIN nz} = {x \in Nonzeros : x[2] \in Numbers(at)}
                          /\ \A k \in DOMAIN nz :
                               CSCAddress(term.base, entry(k)) = term.base.colPtr[at.start] + k - 1
    BY DEF EntriesAddressed
  <2> DEFINE b == term.base
             rows == b.bbox[1]
             at == Shifted(cols, Shift(term, 2))
             nz == cscEntries(b, rows, at)
             entry(k) == <<rows.start + nz[k][1], at.start + nz[k][2]>>
             all == Entries(b)
             n == Cardinality(Stored(b))
             m == b.shape[2]
             from == b.colPtr[at.start]
             to == b.colPtr[at.stop]
  <2>1. LayoutOk(term) /\ CscBase(b)
    BY BaseOk DEF TermInv, LayoutOk
  <2>2. Placed(b, all, n)
    BY <2>1, CscPlaced
  <2>3. at.start \in 0 .. m /\ at.stop \in 0 .. m /\ at.start < at.stop
    BY <2>1, PatternColumns
  <2>4. rows.start \in Nat
    <3> HIDE DEF b
    <3>1. Len(b.shape) = 2
      BY <2>1, CscOk
    <3>2. IsBox(b.bbox, 2)
      BY <2>1, <3>1, BoxOk
    <3>3. IsRange(b.bbox[1])
      BY <3>2 DEF IsBox
    <3> QED BY <3>3 DEF IsRange
  <2>5. Nonzeros = Stored(b)
    BY DEF Nonzeros, Stored
  <2>6. DOMAIN nz = 1 .. to - from
        /\ \A k \in 1 .. to - from :
             nz[k] = <<b.rowIndex[from + k] - rows.start,
                       (CHOOSE c \in Numbers(at) : from + k \in Column(b, c)) - at.start>>
    BY DEF cscEntries
  <2> HIDE DEF b, rows, at, nz, all, n, m, from, to
  <2>7. /\ from \in 0 .. n /\ to \in 0 .. n /\ n \in Nat /\ m \in Nat
        /\ \A l \in 1 .. n : /\ l <= from <=> all[l][2] < at.start
                             /\ l <= to <=> all[l][2] < at.stop
    BY <2>2, <2>3 DEF Placed, Listed, m, from, to
  <2>8. \A l \in 1 .. n : all[l] \in Nat \X Nat /\ all[l] \in Stored(b) /\ all[l][2] \in 0 .. m - 1
    BY <2>2 DEF Placed, Listed, Pairs, m
  <2>9. ASSUME NEW k \in DOMAIN nz PROVE from + k \in 1 .. n /\ entry(k) = all[from + k]
    <3> DEFINE l == from + k
    <3>1. k \in 1 .. to - from
      BY <2>6
    <3>2. l \in 1 .. n /\ ~ l <= from /\ l <= to
      BY <2>7, <3>1
    <3>3. ~ all[l][2] < at.start /\ all[l][2] < at.stop
      BY <2>7, <3>2
    <3> HIDE DEF l
    <3>4. all[l][2] \in Nat /\ at.start \in Nat /\ at.stop \in Nat
      BY <2>3, <2>7, <2>8, <3>2
    <3>5. all[l][2] \in Numbers(at)
      BY <3>3, <3>4 DEF Numbers
    <3>6. ASSUME NEW c \in Numbers(at) PROVE l \in Column(b, c) <=> c = all[l][2]
      <4>1. c \in 0 .. b.shape[2] - 1
        BY <2>3, <2>7, <3>4 DEF Numbers, m
      <4>2. l \in Column(b, c) <=> l \in 1 .. n /\ all[l][2] = c
        BY <2>2, <4>1, ColumnPlaces
      <4> QED BY <3>2, <4>2
    <3>7. (CHOOSE c \in Numbers(at) : l \in Column(b, c)) = all[l][2]
      BY <3>5, <3>6
    <3>8. b.rowIndex[l] = all[l][1] /\ all[l] \in Nat \X Nat
      BY <2>2, <2>8, <3>2 DEF Placed
    <3>9. nz[k] = <<all[l][1] - rows.start, all[l][2] - at.start>>
      BY <2>6, <3>1, <3>7, <3>8 DEF l
    <3>10. rows.start + (all[l][1] - rows.start) = all[l][1]
           /\ at.start + (all[l][2] - at.start) = all[l][2]
      BY <2>4, <3>4, <3>8
    <3>11. entry(k) = <<all[l][1], all[l][2]>>
      BY <3>9, <3>10
    <3> QED BY <3>2, <3>8, <3>11 DEF l
  <2>10. ASSUME NEW k \in DOMAIN nz PROVE CSCAddress(b, entry(k)) = from + k - 1
    <3> DEFINE e == entry(k)
               l == from + k
    <3>1. l \in 1 .. n /\ e = all[l] /\ entry(k) = e /\ from + k = l
      BY <2>9
    <3> HIDE DEF e, l, entry
    <3>2. CSCAddress(b, e) = l - 1
      BY <2>2, <3>1, CscPlace
    <3>3. from \in Nat /\ k \in Int
      BY <2>6, <2>7
    <3>4. l - 1 = from + k - 1
      BY <3>1, <3>3
    <3> QED BY <3>1, <3>2, <3>4
  <2>11. {entry(k) : k \in DOMAIN nz} = {x \in Nonzeros : x[2] \in Numbers(at)}
    <3>1. ASSUME NEW k \in DOMAIN nz PROVE entry(k) \in {x \in Nonzeros : x[2] \in Numbers(at)}
      <4> DEFINE l == from + k
      <4>1. l \in 1 .. n /\ entry(k) = all[l]
        BY <2>9
      <4>2. ~ l <= from /\ l <= to
        BY <2>6, <2>7
      <4> HIDE DEF l
      <4>3. all[l] \in Stored(b) /\ all[l][2] \in Nat /\ ~ all[l][2] < at.start /\ all[l][2] < at.stop
        BY <2>7, <2>8, <4>1, <4>2
      <4>4. all[l][2] \in Numbers(at)
        BY <2>3, <2>7, <4>3 DEF Numbers
      <4> HIDE DEF entry
      <4> QED BY <2>5, <4>1, <4>3, <4>4
    <3>2. ASSUME NEW x \in Nonzeros, x[2] \in Numbers(at) PROVE \E k \in DOMAIN nz : entry(k) = x
      <4>1. PICK l \in 1 .. n : all[l] = x
        BY <2>2, <2>5, <3>2 DEF Placed, Listed
      <4>2. ~ all[l][2] < at.start /\ all[l][2] < at.stop
        BY <2>3, <2>7, <2>8, <3>2, <4>1 DEF Numbers
      <4>3. ~ l <= from /\ l <= to
        BY <2>7, <4>2
      <4>4. l - from \in 1 .. to - from /\ from + (l - from) = l
        BY <2>7, <4>3
      <4>5. entry(l - from) = all[from + (l - from)]
        BY <2>6, <2>9, <4>4
      <4> HIDE DEF entry
      <4> QED BY <2>6, <4>1, <4>4, <4>5
    <3> HIDE DEF entry
    <3> QED BY <3>1, <3>2
  <2> QED BY <2>10, <2>11 DEF b, rows, at, nz, from
<1> QED BY <1>1, LayoutsCorrect, PTL

-----------------------------------------------------------------------------
(* The address in the matrix of a group of dimensions *)

LEMMA TimesAgree ==
  ASSUME NEW S, IsFiniteSet(S), NEW s, Naturals(S, s), NEW t, \A x \in S : s[x] = t[x]
  PROVE  Times(s, S) = Times(t, S)
<1> DEFINE g == [x \in S |-> s[x]]
           h == [x \in S |-> t[x]]
<1>1. Naturals(S, t)
  BY DEF Naturals
<1>2. PICK f : FoldedOver(f, S, g, Product, 1) /\ Times(s, S) = f[S]
  BY TimesOver
<1>3. PICK k : FoldedOver(k, S, h, Product, 1) /\ Times(t, S) = k[S]
  BY <1>1, TimesOver
<1>4. g = h
  OBVIOUS
<1>5. \A x \in S : g[x] = h[x]
  BY <1>4
<1>6. S \in SUBSET S
  OBVIOUS
<1> HIDE DEF g, h
<1> QED BY <1>2, <1>3, <1>5, <1>6, FoldsAgree

\* A digit only counts with the sizes of the positions below it.
LEMMA NumberAgree ==
  ASSUME NEW S, Positions(S), NEW s, Naturals(S, s), NEW t, NEW m, Greatest(m, S),
         \A q \in S \ {m} : s[q] = t[q], NEW e, NEW f, \A p \in S : e[p] = f[p]
  PROVE  /\ \A p \in S : Scale(s, S, p) = Scale(t, S, p)
         /\ Number(s, S, e) = Number(t, S, f)
<1>1. ASSUME NEW p \in S PROVE Scale(s, S, p) = Scale(t, S, p)
  <2> DEFINE T == {q \in S : q < p}
  <2>1. ASSUME NEW q \in T PROVE q # m
    <3>1. q \in Int /\ m \in Int /\ p \in Int /\ q < p
      BY DEF Greatest, Positions
    <3>2. m >= p
      BY DEF Greatest
    <3> QED BY <3>1, <3>2
  <2>2. IsFiniteSet(T) /\ Naturals(T, s)
    BY FS_Subset DEF Positions, Naturals
  <2>3. \A q \in T : s[q] = t[q]
    BY <2>1
  <2> HIDE DEF T
  <2>4. Times(s, T) = Times(t, T)
    BY <2>2, <2>3, TimesAgree
  <2> QED BY <2>4 DEF Scale, T
<1>2. [p \in S |-> Scale(s, S, p) * e[p]] = [p \in S |-> Scale(t, S, p) * f[p]]
  BY <1>1
<1> QED BY <1>1, <1>2 DEF Number

\* Numbers add up digit by digit.
LEMMA NumberAdds ==
  ASSUME NEW S, Positions(S), NEW s, Naturals(S, s), NEW e, Naturals(S, e), NEW f, Naturals(S, f),
         NEW g, \A p \in S : g[p] = e[p] + f[p]
  PROVE  Number(s, S, g) = Number(s, S, e) + Number(s, S, f)
<1> DEFINE a == [p \in S |-> Scale(s, S, p) * e[p]]
           b == [p \in S |-> Scale(s, S, p) * f[p]]
           c == [p \in S |-> Scale(s, S, p) * g[p]]
<1>1. Naturals(S, a) /\ Naturals(S, b) /\ \A p \in S : Scale(s, S, p) \in Nat
  BY NumberNat
<1>2. \A p \in S : c[p] = a[p] + b[p]
  <2> SUFFICES ASSUME NEW p \in S PROVE c[p] = a[p] + b[p]
    OBVIOUS
  <2> DEFINE w == Scale(s, S, p)
  <2>1. w \in Nat /\ e[p] \in Nat /\ f[p] \in Nat /\ g[p] = e[p] + f[p]
    BY <1>1 DEF Naturals
  <2>2. a[p] = w * e[p] /\ b[p] = w * f[p] /\ c[p] = w * g[p]
    OBVIOUS
  <2> HIDE DEF w, a, b, c
  <2>3. w * (e[p] + f[p]) = w * e[p] + w * f[p]
    BY <2>1
  <2> QED BY <2>1, <2>2, <2>3
<1>3. a = Part(a, S) /\ b = Part(b, S) /\ c = Part(c, S)
  BY DEF Part
<1>4. Number(s, S, e) = SumFunction(a) /\ Number(s, S, f) = SumFunction(b) /\ Number(s, S, g) = SumFunction(c)
  BY DEF Number
<1> HIDE DEF a, b, c
<1>5. SumFunction(Part(c, S)) = SumFunction(Part(a, S)) + SumFunction(Part(b, S))
  BY <1>1, <1>2, SumAdds DEF Positions
<1> QED BY <1>3, <1>4, <1>5

\* A group of neighbours.
LEMMA GroupOk ==
  ASSUME LayoutOk(term), NEW G \in FusedVariants, G # {}
  PROVE  /\ G \subseteq 1 .. Len(term.base.shape) /\ Positions(G)
         /\ Min(G) \in G /\ Greatest(Max(G), G) /\ Max(G) \in G
         /\ \A p \in G : Min(G) <= p
         /\ G = Min(G) .. Max(G) /\ mayFuse(term, G)
<1> DEFINE n == Len(term.base.shape)
<1>1. G \subseteq 1 .. n /\ G = Min(G) .. Max(G) /\ mayFuse(term, G) /\ n \in Nat
  BY DimsOk, ShapeLength DEF FusedVariants
<1>2. IsFiniteSet(G)
  <2>1. IsFiniteSet(1 .. n)
    BY <1>1, FS_Interval
  <2> QED BY <1>1, <2>1, FS_Subset
<1>3. G \subseteq Int /\ G \subseteq Nat
  BY <1>1
<1>4. Min(G) \in G /\ \A p \in G : Min(G) <= p
  BY <1>3, MinOk
<1>5. Max(G) \in G /\ \A p \in G : p <= Max(G)
  BY <1>2, <1>3, MaxOk
<1>6. \A p \in G : Max(G) >= p
  BY <1>3, <1>5
<1> QED BY <1>1, <1>2, <1>3, <1>4, <1>5, <1>6 DEF Positions, Greatest

\* Within a group that may be fused the strides are those of its sizes.
LEMMA GroupStrides ==
  ASSUME LayoutOk(term), ~ term.base.csc, NEW G \in FusedVariants, G # {}, NEW p \in G
  PROVE  /\ term.base.stride[Min(G)] \in Nat
         /\ Scale(term.base.shape, G, p) \in Nat
         /\ term.base.stride[p] = Scale(term.base.shape, G, p) * term.base.stride[Min(G)]
<1> DEFINE n == Len(term.base.shape)
           s == term.base.shape
           stride == term.base.stride
           a == Min(G)
           z == Max(G)
<1>1. DenseBase(term.base)
  BY BaseOk DEF LayoutOk
<1>2. /\ G \subseteq 1 .. n /\ Positions(G) /\ a \in G /\ z \in G /\ G = a .. z
      /\ (\A q \in G : a <= q) /\ mayFuse(term, G)
  BY GroupOk
<1>3. \A q \in G : s[q] \in Nat
  BY <1>1, <1>2, ShapeLength DEF DenseBase
<1>4. Naturals(G, s)
  BY <1>3 DEF Naturals
<1>5. \A q \in G : Scale(s, G, q) \in Nat
  <2>1. Naturals(G, [q \in G |-> 0])
    BY DEF Naturals
  <2> HIDE DEF s
  <2> QED BY <1>2, <1>4, <2>1, NumberNat
<1>6. stride[a] \in Nat
  <2> DEFINE box == term.base.bbox
             sizes == [q \in DOMAIN box |-> size(box[q])]
  <2>1. DOMAIN box = 1 .. n /\ Positions(1 .. n) /\ Naturals(1 .. n, sizes) /\ stride[a] = Scale(sizes, DOMAIN box, a)
    <3>1. n \in Nat /\ IsBox(box, n)
      BY <1>1, ShapeLength DEF DenseBase
    <3>2. DOMAIN box = 1 .. n /\ Positions(1 .. n) /\ Naturals(1 .. n, sizes)
      BY <3>1, BoxDigits
    <3>3. stride[a] = Scale(sizes, DOMAIN box, a)
      BY <1>1, <1>2, <3>2 DEF DenseBase, Strides
    <3> QED BY <3>2, <3>3
  <2>2. Naturals(1 .. n, [q \in 1 .. n |-> 0])
    BY DEF Naturals
  <2> HIDE DEF sizes, box, stride
  <2>3. Scale(sizes, 1 .. n, a) \in Nat
    BY <1>2, <2>1, <2>2, NumberNat
  <2> QED BY <2>1, <2>3
<1>7. ASSUME NEW q \in G, q + 1 \in G PROVE stride[q + 1] = s[q] * stride[q]
  <2>1. q \in Int /\ q < q + 1
    BY <1>2
  <2>2. \A x \in G : x <= q \/ q + 1 <= x
    BY <1>2, <2>1
  <2> QED BY <1>2, <1>7, <2>1, <2>2 DEF mayFuse
<1>8. ASSUME NEW q \in G, q + 1 \in G PROVE Scale(s, G, q + 1) = s[q] * Scale(s, G, q)
  <2> DEFINE T == {x \in G : x < q + 1}
             U == {x \in G : x < q}
  <2>1. q \in T /\ T \ {q} = U /\ T \in SUBSET G
    <3>1. \A x \in G : x \in Int
      BY <1>2
    <3>2. \A x \in G : x < q + 1 /\ x # q <=> x < q
      BY <3>1
    <3>3. q < q + 1
      BY <3>1
    <3> QED BY <3>2, <3>3
  <2> HIDE DEF T, U, s
  <2>2. IsFiniteSet(T) /\ Naturals(T, s)
    BY <1>2, <1>4, <2>1, FS_Subset DEF Positions, Naturals
  <2>3. Times(s, T) = s[q] * Times(s, U)
    BY <2>1, <2>2, TimesStep
  <2> QED BY <2>3 DEF Scale, T, U
<1>9. Scale(s, G, a) = 1
  <2>0. \A x \in G : ~ (x < a)
    <3> HIDE DEF a
    <3> QED BY <1>2
  <2>1. {x \in G : x < a} = {}
    BY <2>0
  <2>2. Times(s, {}) = 1
    <3>1. IsFiniteSet({}) /\ Naturals({}, s)
      BY FS_EmptySet DEF Naturals
    <3> QED BY <3>1, TimesStep
  <2> QED BY <2>1, <2>2 DEF Scale
<1> DEFINE P == {k \in Nat : a + k \in G => stride[a + k] = Scale(s, G, a + k) * stride[a]}
<1> HIDE DEF s, stride, a, z
<1>10. 0 \in P
  <2>1. a \in Int /\ a + 0 = a
    BY <1>2
  <2> QED BY <1>6, <1>9, <2>1
<1>11. ASSUME NEW k \in Nat, k \in P PROVE k + 1 \in P
  <2> SUFFICES ASSUME a + (k + 1) \in G
               PROVE  stride[a + (k + 1)] = Scale(s, G, a + (k + 1)) * stride[a]
    OBVIOUS
  <2> DEFINE q == a + k
  <2>1. q \in G /\ q + 1 \in G /\ q + 1 = a + (k + 1)
    BY <1>2
  <2>2. stride[q] = Scale(s, G, q) * stride[a]
    BY <1>11, <2>1
  <2> HIDE DEF q
  <2>3. stride[q + 1] = s[q] * stride[q] /\ Scale(s, G, q + 1) = s[q] * Scale(s, G, q)
    BY <1>7, <1>8, <2>1
  <2>4. s[q] \in Nat /\ Scale(s, G, q) \in Nat
    BY <1>3, <1>5, <2>1 DEF s
  <2>5. s[q] * (Scale(s, G, q) * stride[a]) = (s[q] * Scale(s, G, q)) * stride[a]
    BY <1>6, <2>4
  <2> QED BY <2>1, <2>2, <2>3, <2>5
<1> HIDE DEF P
<1>12. stride[p] = Scale(s, G, p) * stride[a]
  <2>1. p - a \in Nat /\ a + (p - a) = p
    BY <1>2
  <2>2. p - a \in P
    BY <1>10, <1>11, <2>1, NatSetInduction
  <2> QED BY <2>1, <2>2 DEF P
<1> QED BY <1>5, <1>6, <1>12 DEF s, stride, a

-----------------------------------------------------------------------------
(* The matrix of a term *)

\* The storage of a fused group is reached as that of its positions is: the sum
\* of what the positions contribute is what the fused number contributes.
LEMMA GroupAddress ==
  ASSUME LayoutOk(term), ~ term.base.csc, NEW G \in FusedVariants, G # {},
         NEW x, \A p \in 1 .. Len(term.base.shape) : x[p] \in Numbers(term.base.bbox[p])
  PROVE  LET b == term.base
             f == [d \in 1 .. Len(b.shape) |-> (x[d] - b.bbox[d].start) * b.stride[d]]
         IN  /\ Number(b.shape, G, x) - subRange(b, G).start \in Nat
             /\ subRange(b, G).start \in Nat
             /\ SumFunction(Part(f, G))
                  = (Number(b.shape, G, x) - subRange(b, G).start) * firstStride(b, G)
<1> DEFINE b == term.base
           n == Len(b.shape)
           s == b.shape
           a == b.stride[Min(G)]
           o == [p \in G |-> b.bbox[p].start]
           u == [p \in G |-> x[p] - b.bbox[p].start]
           w == [p \in G |-> Scale(s, G, p) * u[p]]
           f == [d \in 1 .. n |-> (x[d] - b.bbox[d].start) * b.stride[d]]
<1>1. G \subseteq 1 .. n /\ Positions(G) /\ IsFiniteSet(G)
  BY GroupOk DEF Positions
<1>2. DenseBase(b) /\ IsShape(s) /\ IsBox(b.bbox, n)
  BY BaseOk, BoxOk DEF LayoutOk, DenseBase
<1>3. Naturals(G, s)
  BY <1>1, <1>2, ShapeLength DEF Naturals
<1>4. \A p \in 1 .. n : b.bbox[p].start \in Nat /\ x[p] \in Nat /\ b.bbox[p].start <= x[p]
  <2> SUFFICES ASSUME NEW p \in 1 .. n
               PROVE  b.bbox[p].start \in Nat /\ x[p] \in Nat /\ b.bbox[p].start <= x[p]
    OBVIOUS
  <2>1. IsRange(b.bbox[p]) /\ x[p] \in Numbers(b.bbox[p])
    BY <1>2 DEF IsBox
  <2> QED BY <2>1 DEF IsRange, Numbers
<1>5. Naturals(G, o) /\ Naturals(G, u) /\ \A p \in G : x[p] = u[p] + o[p]
  <2>1. ASSUME NEW p \in G PROVE o[p] \in Nat /\ u[p] \in Nat /\ x[p] = u[p] + o[p]
    <3>1. o[p] = b.bbox[p].start /\ u[p] = x[p] - b.bbox[p].start /\ p \in 1 .. n
      BY <1>1
    <3>2. o[p] \in Nat /\ x[p] \in Nat /\ o[p] <= x[p]
      BY <1>4, <3>1
    <3> HIDE DEF o, u
    <3> QED BY <3>1, <3>2
  <2> HIDE DEF o, u
  <2> QED BY <2>1 DEF Naturals
<1> HIDE DEF o, u, s, b
<1>6. Number(s, G, x) = Number(s, G, u) + Number(s, G, o)
  <2>1. Positions(G) /\ Naturals(G, s) /\ Naturals(G, u) /\ Naturals(G, o)
    BY <1>1, <1>3, <1>5
  <2>2. \A p \in G : x[p] = u[p] + o[p]
    BY <1>5
  <2> QED BY <2>1, <2>2, NumberAdds, SMTT(30)
<1>7. /\ Number(s, G, u) \in Nat /\ Number(s, G, o) \in Nat
      /\ Naturals(G, w) /\ \A p \in G : Scale(s, G, p) \in Nat
  BY <1>1, <1>3, <1>5, NumberNat
<1>8. Number(s, G, u) = SumFunction(Part(w, G))
  BY DEF Number, Part
<1>9. a \in Nat /\ \A p \in G : b.stride[p] = Scale(s, G, p) * a
  BY GroupStrides DEF s, b
<1>10. \A p \in G : f[p] = a * w[p]
  <2> SUFFICES ASSUME NEW p \in G PROVE f[p] = a * w[p]
    OBVIOUS
  <2>1. f[p] = u[p] * (Scale(s, G, p) * a) /\ w[p] = Scale(s, G, p) * u[p]
    BY <1>1, <1>9 DEF u, b
  <2>2. Scale(s, G, p) \in Nat /\ u[p] \in Nat
    BY <1>5, <1>7 DEF Naturals
  <2> DEFINE c == Scale(s, G, p)
             v == u[p]
  <2>3. c \in Nat /\ v \in Nat /\ a \in Nat /\ f[p] = v * (c * a) /\ w[p] = c * v
    BY <1>9, <2>1, <2>2
  <2> HIDE DEF c, v, a, f, w
  <2>4. v * (c * a) = a * (c * v)
    BY <2>3
  <2> QED BY <2>3, <2>4
<1> HIDE DEF w, f, a
<1>11. SumFunction(Part(f, G)) = a * Number(s, G, u)
  <2>1. IsFiniteSet(G) /\ Naturals(G, w) /\ a \in Nat
    BY <1>1, <1>7, <1>9
  <2>2. SumFunction(Part(f, G)) = a * SumFunction(Part(w, G))
    BY <2>1, <1>10, SumScaled, SMTT(30)
  <2> QED BY <1>8, <2>2
<1>12. subRange(b, G).start = Number(s, G, o) /\ firstStride(b, G) = a
  BY DEF subRange, Interval, firstStride, o, a, s
<1> DEFINE N(e) == Number(s, G, e)
<1>13. /\ SumFunction(Part(f, G)) = a * N(u) /\ N(x) = N(u) + N(o) /\ N(u) \in Nat /\ N(o) \in Nat
       /\ subRange(b, G).start = N(o)
  BY <1>6, <1>7, <1>11, <1>12
<1> HIDE DEF N
<1>14. N(x) - N(o) = N(u) /\ a * N(u) = N(u) * a
  BY <1>9, <1>13
<1> QED BY <1>9, <1>12, <1>13, <1>14 DEF N, f, s, b

\* The views over a group are over its last position, where they move the fused
\* number by its scale.
LEMMA FusedNumber ==
  ASSUME LayoutOk(term), NEW G \in FusedVariants, G # {},
         NEW e, \A p \in G : e[p] \in Nat
  PROVE  /\ Scale(term.base.shape, G, Max(G)) * Shift(term, Max(G)) \in Nat
         /\ Fused(G, e) \in Nat
         /\ Fused(G, e) + Scale(term.base.shape, G, Max(G)) * Shift(term, Max(G))
              = Number(term.base.shape, G, [p \in G |-> e[p] + Shift(term, p)])
<1> DEFINE s == term.base.shape
           m == Max(G)
           t == [p \in G |-> Shift(term, p)]
           x == [p \in G |-> e[p] + Shift(term, p)]
<1>1. G \subseteq 1 .. Len(s) /\ Positions(G) /\ Greatest(m, G) /\ m \in G /\ mayFuse(term, G)
  BY GroupOk
<1>2. IsShape(s)
  BY BaseOk DEF LayoutOk
<1>3. Naturals(G, s) /\ Naturals(G, e)
  BY <1>1, <1>2, ShapeLength DEF Naturals
<1>4. \A q \in G \ {m} : q \notin Viewed(term)
  BY <1>1 DEF mayFuse, Viewed
<1>5. \A p \in G : t[p] \in Nat
  BY ShiftOk, LayoutViewable
<1>6. \A q \in G \ {m} : t[q] = 0 /\ s[q] = shapeOf(term)[q]
  BY <1>1, <1>2, <1>4, ShiftOk, LayoutViewable, ShapeOk
<1>7. Naturals(G, t) /\ \A p \in G : x[p] = e[p] + t[p]
  BY <1>5 DEF Naturals
<1>8. t[m] = Shift(term, m)
  BY <1>1
<1> HIDE DEF t, s, m, x
<1>9. Number(s, G, e) = Fused(G, e) /\ Number(s, G, e) \in Nat
  <2>1. Number(s, G, e) = Number(shapeOf(term), G, e)
    <3>1. Positions(G) /\ Naturals(G, s) /\ Greatest(m, G)
      BY <1>1, <1>3
    <3>2. \A q \in G \ {m} : s[q] = shapeOf(term)[q]
      BY <1>6
    <3>3. \A p \in G : e[p] = e[p]
      OBVIOUS
    <3> QED BY <3>1, <3>2, <3>3, NumberAgree, SMTT(30)
  <2> QED BY <1>1, <1>3, <2>1, NumberNat DEF Fused
<1>10. Number(s, G, x) = Number(s, G, e) + Number(s, G, t)
  <2>1. Positions(G) /\ Naturals(G, s) /\ Naturals(G, t) /\ Naturals(G, e)
    BY <1>1, <1>3, <1>7
  <2>2. \A p \in G : x[p] = e[p] + t[p]
    BY <1>7
  <2> QED BY <2>1, <2>2, NumberAdds, SMTT(30)
<1>11. /\ Scale(s, G, m) = Times(s, G \ {m})
       /\ Number(s, G, t) = Times(s, G \ {m}) * t[m] + Number(s, G \ {m}, t)
       /\ Number(s, G, t) \in Nat /\ Scale(s, G, m) \in Nat
  <2>1. Positions(G) /\ Naturals(G, s) /\ Naturals(G, t) /\ Greatest(m, G) /\ m \in G
    BY <1>1, <1>3, <1>7
  <2>2. Number(s, G, t) \in Nat /\ \A p \in G : Scale(s, G, p) \in Nat
    BY <2>1, NumberNat
  <2>3. /\ Scale(s, G, m) = Times(s, G \ {m})
        /\ Number(s, G, t) = Times(s, G \ {m}) * t[m] + Number(s, G \ {m}, t)
    BY <2>1, NumberTop, SMTT(30)
  <2> QED BY <2>1, <2>2, <2>3
<1>12. Number(s, G \ {m}, t) = 0
  <2> DEFINE R == G \ {m}
             z == [p \in R |-> Scale(s, R, p) * t[p]]
  <2>1. Positions(R) /\ IsFiniteSet(R) /\ Naturals(R, s)
    BY <1>1, <1>3, FS_Subset DEF Positions, Naturals
  <2>2. \A p \in R : t[p] = 0
    BY <1>6
  <2>3. Naturals(R, t)
    BY <2>2 DEF Naturals
  <2>4. Naturals(R, z) /\ \A p \in R : Scale(s, R, p) \in Nat
    BY <2>1, <2>3, NumberNat
  <2>5. \A p \in R : z[p] = 0
    BY <2>2, <2>4
  <2>6. z = Part(z, R)
    BY DEF Part
  <2> HIDE DEF z, R
  <2>7. SumFunction(z) = 0
    BY <2>1, <2>4, <2>5, <2>6, ZeroSum
  <2> QED BY <2>7 DEF Number, z, R
<1>13. Number(s, G, t) = Scale(s, G, m) * t[m] /\ t[m] \in Nat
  BY <1>1, <1>7, <1>11, <1>12 DEF Naturals
<1> QED BY <1>8, <1>9, <1>10, <1>11, <1>13 DEF s, m, x

\* A sum over two positions.
LEMMA PairSum ==
  ASSUME NEW s, DOMAIN s = 1 .. 2, s[1] \in Nat, s[2] \in Nat
  PROVE  SumFunction(s) = s[1] + s[2]
<1> DEFINE D == 1 .. 2
           T == D \ {1}
           E == T \ {2}
<1>1. IsFiniteSet(D)
  <2>1. 1 \in Int /\ 2 \in Int
    OBVIOUS
  <2> QED BY <2>1, FS_Interval
<1>2. Naturals(D, s) /\ DOMAIN s = D
  BY DEF Naturals
<1>3. 1 \in D /\ 2 \in T /\ T \in SUBSET D /\ E \in SUBSET D /\ E = {}
  OBVIOUS
<1> HIDE DEF D, T, E
<1>4. SumFunction(s) = s[1] + SumFunction(Part(s, T))
  BY <1>1, <1>2, <1>3, SumStep DEF T
<1>5. SumFunction(Part(s, T)) = s[2] + SumFunction(Part(s, E))
  BY <1>1, <1>2, <1>3, PartStep DEF E
<1>6. SumFunction(Part(s, E)) = 0
  BY <1>1, <1>2, <1>3, PartStep
<1> QED BY <1>4, <1>5, <1>6

\* The views of the matrix, after the first k views of the term.
Moves == [index : {1, 2}, start : Nat, stop : Nat]
Taken(I, J, k, views) ==
  IF term.views[k].index \in I \cup J
  THEN Append(views, unfoldView(term.base, I, J, term.views[k])) ELSE views
IsScaled(I, J) ==
  \A k \in 1 .. Len(term.views) :
    term.views[k].index \in I \cup J => unfoldView(term.base, I, J, term.views[k]) \in Moves

LEMMA UnfoldFolds ==
  ASSUME LayoutOk(term), NEW I, NEW J, IsScaled(I, J)
  PROVE  LET step == [q \in (1 .. Len(term.views)) \X Seq(Moves) |-> Taken(I, J, q[1], q[2])]
         IN  \E h : /\ Solves(h, Len(term.views), Seq(Moves), <<>>, step)
                    /\ h[Len(term.views)] = unfold(term, I, J).views
<1> DEFINE m == Len(term.views)
           T == Seq(Moves)
           v == term.views
           step == [q \in (1 .. m) \X T |-> Taken(I, J, q[1], q[2])]
           Eqn(f) == f = [t \in SUBSET DOMAIN v |->
                            IF t = {} THEN <<>>
                            ELSE LET x == Max(t)
                                 IN  IF v[x].index \in I \cup J
                                     THEN Append(f[t \ {x}], unfoldView(term.base, I, J, v[x]))
                                     ELSE f[t \ {x}]]
           iter == CHOOSE f : Eqn(f)
<1>1. m \in Nat /\ DOMAIN v = 1 .. m
  BY DEF LayoutOk
<1>2. unfold(term, I, J).views = iter[DOMAIN v]
  BY DEF unfold, FoldLeft, MapThenFoldSet
<1>3. <<>> \in T
  OBVIOUS
<1>4. ASSUME NEW k \in 1 .. m, NEW w \in T PROVE Taken(I, J, k, w) \in T
  <2>1. CASE v[k].index \in I \cup J
    <3>1. unfoldView(term.base, I, J, v[k]) \in Moves
      BY <2>1 DEF IsScaled
    <3> HIDE DEF Moves
    <3> QED BY <1>4, <2>1, <3>1 DEF Taken
  <2>2. CASE v[k].index \notin I \cup J
    BY <1>4, <2>2 DEF Taken
  <2> QED BY <2>1, <2>2
<1> HIDE DEF T
<1>5. step \in StepFunctions(m, T)
  BY <1>4 DEF StepFunctions
<1>6. \A f : \A t : (IF v[Max(t)].index \in I \cup J
                     THEN Append(f[t \ {Max(t)}], unfoldView(term.base, I, J, v[Max(t)]))
                     ELSE f[t \ {Max(t)}]) = Taken(I, J, Max(t), f[t \ {Max(t)}])
  BY DEF Taken
<1>7. ASSUME NEW f \in [SUBSET (1 .. m) -> T], NEW t \in SUBSET (1 .. m), t # {}
      PROVE  Taken(I, J, Max(t), f[t \ {Max(t)}]) = step[<<Max(t), f[t \ {Max(t)}]>>]
  <2>1. Max(t) \in 1 .. m
    BY <1>1, <1>7, GreatestOf
  <2>2. f[t \ {Max(t)}] \in T
    BY <1>7
  <2> QED BY <2>1, <2>2
<1> HIDE DEF m, v, step
<1> DEFINE Folds(f) == f = [t \in SUBSET (1 .. m) |->
                              IF t = {} THEN <<>> ELSE Taken(I, J, Max(t), f[t \ {Max(t)}])]
<1>8. \A f : Eqn(f) <=> Folds(f)
  <2> SUFFICES ASSUME NEW f PROVE Eqn(f) <=> Folds(f)
    OBVIOUS
  <2> DEFINE one(t) == IF t = {} THEN <<>>
                       ELSE IF v[Max(t)].index \in I \cup J
                            THEN Append(f[t \ {Max(t)}], unfoldView(term.base, I, J, v[Max(t)]))
                            ELSE f[t \ {Max(t)}]
             two(t) == IF t = {} THEN <<>> ELSE Taken(I, J, Max(t), f[t \ {Max(t)}])
  <2>1. \A t : one(t) = two(t)
    BY <1>6
  <2>2. Eqn(f) <=> f = [t \in SUBSET (1 .. m) |-> one(t)]
    BY <1>1
  <2>3. Folds(f) <=> f = [t \in SUBSET (1 .. m) |-> two(t)]
    OBVIOUS
  <2> HIDE DEF one, two, Eqn, Folds
  <2> QED BY <2>1, <2>2, <2>3
<1>9. ASSUME NEW f \in [SUBSET (1 .. m) -> T] PROVE Folds(f) <=> LeftFold(f, m, <<>>, step)
  <2> DEFINE a(t) == IF t = {} THEN <<>> ELSE Taken(I, J, Max(t), f[t \ {Max(t)}])
  <2>1. \A t \in SUBSET (1 .. m) : a(t) = Turn(f, t, <<>>, step)
    BY <1>7 DEF Turn
  <2>2. Folds(f) <=> f = [t \in SUBSET (1 .. m) |-> a(t)]
    OBVIOUS
  <2> HIDE DEF a, Folds
  <2> QED BY <2>1, <2>2 DEF LeftFold
<1>10. PICK f \in [SUBSET (1 .. m) -> T] : LeftFold(f, m, <<>>, step)
  BY <1>1, <1>3, <1>5, LeftFoldExists
<1>11. Folds(iter)
  <2>1. Eqn(f)
    BY <1>8, <1>9, <1>10
  <2>2. Eqn(iter)
    <3> HIDE DEF Eqn
    <3> QED BY <2>1
  <2> HIDE DEF Eqn, iter, Folds
  <2> QED BY <1>8, <2>2
<1> HIDE DEF iter
<1>12. iter \in [SUBSET (1 .. m) -> T]
  <2> DEFINE P == {t \in SUBSET (1 .. m) : iter[t] \in T}
  <2>1. /\ iter = [t \in SUBSET (1 .. m) |-> iter[t]]
        /\ iter[{}] = <<>>
        /\ \A t \in (SUBSET (1 .. m)) \ {{}} : iter[t] = Taken(I, J, Max(t), iter[t \ {Max(t)}])
    <3>1. {} \in SUBSET (1 .. m)
      OBVIOUS
    <3> QED BY <1>11, <3>1
  <2>2. {} \in P
    BY <1>3, <2>1
  <2>3. ASSUME NEW t \in SUBSET (1 .. m), t # {}, \A x \in t : t \ {x} \in P PROVE t \in P
    <3>1. Max(t) \in t /\ Max(t) \in 1 .. m
      BY <1>1, <2>3, GreatestOf
    <3>2. iter[t \ {Max(t)}] \in T
      BY <2>3, <3>1
    <3>3. Taken(I, J, Max(t), iter[t \ {Max(t)}]) \in T
      BY <1>4, <3>1, <3>2
    <3> QED BY <2>1, <2>3, <3>3
  <2> HIDE DEF P
  <2>4. IsFiniteSet(1 .. m)
    BY <1>1, FS_Interval
  <2>5. SUBSET (1 .. m) \subseteq P
    BY <2>2, <2>3, <2>4, FiniteSetInduction
  <2> QED BY <2>1, <2>5 DEF P
<1>13. LeftFold(iter, m, <<>>, step)
  <2> HIDE DEF Folds
  <2> QED BY <1>9, <1>11, <1>12
<1>14. \E h : Solves(h, m, T, <<>>, step) /\ h[m] = iter[1 .. m]
  BY <1>1, <1>3, <1>5, <1>13, LeftFoldSolves
<1> QED BY <1>1, <1>2, <1>14 DEF m, T, v, step, iter

\* A view that is put on moves its dimension further.
Moved(views, d) ==
  SumFunction([k \in DOMAIN views |-> IF views[k].index = d THEN views[k].start ELSE 0])

LEMMA MovedAppend ==
  ASSUME NEW views \in Seq(Moves), NEW w \in Moves, NEW d
  PROVE  /\ Moved(views, d) \in Nat
         /\ Moved(Append(views, w), d) = Moved(views, d) + (IF w.index = d THEN w.start ELSE 0)
<1> DEFINE n == Len(views)
           new == Append(views, w)
           N == 1 .. n + 1
           R == N \ {n + 1}
           s == [k \in 1 .. n |-> IF views[k].index = d THEN views[k].start ELSE 0]
           t == [k \in N |-> IF new[k].index = d THEN new[k].start ELSE 0]
<1>1. n \in Nat /\ DOMAIN views = 1 .. n /\ DOMAIN new = N
  OBVIOUS
<1>2. n + 1 \in N /\ R = 1 .. n
  BY <1>1
<1>3. IsFiniteSet(N) /\ IsFiniteSet(R)
  <2>1. IsFiniteSet(N)
    <3>1. 1 \in Int /\ n + 1 \in Int
      BY <1>1
    <3> QED BY <3>1, FS_Interval
  <2>2. IsFiniteSet(1 .. n)
    BY <1>1, FS_Interval
  <2> QED BY <1>2, <2>1, <2>2
<1>4. (\A k \in 1 .. n : views[k] \in Moves /\ new[k] = views[k]) /\ new[n + 1] = w
  <2> HIDE DEF Moves
  <2> QED OBVIOUS
<1>5. Naturals(R, s) /\ Naturals(N, t)
  <2>1. \A x \in Moves : x.start \in Nat
    BY DEF Moves
  <2> HIDE DEF Moves
  <2>2. \A k \in 1 .. n : views[k].start \in Nat
    BY <1>4, <2>1
  <2>3. \A k \in N : new[k].start \in Nat
    BY <1>1, <1>4, <2>1, <2>2
  <2> QED BY <1>2, <2>2, <2>3 DEF Naturals
<1>6. Part(t, R) = s /\ DOMAIN s = R
  BY <1>1, <1>2, <1>4 DEF Part
<1>7. t[n + 1] = IF w.index = d THEN w.start ELSE 0
  BY <1>2, <1>4
<1>8. Moved(views, d) = SumFunction(s) /\ Moved(new, d) = SumFunction(t) /\ DOMAIN t = N
  BY <1>1 DEF Moved
<1> HIDE DEF s, t, N, R, n
<1>9. SumFunction(t) = t[n + 1] + SumFunction(Part(t, R))
  BY <1>2, <1>3, <1>5, <1>8, SumStep DEF R
<1>10. SumFunction(s) \in Nat
  BY <1>3, <1>5, <1>6, SumStep
<1>11. t[n + 1] \in Nat
  BY <1>2, <1>5 DEF Naturals
<1> QED BY <1>6, <1>7, <1>8, <1>9, <1>10, <1>11

\* Dimension d of the matrix is the group G, whose views are scaled by c.
Unfolds(I, J, G, d, c) ==
  \A k \in 1 .. Len(term.views) :
    LET v == term.views[k]
        w == unfoldView(term.base, I, J, v)
    IN  /\ v.index = Max(G) => v.index \in I \cup J /\ w.index = d /\ w.start = c * v.start
        /\ v.index \in I \cup J /\ v.index # Max(G) => w.index # d

LEMMA UnfoldedShift ==
  ASSUME LayoutOk(term), NEW I, NEW J, IsScaled(I, J), NEW G, NEW d, NEW c \in Nat, Unfolds(I, J, G, d, c)
  PROVE  /\ Moved(unfold(term, I, J).views, d) = c * Shift(term, Max(G))
         /\ Moved(unfold(term, I, J).views, d) \in Nat
<1> DEFINE m == Len(term.views)
           T == Seq(Moves)
           v == term.views
           step == [q \in (1 .. m) \X T |-> Taken(I, J, q[1], q[2])]
           s == shifts(term, Max(G))
           W == unfold(term, I, J).views
           S(k) == SumFunction(Part(s, 1 .. k))
<1>1. PICK h : Solves(h, m, T, <<>>, step) /\ h[m] = W
  BY UnfoldFolds
<1>2. m \in Nat /\ DOMAIN v = 1 .. m
  BY DEF LayoutOk
<1>3. \A k \in 0 .. m : h[k] \in T
  BY <1>1 DEF Solves
<1>4. \A k \in 1 .. m : h[k] = Taken(I, J, k, h[k - 1])
  <2> SUFFICES ASSUME NEW k \in 1 .. m PROVE h[k] = Taken(I, J, k, h[k - 1])
    OBVIOUS
  <2>1. k - 1 \in 0 .. m
    OBVIOUS
  <2>2. h[k - 1] \in T /\ h[k] = step[<<k, h[k - 1]>>]
    BY <1>1, <2>1 DEF Solves
  <2> HIDE DEF T
  <2> QED BY <2>2
<1>5. h[0] = <<>>
  BY <1>1 DEF Solves
<1>6. /\ IsFiniteSet(1 .. m) /\ Naturals(1 .. m, s)
      /\ Shift(term, Max(G)) = SumFunction(s) /\ s = Part(s, 1 .. m)
  <2>1. IsFiniteSet(1 .. m)
    BY <1>2, FS_Interval
  <2>2. s = Part(s, 1 .. m)
    BY DEF shifts, Part
  <2> QED BY <2>1, <2>2, ShiftOk, LayoutViewable
<1>7. ASSUME NEW k \in 1 .. m
      PROVE  s[k] \in Nat /\ S(k) = s[k] + S(k - 1) /\ S(k - 1) \in Nat
  <2> DEFINE D == 1 .. m
             K == 1 .. k
             L == K \ {k}
  <2>1. K \in SUBSET D /\ L \in SUBSET D /\ k \in K /\ L = 1 .. (k - 1) /\ k \in D
    BY <1>2
  <2>2. IsFiniteSet(D) /\ Naturals(D, s)
    BY <1>6
  <2> HIDE DEF D, K, L, s
  <2>3. SumFunction(Part(s, K)) = s[k] + SumFunction(Part(s, L)) /\ SumFunction(Part(s, L)) \in Nat
    BY <2>1, <2>2, PartStep DEF L
  <2>4. s[k] \in Nat
    BY <2>1, <2>2 DEF Naturals
  <2> QED BY <2>1, <2>3, <2>4 DEF K
<1>8. S(0) = 0
  <2>1. 1 .. 0 = {} /\ {} \in SUBSET (1 .. m)
    BY <1>2
  <2>2. SumFunction(Part(s, {})) = 0
    <3> HIDE DEF s
    <3> QED BY <1>6, <2>1, PartStep
  <2> QED BY <2>1, <2>2
<1>9. \A k \in 1 .. m : s[k] = IF v[k].index = Max(G) THEN v[k].start ELSE 0
  BY DEF shifts
<1> HIDE DEF s, step, S, m
<1>10. ASSUME NEW k \in 1 .. m, Moved(h[k - 1], d) = c * S(k - 1)
       PROVE  Moved(h[k], d) = c * S(k)
  <2> DEFINE w == unfoldView(term.base, I, J, v[k])
             g == h[k - 1]
  <2>1. g \in T /\ h[k] = Taken(I, J, k, g) /\ Moved(g, d) = c * S(k - 1)
    <3>1. k - 1 \in 0 .. m
      BY <1>2
    <3> QED BY <1>3, <1>4, <1>10, <3>1
  <2>2. S(k) = s[k] + S(k - 1) /\ s[k] \in Nat /\ S(k - 1) \in Nat
    BY <1>7
  <2>3. c * S(k) = c * s[k] + c * S(k - 1) /\ c * s[k] \in Nat /\ c * S(k - 1) \in Nat
    <3> DEFINE a == s[k]
               b == S(k - 1)
    <3>1. S(k) = a + b /\ a \in Nat /\ b \in Nat
      BY <2>2
    <3> HIDE DEF a, b
    <3>2. c * (a + b) = c * a + c * b /\ c * a \in Nat /\ c * b \in Nat
      BY <3>1
    <3> QED BY <3>1, <3>2 DEF a, b
  <2>4. /\ v[k].index = Max(G) => v[k].index \in I \cup J /\ w.index = d /\ w.start = c * v[k].start
        /\ v[k].index \in I \cup J /\ v[k].index # Max(G) => w.index # d
        /\ v[k].index \in I \cup J => w \in Moves
    BY DEF Unfolds, IsScaled, m
  <2>5. s[k] = IF v[k].index = Max(G) THEN v[k].start ELSE 0
    BY <1>9
  <2>6. \/ v[k].index \in I \cup J /\ h[k] = Append(g, w)
        \/ v[k].index \notin I \cup J /\ h[k] = g
    BY <2>1 DEF Taken
  <2> HIDE DEF w, g, Moves
  <2>7. CASE v[k].index \in I \cup J /\ h[k] = Append(g, w)
    <3>1. Moved(h[k], d) = Moved(g, d) + (IF w.index = d THEN w.start ELSE 0)
      BY <2>1, <2>4, <2>7, MovedAppend
    <3>2. (IF w.index = d THEN w.start ELSE 0) = c * s[k]
      <4>1. CASE v[k].index = Max(G)
        BY <2>4, <2>5, <4>1
      <4>2. CASE v[k].index # Max(G)
        <5>1. w.index # d /\ s[k] = 0 /\ c * 0 = 0
          BY <2>4, <2>5, <2>7, <4>2
        <5> QED BY <5>1
      <4> QED BY <4>1, <4>2
    <3> QED BY <2>1, <2>3, <3>1, <3>2
  <2>8. CASE v[k].index \notin I \cup J /\ h[k] = g
    <3>1. s[k] = 0 /\ c * 0 = 0
      BY <2>4, <2>5, <2>8
    <3> QED BY <2>1, <2>3, <2>8, <3>1
  <2> QED BY <2>6, <2>7, <2>8
<1>11. Moved(h[0], d) = c * S(0)
  <2> DEFINE z == [k \in DOMAIN <<>> |-> IF (<<>>)[k].index = d THEN (<<>>)[k].start ELSE 0]
  <2>1. DOMAIN z = {} /\ Moved(<<>>, d) = SumFunction(z)
    BY DEF Moved
  <2>2. IsFiniteSet({}) /\ Naturals({}, z)
    BY FS_EmptySet DEF Naturals
  <2> HIDE DEF z
  <2>3. SumFunction(z) = 0
    BY <2>1, <2>2, SumStep
  <2>4. c * 0 = 0
    OBVIOUS
  <2> QED BY <1>5, <1>8, <2>1, <2>3, <2>4
<1> DEFINE P == {k \in Nat : k <= m => Moved(h[k], d) = c * S(k)}
<1>12. 0 \in P
  BY <1>11
<1>13. ASSUME NEW k \in Nat, k \in P PROVE k + 1 \in P
  <2>1. k + 1 <= m => k + 1 \in 1 .. m /\ (k + 1) - 1 = k /\ k <= m
    BY <1>2
  <2> QED BY <1>2, <1>10, <1>13, <2>1
<1> HIDE DEF P
<1>14. m \in P
  BY <1>2, <1>12, <1>13, NatSetInduction
<1>15. Moved(W, d) = c * S(m) /\ S(m) = Shift(term, Max(G)) /\ Shift(term, Max(G)) \in Nat
  BY <1>1, <1>2, <1>6, <1>14, ShiftOk, LayoutViewable DEF P, S
<1> QED BY <1>15

\* The views of an unfolded layout move its dimensions as the views of the term
\* move the groups.
LEMMA UnfoldedViews ==
  ASSUME LayoutOk(term), ~ term.base.csc, NEW I \in FusedVariants, NEW J \in FusedVariants,
         I # {}, J # {}, I \cap J = {}
  PROVE  LET W == unfold(term, I, J).views
             s == term.base.shape
         IN  /\ Moved(W, 1) = Scale(s, I, Max(I)) * Shift(term, Max(I))
             /\ Moved(W, 2) = Scale(s, J, Max(J)) * Shift(term, Max(J))
             /\ Moved(W, 1) \in Nat /\ Moved(W, 2) \in Nat
             /\ W \in Seq(Moves) /\ IsScaled(I, J)
<1> DEFINE s == term.base.shape
           m == Len(term.views)
           v == term.views
           x == Max(I)
           y == Max(J)
<1>1. \A G \in {I, J} : Max(G) \in G /\ \A p \in G : Scale(s, G, p) \in Nat
  BY GroupOk, GroupStrides
<1>2. \A k \in 1 .. m : \A G \in {I, J} : v[k].index \in G => v[k].index = Max(G)
  <2> SUFFICES ASSUME NEW k \in 1 .. m, NEW G \in {I, J}, v[k].index \in G PROVE v[k].index = Max(G)
    OBVIOUS
  <2>1. mayFuse(term, G)
    BY GroupOk
  <2>2. v[k] \in Views(term)
    BY DEF LayoutOk, Views
  <2> QED BY <2>1, <2>2 DEF mayFuse
<1>3. \A k \in 1 .. m : v[k].start \in Nat /\ v[k].stop \in Nat
  BY DEF LayoutOk, IsView
<1>4. /\ x \in I /\ y \in J /\ x \notin J /\ y \notin I
      /\ Scale(s, I, x) \in Nat /\ Scale(s, J, y) \in Nat
  BY <1>1
<1> DEFINE w(k) == unfoldView(term.base, I, J, v[k])
           c == Scale(s, I, x)
           e == Scale(s, J, y)
<1>5. ASSUME NEW k \in 1 .. m
      PROVE  /\ v[k].index \in I => /\ v[k].index = x
                                    /\ w(k) = View(1, v[k].start * c, v[k].stop * c)
             /\ v[k].index \in J => /\ v[k].index = y
                                    /\ w(k) = View(2, v[k].start * e, v[k].stop * e)
  BY <1>2, <1>4 DEF unfoldView
<1> HIDE DEF w, c, e, s, x, y, m
<1>6. ASSUME NEW k \in 1 .. m
      PROVE  /\ v[k].index \in I => w(k).index = 1 /\ w(k).start = c * v[k].start /\ w(k) \in Moves
             /\ v[k].index \in J => w(k).index = 2 /\ w(k).start = e * v[k].start /\ w(k) \in Moves
  <2> DEFINE a == v[k].start
             b == v[k].stop
  <2>1. a \in Nat /\ b \in Nat /\ c \in Nat /\ e \in Nat
    BY <1>3, <1>4 DEF c, e
  <2> HIDE DEF a, b
  <2>2. /\ a * c \in Nat /\ a * c = c * a /\ b * c \in Nat
        /\ a * e \in Nat /\ a * e = e * a /\ b * e \in Nat
    BY <2>1
  <2>3. /\ v[k].index \in I => w(k) = View(1, a * c, b * c)
        /\ v[k].index \in J => w(k) = View(2, a * e, b * e)
    BY <1>5 DEF a, b
  <2> HIDE DEF v
  <2>4. \A q, r \in Nat : \A d \in {1, 2} :
          View(d, q, r).index = d /\ View(d, q, r).start = q /\ View(d, q, r) \in Moves
    BY DEF View, Moves
  <2> QED BY <2>2, <2>3, <2>4 DEF a
<1>7. IsScaled(I, J)
  BY <1>6 DEF IsScaled, w, m, v
<1>8. Unfolds(I, J, I, 1, c) /\ Unfolds(I, J, J, 2, e)
  <2>1. \A k \in 1 .. m :
          /\ v[k].index = x => v[k].index \in I \cup J /\ w(k).index = 1 /\ w(k).start = c * v[k].start
          /\ v[k].index \in I \cup J /\ v[k].index # x => w(k).index # 1
          /\ v[k].index = y => v[k].index \in I \cup J /\ w(k).index = 2 /\ w(k).start = e * v[k].start
          /\ v[k].index \in I \cup J /\ v[k].index # y => w(k).index # 2
    BY <1>4, <1>5, <1>6
  <2> QED BY <2>1 DEF Unfolds, w, m, v, x, y
<1>9. c \in Nat /\ e \in Nat
  BY <1>4 DEF c, e
<1>10. /\ Moved(unfold(term, I, J).views, 1) = c * Shift(term, Max(I))
       /\ Moved(unfold(term, I, J).views, 1) \in Nat
  BY <1>7, <1>8, <1>9, UnfoldedShift
<1>11. /\ Moved(unfold(term, I, J).views, 2) = e * Shift(term, Max(J))
       /\ Moved(unfold(term, I, J).views, 2) \in Nat
  BY <1>7, <1>8, <1>9, UnfoldedShift
<1>12. unfold(term, I, J).views \in Seq(Moves)
  <2>1. PICK h : /\ Solves(h, Len(term.views), Seq(Moves), <<>>,
                          [q \in (1 .. Len(term.views)) \X Seq(Moves) |-> Taken(I, J, q[1], q[2])])
                 /\ h[Len(term.views)] = unfold(term, I, J).views
    BY <1>7, UnfoldFolds
  <2>2. Len(term.views) \in 0 .. Len(term.views)
    BY DEF LayoutOk
  <2> HIDE DEF Moves
  <2> QED BY <2>1, <2>2 DEF Solves
<1> QED BY <1>7, <1>10, <1>11, <1>12 DEF c, e, s, x, y

-----------------------------------------------------------------------------
(* The address of an entry, split between the loops and the matrix *)

\* What the positions of a dense term contribute to the address of an entry.
Share(e) ==
  [d \in 1 .. Len(term.base.shape) |->
     (relidx(term, e)[d] - term.base.bbox[d].start) * term.base.stride[d]]

LEMMA StridesNat ==
  ASSUME NEW b, DenseBase(b)
  PROVE  /\ b.stride = [d \in 1 .. Len(b.shape) |-> b.stride[d]]
         /\ \A d \in 1 .. Len(b.shape) : b.stride[d] \in Nat
<1> DEFINE n == Len(b.shape)
           s == [q \in DOMAIN b.bbox |-> size(b.bbox[q])]
<1>1. DOMAIN b.bbox = 1 .. n /\ Positions(1 .. n) /\ Naturals(1 .. n, s)
  BY ShapeLength, BoxDigits DEF DenseBase
<1>2. b.stride = [d \in 1 .. n |-> Scale(s, 1 .. n, d)]
  BY <1>1 DEF DenseBase, Strides
<1> HIDE DEF s, n
<1>3. \A p \in 1 .. n : Scale(s, 1 .. n, p) \in Nat
  BY <1>1, NumberNat
<1> QED BY <1>2, <1>3 DEF n

LEMMA ShareNat ==
  ASSUME LayoutOk(term), ~ term.base.csc, NEW e \in StoredEntries
  PROVE  /\ Naturals(1 .. Len(term.base.shape), Share(e))
         /\ \A d \in 1 .. Len(term.base.shape) :
              term.base.stride[d] \in Nat /\ relidx(term, e)[d] - term.base.bbox[d].start \in Nat
<1> DEFINE b == term.base
           n == Len(b.shape)
           x == relidx(term, e)
<1>1. DenseBase(b) /\ IsBox(b.bbox, n) /\ n \in Nat
  BY BaseOk, BoxOk, ShapeLength DEF LayoutOk, DenseBase
<1>2. \A d \in 1 .. n : x[d] - b.bbox[d].start \in Nat
  <2> SUFFICES ASSUME NEW d \in 1 .. n PROVE x[d] - b.bbox[d].start \in Nat
    OBVIOUS
  <2>1. IsRange(b.bbox[d]) /\ x[d] \in Numbers(b.bbox[d])
    BY <1>1, StoredEntry DEF IsBox
  <2> QED BY <2>1 DEF IsRange, Numbers
<1>3. \A d \in 1 .. n : b.stride[d] \in Nat
  BY <1>1, StridesNat
<1>4. ASSUME NEW d \in 1 .. n PROVE (x[d] - b.bbox[d].start) * b.stride[d] \in Nat
  <2> DEFINE p == x[d] - b.bbox[d].start
             q == b.stride[d]
  <2>1. p \in Nat /\ q \in Nat
    BY <1>2, <1>3
  <2> HIDE DEF p, q
  <2>2. p * q \in Nat
    BY <2>1
  <2> QED BY <2>2 DEF p, q
<1> QED BY <1>2, <1>3, <1>4 DEF Share, Naturals

\* The address is what the loops move the pointer by and what the groups add.
LEMMA AddressSplits ==
  ASSUME LayoutOk(term), ~ term.base.csc, NEW I \in FusedVariants, NEW J \in FusedVariants,
         I \cap J = {}, groups = <<I, J>>, NEW e \in StoredEntries
  PROVE  /\ address(term, e)
              = LoopAddress(e) + (SumFunction(Part(Share(e), I)) + SumFunction(Part(Share(e), J)))
         /\ LoopAddress(e) \in Nat
         /\ SumFunction(Part(Share(e), I)) \in Nat /\ SumFunction(Part(Share(e), J)) \in Nat
         /\ I = {} => SumFunction(Part(Share(e), I)) = 0
         /\ J = {} => SumFunction(Part(Share(e), J)) = 0
<1> DEFINE n == Len(term.base.shape)
           D == 1 .. n
           f == Share(e)
           Q == I \cup J
           L == D \ Q
<1>1. Dims = D /\ n \in Nat
  BY DimsOk, ShapeLength
<1>2. I \in SUBSET D /\ J \in SUBSET D /\ Looped = L
  BY <1>1 DEF FusedVariants, Looped
<1>3. IsFiniteSet(D) /\ Naturals(D, f) /\ IsFiniteSet(Q)
  <2>1. IsFiniteSet(D)
    BY <1>1, FS_Interval
  <2>2. Q \in SUBSET D
    BY <1>2
  <2> QED BY <2>1, <2>2, ShareNat, FS_Subset
<1>4. address(term, e) = SumFunction(Part(f, D))
  <2>1. DOMAIN term.base.bbox = D
    <3>1. IsBox(term.base.bbox, n)
      BY BoxOk DEF LayoutOk
    <3> QED BY <3>1 DEF IsBox
  <2>2. DenseAddress(term.base, relidx(term, e)) = SumFunction(f)
    BY <2>1 DEF DenseAddress, Share
  <2>3. f = Part(f, D)
    BY DEF Share, Part
  <2> QED BY <2>2, <2>3 DEF address
<1>5. LoopAddress(e) = SumFunction(Part(f, L))
  <2>1. ASSUME NEW d \in L
        PROVE  term.base.stride[d] * (e[d] + Shift(term, d) - term.base.bbox[d].start) = f[d]
    <3> DEFINE p == relidx(term, e)[d] - term.base.bbox[d].start
               q == term.base.stride[d]
    <3>1. p \in Nat /\ q \in Nat /\ f[d] = p * q /\ d \in D
      BY ShareNat DEF Share
    <3>2. e[d] + Shift(term, d) = relidx(term, e)[d]
      BY <3>1, StoredEntry
    <3> HIDE DEF f
    <3>3. term.base.stride[d] * (e[d] + Shift(term, d) - term.base.bbox[d].start) = q * p
      <4> DEFINE y == e[d] + Shift(term, d) - term.base.bbox[d].start
      <4>1. e[d] \in Int /\ Shift(term, d) \in Int /\ term.base.bbox[d].start \in Int
        <5>1. IsRange(term.base.bbox[d])
          BY <3>1, BoxOk DEF LayoutOk, IsBox
        <5> QED BY <3>1, <5>1, StoredEntry, ShiftOk, LayoutViewable DEF IsRange
      <4>2. y = p
        BY <3>2, <4>1
      <4> HIDE DEF y, p
      <4>3. q * y = q * p
        BY <4>2
      <4> QED BY <4>3 DEF y
    <3> HIDE DEF p, q
    <3>4. q * p = p * q
      BY <3>1
    <3> QED BY <3>1, <3>3, <3>4
  <2> HIDE DEF f, L
  <2> QED BY <1>2, <2>1 DEF LoopAddress, Part
<1> HIDE DEF f, D, n
<1>6. /\ Q \in SUBSET D /\ L \in SUBSET D /\ I \in SUBSET Q /\ Q \ I = J
      /\ I \in SUBSET D /\ J \in SUBSET D
  BY <1>2
<1>7. Naturals(Q, f)
  BY <1>3, <1>6 DEF Naturals
<1> HIDE DEF Q
<1>8. SumFunction(Part(f, D)) = SumFunction(Part(f, Q)) + SumFunction(Part(f, L))
  BY <1>3, <1>6, SumSplits
<1> HIDE DEF L
<1>9. SumFunction(Part(f, Q)) = SumFunction(Part(f, I)) + SumFunction(Part(f, J))
  BY <1>3, <1>6, <1>7, SumSplits
<1>10. /\ SumFunction(Part(f, L)) \in Nat
       /\ SumFunction(Part(f, I)) \in Nat /\ (I = {} => SumFunction(Part(f, I)) = 0)
       /\ SumFunction(Part(f, J)) \in Nat /\ (J = {} => SumFunction(Part(f, J)) = 0)
  <2>1. SumFunction(Part(f, L)) \in Nat
    BY <1>3, <1>6, PartStep
  <2>2. SumFunction(Part(f, I)) \in Nat /\ (I = {} => SumFunction(Part(f, I)) = 0)
    BY <1>3, <1>6, PartStep
  <2>3. SumFunction(Part(f, J)) \in Nat /\ (J = {} => SumFunction(Part(f, J)) = 0)
    BY <1>3, <1>6, PartStep
  <2> QED BY <2>1, <2>2, <2>3
<1> QED BY <1>4, <1>5, <1>8, <1>9, <1>10 DEF f

\* The entries of a term count from 0.
LEMMA EntryNat ==
  ASSUME LayoutOk(term), NEW e \in StoredEntries
  PROVE  \A p \in 1 .. Len(term.base.shape) : e[p] \in Nat
<1> DEFINE b == term.base
           n == Len(b.shape)
<1> SUFFICES ASSUME NEW p \in 1 .. n PROVE e[p] \in Nat
  OBVIOUS
<1>1. Dims = 1 .. n
  BY DimsOk
<1>2. e[p] \in Numbers(Held(term, p))
  BY <1>1 DEF StoredEntries, Cells
<1>3. Held(term, p).start \in Nat
  <2>1. IsRange(b.bbox[p])
    BY BoxOk DEF LayoutOk, IsBox
  <2>2. Shift(term, p) \in Nat
    BY ShiftOk, LayoutViewable
  <2>3. CASE p \in Viewed(term)
    <3> DEFINE a == b.bbox[p].start - Shift(term, p)
    <3>1. a \in Int
      BY <2>1, <2>2 DEF IsRange
    <3>2. Held(term, p).start = Max({a, 0})
      BY <2>3 DEF Held, Interval
    <3> DEFINE z == 0
    <3>3. z \in Int /\ Held(term, p).start = Max({a, z})
      BY <3>2
    <3> HIDE DEF a, z
    <3>4. Max({a, z}) \in {a, z} /\ z <= Max({a, z})
      BY <3>1, <3>3, PairBounds
    <3> QED BY <3>1, <3>3, <3>4 DEF z
  <2>4. CASE p \notin Viewed(term)
    BY <2>1, <2>4 DEF Held, IsRange
  <2> QED BY <2>3, <2>4
<1>4. Held(term, p).stop \in Int
  BY HeldRange, LayoutViewable
<1> QED BY <1>2, <1>3, <1>4 DEF Numbers

\* What a group adds is what its fused number adds, moved by the views over it.
LEMMA GroupOffset ==
  ASSUME LayoutOk(term), ~ term.base.csc, NEW G \in FusedVariants, G # {}, NEW e \in StoredEntries
  PROVE  LET c == Scale(term.base.shape, G, Max(G)) * Shift(term, Max(G))
             start == subRange(term.base, G).start
         IN  /\ c \in Nat /\ Fused(G, e) \in Nat /\ start \in Nat
             /\ firstStride(term.base, G) \in Nat
             /\ (Fused(G, e) + c) - start \in Nat
             /\ SumFunction(Part(Share(e), G)) = ((Fused(G, e) + c) - start) * firstStride(term.base, G)
<1> DEFINE b == term.base
           n == Len(b.shape)
           x == relidx(term, e)
           c == Scale(b.shape, G, Max(G)) * Shift(term, Max(G))
<1>1. G \subseteq 1 .. n /\ Min(G) \in G
  BY GroupOk
<1>2. \A p \in 1 .. n : x[p] \in Numbers(b.bbox[p]) /\ x[p] = e[p] + Shift(term, p)
  BY StoredEntry
<1>3. \A p \in 1 .. n : e[p] \in Nat
  BY EntryNat
<1>4. /\ Number(b.shape, G, x) - subRange(b, G).start \in Nat
      /\ subRange(b, G).start \in Nat
      /\ SumFunction(Part(Share(e), G))
           = (Number(b.shape, G, x) - subRange(b, G).start) * firstStride(b, G)
  <2>1. \A p \in 1 .. Len(term.base.shape) : x[p] \in Numbers(term.base.bbox[p])
    BY <1>2
  <2> HIDE DEF x
  <2> QED BY <2>1, GroupAddress DEF Share, x
<1>5. /\ c \in Nat /\ Fused(G, e) \in Nat
      /\ Fused(G, e) + c = Number(b.shape, G, [p \in G |-> e[p] + Shift(term, p)])
  <2>1. \A p \in G : e[p] \in Nat
    BY <1>1, <1>3
  <2> QED BY <2>1, FusedNumber
<1>6. Number(b.shape, G, [p \in G |-> e[p] + Shift(term, p)]) = Number(b.shape, G, x)
  <2>1. \A p \in G : x[p] = [r \in G |-> e[r] + Shift(term, r)][p]
    BY <1>1, <1>2
  <2> DEFINE y == [r \in G |-> e[r] + Shift(term, r)]
  <2> HIDE DEF y, x, b
  <2>2. \A p \in G : x[p] = y[p]
    BY <2>1 DEF y
  <2>3. Number(b.shape, G, y) = Number(b.shape, G, x)
    BY <2>2 DEF Number
  <2> QED BY <2>3 DEF y
<1>7. firstStride(b, G) \in Nat
  BY <1>1, ShareNat DEF firstStride
<1> QED BY <1>4, <1>5, <1>6, <1>7

\* A dense base of two dimensions.
PairBase(b, r1, r2, s1, s2) == b.csc = FALSE /\ b.bbox = <<r1, r2>> /\ b.stride = <<s1, s2>>
Offset(p, a, r, s) == ((p + a) - r.start) * s
MovedBy(views, a, c) == Moved(views, 1) = a /\ Moved(views, 2) = c

\* The address of an entry of a matrix.
LEMMA PairAddress ==
  ASSUME NEW lay, NEW r1, NEW r2, NEW s1, NEW s2, PairBase(lay.base, r1, r2, s1, s2),
         NEW a, NEW c, MovedBy(lay.views, a, c),
         NEW p, NEW q, Offset(p, a, r1, s1) \in Nat, Offset(q, c, r2, s2) \in Nat
  PROVE  address(lay, <<p, q>>) = Offset(p, a, r1, s1) + Offset(q, c, r2, s2)
<1> DEFINE f == [d \in DOMAIN lay.base.bbox |->
                   (relidx(lay, <<p, q>>)[d] - lay.base.bbox[d].start) * lay.base.stride[d]]
<1>1. address(lay, <<p, q>>) = SumFunction(f)
  BY DEF address, DenseAddress, PairBase
<1>2. Shift(lay, 1) = a /\ Shift(lay, 2) = c
  BY DEF Shift, Moved, MovedBy
<1>3. relidx(lay, <<p, q>>)[1] = p + a /\ relidx(lay, <<p, q>>)[2] = q + c
  BY <1>2 DEF relidx
<1>4. DOMAIN f = 1 .. 2
  BY DEF PairBase
<1>5. f[1] = Offset(p, a, r1, s1) /\ f[2] = Offset(q, c, r2, s2)
  <2>1. /\ f[1] = (relidx(lay, <<p, q>>)[1] - r1.start) * s1
        /\ f[2] = (relidx(lay, <<p, q>>)[2] - r2.start) * s2
    BY DEF PairBase
  <2> HIDE DEF f
  <2> QED BY <1>3, <2>1 DEF Offset
<1> HIDE DEF f
<1> QED BY <1>1, <1>4, <1>5, PairSum

\* A base without views does not move its dimensions.
LEMMA NothingMoved ==
  ASSUME NEW d
  PROVE  Moved(<<>>, d) = 0
<1> DEFINE z == [k \in DOMAIN <<>> |-> IF (<<>>)[k].index = d THEN (<<>>)[k].start ELSE 0]
<1>1. DOMAIN z = {} /\ Moved(<<>>, d) = SumFunction(z)
  BY DEF Moved
<1>2. IsFiniteSet({}) /\ Naturals({}, z)
  BY FS_EmptySet DEF Naturals
<1> HIDE DEF z
<1> QED BY <1>1, <1>2, SumStep

\* No position of the term is fused: all of the address is the loops'.
LEMMA SplitScalar ==
  ASSUME LayoutOk(term), ~ term.base.csc, groups = <<{}, {}>>, matrix = MatrixOf({}, {}),
         NEW e \in StoredEntries
  PROVE  address(term, e) = LoopAddress(e) + address(matrix, MatrixEntry(e))
<1> DEFINE r == Interval(0, 1)
           base == DenseLayout(<<1, 1>>, <<r, r>>, FALSE)
<1>1. {} \in FusedVariants
  BY DEF FusedVariants
<1>2. address(term, e) = LoopAddress(e) /\ LoopAddress(e) \in Nat
  <2>1. {} \cap {} = {}
    OBVIOUS
  <2>2. /\ address(term, e) = LoopAddress(e) + (SumFunction(Part(Share(e), {})) + SumFunction(Part(Share(e), {})))
        /\ LoopAddress(e) \in Nat /\ SumFunction(Part(Share(e), {})) = 0
    BY <1>1, <2>1, AddressSplits
  <2> QED BY <2>2
<1>3. matrix = Layout(base)
  BY DEF MatrixOf
<1>4. First = {} /\ Second = {}
  BY DEF First, Second
<1>5. MatrixEntry(e) = <<0, 0>>
  <2> DEFINE z == [p \in {} |-> Scale(shapeOf(term), {}, p) * e[p]]
  <2>1. DOMAIN z = {} /\ IsFiniteSet({}) /\ Naturals({}, z)
    BY FS_EmptySet DEF Naturals
  <2>2. Fused({}, e) = SumFunction(z)
    BY DEF Fused, Number
  <2> HIDE DEF z
  <2>3. SumFunction(z) = 0
    BY <2>1, SumStep
  <2> QED BY <1>4, <2>2, <2>3 DEF MatrixEntry
<1>6. /\ base.csc = FALSE /\ base.bbox = <<r, r>> /\ base.stride = Strides(base.bbox)
      /\ matrix.base = base /\ matrix.views = <<>>
  <2> DEFINE bb == <<r, r>>
             plain == WithStride(<<1, 1>>, bb, Strides(bb))
  <2> HIDE DEF r
  <2>1. base = [plain EXCEPT !.range0 = <<>>]
    BY DEF DenseLayout
  <2>2. plain.csc = FALSE /\ plain.bbox = bb /\ plain.stride = Strides(bb)
    BY DEF WithStride
  <2>3. DOMAIN plain = {"csc", "shape", "bbox", "stride", "range0"}
    BY DEF WithStride
  <2> HIDE DEF base, plain
  <2> QED BY <1>3, <2>1, <2>2, <2>3 DEF Layout
<1>7. PICK s1 \in Nat, s2 \in Nat : base.stride = <<s1, s2>>
  <2> DEFINE s == [q \in DOMAIN <<r, r>> |-> size(<<r, r>>[q])]
             t(d) == Scale(s, DOMAIN <<r, r>>, d)
  <2>1. base.stride = [d \in 1 .. 2 |-> t(d)]
    <3> DEFINE bb == <<r, r>>
    <3>1. DOMAIN bb = 1 .. 2 /\ base.stride = Strides(bb)
      <4> HIDE DEF base
      <4> QED BY <1>6
    <3>2. Strides(bb) = [d \in DOMAIN bb |-> t(d)]
      BY DEF Strides
    <3> HIDE DEF t, bb, base
    <3> QED BY <3>1, <3>2
  <2>2. t(1) \in Nat /\ t(2) \in Nat
    <3> DEFINE D == 1 .. 2
    <3>1. DOMAIN <<r, r>> = D /\ 1 \in D /\ 2 \in D
      OBVIOUS
    <3>2. Naturals(D, s)
      BY DEF Naturals, size, Interval
    <3>3. Positions(D)
      <4>1. 1 \in Int /\ 2 \in Int
        OBVIOUS
      <4>2. IsFiniteSet(D)
        BY <4>1, FS_Interval
      <4> QED BY <4>2 DEF Positions
    <3> HIDE DEF s, D
    <3>4. \A p \in D : Scale(s, D, p) \in Nat
      BY <3>2, <3>3, NumberNat
    <3> QED BY <3>1, <3>4
  <2> HIDE DEF t
  <2>3. [d \in 1 .. 2 |-> t(d)] = <<t(1), t(2)>>
    OBVIOUS
  <2> QED BY <2>1, <2>2, <2>3
<1>8. address(matrix, <<0, 0>>) = 0
  <2> DEFINE z == 0
  <2>1. z = Offset(z, z, r, s1) /\ z = Offset(z, z, r, s2)
    BY DEF Interval, Offset
  <2>2. MovedBy(matrix.views, z, z)
    BY <1>6, NothingMoved DEF MovedBy
  <2>3. PairBase(matrix.base, r, r, s1, s2)
    BY <1>6, <1>7 DEF PairBase
  <2>4. z \in Nat /\ z + z = z
    OBVIOUS
  <2> HIDE DEF z, r
  <2>5. Offset(z, z, r, s1) \in Nat /\ Offset(z, z, r, s2) \in Nat
    BY <2>1, <2>4
  <2>6. address(matrix, <<z, z>>) = Offset(z, z, r, s1) + Offset(z, z, r, s2)
    BY <2>2, <2>3, <2>5, PairAddress, SMTT(30)
  <2> QED BY <2>1, <2>4, <2>6 DEF z
<1> QED BY <1>2, <1>5, <1>8

\* No position has the number 0.
LEMMA FusedNothing ==
  ASSUME NEW e
  PROVE  Fused({}, e) = 0
<1> DEFINE z == [p \in {} |-> Scale(shapeOf(term), {}, p) * e[p]]
<1>1. DOMAIN z = {} /\ IsFiniteSet({}) /\ Naturals({}, z)
  BY FS_EmptySet DEF Naturals
<1>2. Fused({}, e) = SumFunction(z)
  BY DEF Fused, Number
<1> HIDE DEF z
<1> QED BY <1>1, <1>2, SumStep

\* The groups in the order of their positions.
LEMMA GroupOrder ==
  ASSUME LayoutOk(term), NEW I \in FusedVariants, NEW J \in FusedVariants,
         I \cap J = {}, groups = <<I, J>>
  PROVE  /\ {First, Second} = {I, J}
         /\ I = {} => First = J /\ Second = {}
         /\ J = {} => First = I /\ Second = {}
         /\ I # {} /\ J # {} =>
              /\ Min(I) \in Int /\ Min(J) \in Int /\ Min(I) # Min(J)
              /\ First = IF Min(I) < Min(J) THEN I ELSE J
              /\ Second = IF Min(I) < Min(J) THEN J ELSE I
<1>1. groups[1] = I /\ groups[2] = J
  OBVIOUS
<1>2. ASSUME I # {}, J # {}
      PROVE  Min(I) \in Int /\ Min(J) \in Int /\ Min(I) # Min(J) /\ I # J
  <2>1. Min(I) \in I /\ Min(J) \in J /\ I \subseteq Int /\ J \subseteq Int
    BY <1>2, GroupOk DEF Positions
  <2> QED BY <2>1
<1>3. First = IF J # {} /\ (I = {} \/ Min(J) < Min(I)) THEN J ELSE I
  BY <1>1 DEF First
<1>4. Second = IF First = I THEN J ELSE I
  BY <1>1 DEF Second
<1>5. CASE I = {}
  BY <1>3, <1>4, <1>5
<1>6. CASE J = {}
  BY <1>3, <1>4, <1>6
<1>7. CASE I # {} /\ J # {}
  <2> DEFINE a == Min(I)
             c == Min(J)
  <2>1. a \in Int /\ c \in Int /\ a # c /\ I # J
    BY <1>2, <1>7
  <2> HIDE DEF a, c
  <2>2. First = IF c < a THEN J ELSE I
    BY <1>3, <1>7 DEF a, c
  <2>3. CASE a < c
    <3>1. First = I /\ Second = J
      BY <1>4, <2>1, <2>2, <2>3
    <3> QED BY <1>7, <2>1, <2>3, <3>1 DEF a, c
  <2>4. CASE ~ (a < c)
    <3>1. First = J /\ Second = I
      BY <1>4, <2>1, <2>2, <2>4
    <3>2. {First, Second} = {I, J}
      BY <3>1
    <3>3. First = (IF a < c THEN I ELSE J) /\ Second = (IF a < c THEN J ELSE I)
      BY <2>4, <3>1
    <3> QED BY <1>7, <2>1, <3>2, <3>3 DEF a, c
  <2> QED BY <2>3, <2>4
<1> QED BY <1>5, <1>6, <1>7

LEMMA AppendPair ==
  ASSUME NEW a, NEW b
  PROVE  Append(<<a>>, b) = <<a, b>>
<1>1. <<a>> \in Seq({a, b}) /\ b \in {a, b}
  OBVIOUS
<1>2. Len(<<a>>) = 1 /\ <<a>>[1] = a
  OBVIOUS
<1>3. /\ Len(Append(<<a>>, b)) = 2
      /\ Append(<<a>>, b)[1] = a /\ Append(<<a>>, b)[2] = b
      /\ Append(<<a>>, b) \in Seq({a, b})
  BY <1>1, <1>2, AppendProperties
<1>4. <<a, b>> \in Seq({a, b}) /\ Len(<<a, b>>) = 2 /\ <<a, b>>[1] = a /\ <<a, b>>[2] = b
  OBVIOUS
<1> DEFINE s == Append(<<a>>, b)
           t == <<a, b>>
<1>5. /\ s \in Seq({a, b}) /\ t \in Seq({a, b}) /\ Len(s) = 2 /\ Len(t) = 2
      /\ s[1] = t[1] /\ s[2] = t[2]
  BY <1>3, <1>4
<1> HIDE DEF s, t
<1>6. \A k \in 1 .. Len(s) : s[k] = t[k]
  BY <1>5
<1>7. s = t
  BY <1>5, <1>6, SeqEqual
<1> QED BY <1>7 DEF s, t

\* The base of a vector has a second dimension with one entry.
LEMMA VectorBase ==
  ASSUME NEW b, NEW G
  PROVE  LET w == withDummyDimension(vec(b, G))
             r == subRange(b, G)
             s == firstStride(b, G)
         IN  PairBase(w, r, Interval(0, 1), s, size(r) * s) /\ w.shape = <<subShape(b, G), 1>>
<1> DEFINE r1 == subRange(b, G)
           r2 == Interval(0, 1)
           s1 == firstStride(b, G)
           s2 == size(r1) * s1
           a == subShape(b, G)
           v == vec(b, G)
<1>1. v.bbox = <<r1>> /\ v.stride = <<s1>> /\ v.shape = <<a>>
  BY DEF vec, WithStride
<1>2. Append(v.bbox, r2) = <<r1, r2>> /\ Append(v.stride, s2) = <<s1, s2>> /\ Append(v.shape, 1) = <<a, 1>>
  <2> HIDE DEF r1, r2, s1, s2, v, a
  <2> QED BY <1>1, AppendPair
<1>3. Last(v.bbox) = r1 /\ Last(v.stride) = s1
  <2> HIDE DEF r1, s1, v
  <2> QED BY <1>1 DEF Last
<1> DEFINE bb == Append(v.bbox, r2)
           st == Append(v.stride, size(Last(v.bbox)) * Last(v.stride))
           sh == Append(v.shape, 1)
           w == WithStride(sh, bb, st)
<1>4. withDummyDimension(v) = w
  BY DEF withDummyDimension
<1> HIDE DEF v
<1>5. w.csc = FALSE /\ w.bbox = bb /\ w.stride = st /\ w.shape = sh
  BY DEF WithStride
<1> HIDE DEF r1, r2, s1, a
<1>6. bb = <<r1, r2>> /\ st = <<s1, s2>> /\ sh = <<a, 1>>
  BY <1>2, <1>3
<1> HIDE DEF bb, st, sh, w, s2
<1>7. PairBase(withDummyDimension(v), r1, r2, s1, s2) /\ withDummyDimension(v).shape = <<a, 1>>
  BY <1>4, <1>5, <1>6 DEF PairBase
<1> QED BY <1>7 DEF r1, r2, s1, s2, a, v

\* Only one of the groups has positions: the matrix is a vector.
LEMMA SplitVector ==
  ASSUME LayoutOk(term), ~ term.base.csc, NEW I \in FusedVariants, NEW J \in FusedVariants,
         I \cap J = {}, groups = <<I, J>>, (I = {}) # (J = {}), term.views = <<>>,
         matrix = MatrixOf(I, J), NEW e \in StoredEntries
  PROVE  address(term, e) = LoopAddress(e) + address(matrix, MatrixEntry(e))
<1> DEFINE G == I \cup J
           b == term.base
           r1 == subRange(b, G)
           r2 == Interval(0, 1)
           s1 == firstStride(b, G)
           s2 == size(r1) * s1
           p == Fused(G, e)
           add == SumFunction(Part(Share(e), G))
<1>1. G \in FusedVariants /\ G # {} /\ First = G /\ Second = {}
  <2>1. CASE I = {}
    <3>1. G = J /\ J # {}
      BY <2>1
    <3> QED BY <2>1, <3>1, GroupOrder
  <2>2. CASE J = {}
    <3>1. G = I /\ I # {}
      BY <2>2
    <3> QED BY <2>2, <3>1, GroupOrder
  <2> QED BY <2>1, <2>2
<1>2. /\ SumFunction(Part(Share(e), I)) + SumFunction(Part(Share(e), J)) = add
      /\ address(term, e)
           = LoopAddress(e) + (SumFunction(Part(Share(e), I)) + SumFunction(Part(Share(e), J)))
  <2>1. /\ address(term, e)
             = LoopAddress(e) + (SumFunction(Part(Share(e), I)) + SumFunction(Part(Share(e), J)))
        /\ SumFunction(Part(Share(e), I)) \in Nat /\ SumFunction(Part(Share(e), J)) \in Nat
        /\ I = {} => SumFunction(Part(Share(e), I)) = 0
        /\ J = {} => SumFunction(Part(Share(e), J)) = 0
    BY AddressSplits
  <2>2. CASE I = {}
    <3>1. G = J
      BY <2>2
    <3> QED BY <2>1, <2>2, <3>1
  <2>3. CASE J = {}
    <3>1. G = I
      BY <2>3
    <3> QED BY <2>1, <2>3, <3>1
  <2> QED BY <2>1, <2>2, <2>3
<1> DEFINE c == Scale(b.shape, G, Max(G)) * Shift(term, Max(G))
<1>3. /\ c \in Nat /\ p \in Nat /\ r1.start \in Nat /\ s1 \in Nat
      /\ (p + c) - r1.start \in Nat /\ add = ((p + c) - r1.start) * s1
  BY <1>1, GroupOffset
<1>4. c = 0
  <2>1. Viewed(term) = {}
    BY DEF Viewed, Views
  <2>2. Shift(term, Max(G)) = 0
    BY <2>1, ShiftOk, LayoutViewable
  <2>3. Scale(b.shape, G, Max(G)) \in Nat
    <3>1. Max(G) \in G
      BY <1>1, GroupOk
    <3> HIDE DEF G
    <3> QED BY <1>1, <3>1, GroupStrides
  <2> QED BY <2>2, <2>3
<1>5. matrix = Layout(withDummyDimension(vec(b, G)))
  BY DEF MatrixOf
<1>6. /\ matrix.views = <<>> /\ PairBase(matrix.base, r1, r2, s1, s2)
  <2>1. matrix.views = <<>> /\ matrix.base = withDummyDimension(vec(b, G))
    BY <1>5 DEF Layout
  <2> QED BY <2>1, VectorBase
<1>7. s2 \in Int
  <2>1. size(r1) \in Int
    <3> DEFINE x == [k \in G |-> b.bbox[k].stop - 1]
    <3>1. G \subseteq 1 .. Len(b.shape) /\ Positions(G)
      BY <1>1, GroupOk
    <3>2. IsShape(b.shape) /\ IsBox(b.bbox, Len(b.shape))
      BY BaseOk, BoxOk DEF LayoutOk
    <3>3. Naturals(G, b.shape)
      BY <3>1, <3>2, ShapeLength DEF Naturals
    <3>4. Naturals(G, x)
      <4> SUFFICES ASSUME NEW k \in G PROVE b.bbox[k].stop - 1 \in Nat
        BY DEF Naturals
      <4>1. IsRange(b.bbox[k])
        BY <3>1, <3>2 DEF IsBox
      <4> QED BY <4>1 DEF IsRange
    <3>5. r1.stop = Number(b.shape, G, x) + 1
      BY DEF subRange, Interval
    <3> HIDE DEF x, b, G
    <3>6. Number(b.shape, G, x) \in Nat
      BY <3>1, <3>3, <3>4, NumberNat
    <3> QED BY <1>3, <3>5, <3>6 DEF size
  <2> HIDE DEF r1, s1
  <2> QED BY <1>3, <2>1
<1>8. MatrixEntry(e) = <<p, 0>>
  BY <1>1, FusedNothing DEF MatrixEntry
<1> DEFINE z == 0
<1>9. Offset(p, z, r1, s1) = add /\ add \in Nat
  <2> HIDE DEF p, r1, s1, add, c
  <2>1. p + c = p + z
    BY <1>3, <1>4
  <2>2. ((p + c) - r1.start) * s1 \in Nat
    <3> DEFINE y == (p + c) - r1.start
    <3>1. y \in Nat /\ s1 \in Nat
      BY <1>3
    <3> HIDE DEF y
    <3>2. y * s1 \in Nat
      BY <3>1
    <3> QED BY <3>2 DEF y
  <2> HIDE DEF z
  <2> QED BY <1>3, <2>1, <2>2 DEF Offset
<1>10. Offset(z, z, r2, s2) = 0
  <2> HIDE DEF s2
  <2> QED BY <1>7 DEF Offset, Interval
<1>11. MovedBy(matrix.views, z, z)
  BY <1>6, NothingMoved DEF MovedBy
<1>12. z \in Nat /\ z = 0
  OBVIOUS
<1> HIDE DEF z, r1, r2, s1, s2, p, add
<1>13. Offset(p, z, r1, s1) \in Nat /\ Offset(z, z, r2, s2) \in Nat
  BY <1>9, <1>10, <1>12
<1>14. address(matrix, <<p, z>>) = Offset(p, z, r1, s1) + Offset(z, z, r2, s2)
  BY <1>6, <1>11, <1>13, PairAddress, SMTT(30)
<1> QED BY <1>2, <1>8, <1>9, <1>10, <1>12, <1>14

\* The groups of a term of two dimensions.
LEMMA TwoDims ==
  ASSUME LayoutOk(term), NEW I \in FusedVariants, NEW J \in FusedVariants,
         I \cap J = {}, I # {}, J # {}, Cardinality(Dims) = 2
  PROVE  /\ Dims = 1 .. 2 /\ Len(term.base.shape) = 2
         /\ (I = {1} /\ J = {2}) \/ (I = {2} /\ J = {1})
<1> DEFINE n == Len(term.base.shape)
<1>1. Dims = 1 .. 2
  <2>1. Dims = 1 .. n /\ n \in Nat
    BY DimsOk, ShapeLength
  <2>2. Cardinality(1 .. n) = n
    <3> HIDE DEF n
    <3> QED BY <2>1, FS_Interval
  <2> HIDE DEF n
  <2>3. n = 2
    BY <2>1, <2>2
  <2> QED BY <2>1, <2>3
<1>2. I \subseteq 1 .. 2 /\ J \subseteq 1 .. 2
  BY <1>1 DEF FusedVariants
<1>3. (I = {1} /\ J = {2}) \/ (I = {2} /\ J = {1})
  <2>1. \A x \in I \cup J : x = 1 \/ x = 2
    BY <1>2
  <2>2. PICK i \in I, j \in J : i # j
    OBVIOUS
  <2>3. CASE i = 1 /\ j = 2
    <3>1. 2 \notin I /\ 1 \notin J
      BY <2>2, <2>3
    <3>2. I = {1} /\ J = {2}
      BY <2>1, <2>2, <2>3, <3>1
    <3> QED BY <3>2
  <2>4. CASE i = 2 /\ j = 1
    <3>1. 1 \notin I /\ 2 \notin J
      BY <2>2, <2>4
    <3>2. I = {2} /\ J = {1}
      BY <2>1, <2>2, <2>4, <3>1
    <3> QED BY <3>2
  <2> QED BY <2>1, <2>2, <2>3, <2>4
<1>4. n = 2
  <2>1. Dims = 1 .. n /\ n \in Nat
    BY DimsOk, ShapeLength
  <2> HIDE DEF n
  <2> QED BY <1>1, <2>1
<1> QED BY <1>1, <1>3, <1>4

LEMMA CscDims ==
  ASSUME LayoutOk(term), term.base.csc
  PROVE  Cardinality(Dims) = 2
<1>1. CscBase(term.base)
  BY BaseOk DEF LayoutOk
<1>2. Len(term.base.shape) = 2 /\ Dims = 1 .. 2
  BY <1>1, CscOk, DimsOk
<1> DEFINE n == 2
<1>3. n \in Nat /\ Dims = 1 .. n
  BY <1>2
<1> HIDE DEF n
<1>4. Cardinality(1 .. n) = n
  BY <1>3, FS_Interval
<1> QED BY <1>3, <1>4 DEF n

\* A term of two dimensions is a matrix as it is.
LEMMA SplitMatrix ==
  ASSUME LayoutOk(term), NEW I \in FusedVariants, NEW J \in FusedVariants,
         I \cap J = {}, I # {}, J # {}, groups = <<I, J>>, Cardinality(Dims) = 2,
         matrix = MatrixOf(I, J), NEW e \in StoredEntries
  PROVE  address(term, e) = LoopAddress(e) + address(matrix, MatrixEntry(e))
<1> DEFINE n == Len(term.base.shape)
           s == shapeOf(term)
<1>1. Dims = 1 .. 2
  BY TwoDims
<1>3. (I = {1} /\ J = {2}) \/ (I = {2} /\ J = {1})
  BY TwoDims
<1>4. First = {1} /\ Second = {2}
  <2>1. Min({1}) = 1 /\ Min({2}) = 2
    <3>1. Min({1}) \in {1} /\ Min({2}) \in {2}
      <4>1. {1} \subseteq Nat /\ {1} # {} /\ {2} \subseteq Nat /\ {2} # {}
        OBVIOUS
      <4> QED BY <4>1, MinOk
    <3> QED BY <3>1
  <2>2. /\ First = IF Min(I) < Min(J) THEN I ELSE J
        /\ Second = IF Min(I) < Min(J) THEN J ELSE I
    BY GroupOrder
  <2> QED BY <1>3, <2>1, <2>2
<1>5. Looped = {} /\ LoopAddress(e) = 0
  <2>1. Looped = {}
    BY <1>1, <1>3 DEF Looped
  <2> DEFINE z == [d \in Looped |->
                     term.base.stride[d] * (e[d] + Shift(term, d) - term.base.bbox[d].start)]
  <2>2. DOMAIN z = {} /\ IsFiniteSet({}) /\ Naturals({}, z)
    BY <2>1, FS_EmptySet DEF Naturals
  <2>3. LoopAddress(e) = SumFunction(z)
    BY DEF LoopAddress
  <2> HIDE DEF z
  <2>4. SumFunction(z) = 0
    BY <2>2, SumStep
  <2> QED BY <2>1, <2>3, <2>4
<1>6. e = [d \in 1 .. 2 |-> e[d]] /\ e[1] \in Int /\ e[2] \in Int
  <2>1. n = 2
    <3>1. Dims = 1 .. n /\ n \in Nat
      BY DimsOk, ShapeLength
    <3> HIDE DEF n
    <3> QED BY <1>1, <3>1
  <2> QED BY <2>1, StoredEntry
<1>7. ASSUME NEW p \in {1, 2} PROVE Fused({p}, e) = e[p]
  <2> DEFINE z == [q \in {p} |-> Scale(s, {p}, q) * e[q]]
  <2>1. Scale(s, {p}, p) = 1
    <3>1. {q \in {p} : q < p} = {}
      OBVIOUS
    <3>2. Times(s, {}) = 1
      <4>1. IsFiniteSet({}) /\ Naturals({}, s)
        BY FS_EmptySet DEF Naturals
      <4> QED BY <4>1, TimesStep
    <3> QED BY <3>1, <3>2 DEF Scale
  <2> DEFINE D == {p}
  <2>2. z[p] = e[p] /\ e[p] \in Nat /\ Naturals(D, z) /\ DOMAIN z = D
    <3>1. e[p] \in Int /\ 1 * e[p] = e[p]
      BY <1>6
    <3>2. e[p] \in Nat
      BY <1>1, DimsOk, EntryNat
    <3>3. z[p] = e[p]
      BY <2>1, <3>1
    <3> QED BY <3>2, <3>3 DEF Naturals
  <2> DEFINE R == D \ {p}
  <2>3. IsFiniteSet(D) /\ p \in D /\ R = {} /\ R \in SUBSET D
    BY FS_Singleton
  <2>4. Fused({p}, e) = SumFunction(z)
    BY DEF Fused, Number
  <2> HIDE DEF z, D, R
  <2>5. SumFunction(z) = z[p] + SumFunction(Part(z, R))
    BY <2>2, <2>3, SumStep DEF R
  <2>6. SumFunction(Part(z, R)) = 0
    BY <2>2, <2>3, PartStep
  <2> QED BY <2>2, <2>3, <2>4, <2>5, <2>6
<1>8. MatrixEntry(e) = <<e[1], e[2]>>
  BY <1>4, <1>7 DEF MatrixEntry
<1>9. matrix = term
  BY DEF MatrixOf
<1>10. relidx(term, <<e[1], e[2]>>) = relidx(term, e)
  BY <1>6 DEF relidx
<1>11. address(matrix, MatrixEntry(e)) = address(term, e)
  BY <1>8, <1>9, <1>10 DEF address
<1>12. address(term, e) \in Int
  <2>1. requiredReals(term.base) \in Nat /\ address(term, e) \in 0 .. requiredReals(term.base) - 1
    BY EntryAddress
  <2> QED BY <2>1
<1> QED BY <1>5, <1>11, <1>12

\* A term of more dimensions is unfolded to a matrix.
LEMMA SplitUnfolded ==
  ASSUME LayoutOk(term), ~ term.base.csc, NEW I \in FusedVariants, NEW J \in FusedVariants,
         I \cap J = {}, I # {}, J # {}, groups = <<I, J>>, Cardinality(Dims) # 2,
         SlicesKeepPlace, matrix = MatrixOf(I, J), NEW e \in StoredEntries
  PROVE  address(term, e) = LoopAddress(e) + address(matrix, MatrixEntry(e))
<1> DEFINE b == term.base
           W == unfold(term, I, J).views
           c(G) == Scale(b.shape, G, Max(G)) * Shift(term, Max(G))
           add(G) == SumFunction(Part(Share(e), G))
           off(G) == Offset(Fused(G, e), c(G), subRange(b, G), firstStride(b, G))
<1>1. /\ {First, Second} = {I, J} /\ First = IF Min(I) < Min(J) THEN I ELSE J
      /\ Second = IF Min(I) < Min(J) THEN J ELSE I
  BY GroupOrder
<1>2. matrix = unfold(term, I, J)
  BY DEF MatrixOf
<1>3. matrix.base = unfoldBase(b, First, Second) /\ matrix.views = W
  <2> DEFINE S == IF Min(I) < Min(J) THEN I ELSE J
             T == IF Min(I) < Min(J) THEN J ELSE I
  <2>1. unfold(term, I, J).base = unfoldBase(b, S, T)
    BY DEF unfold
  <2>2. First = S /\ Second = T
    BY <1>1
  <2> HIDE DEF S, T
  <2> QED BY <1>2, <2>1, <2>2
<1>4. PairBase(matrix.base, subRange(b, First), subRange(b, Second),
               firstStride(b, First), firstStride(b, Second))
  BY <1>3 DEF unfoldBase, WithStride, PairBase
<1>5. Moved(W, 1) = c(I) /\ Moved(W, 2) = c(J)
  BY UnfoldedViews
<1>6. ASSUME Viewed(term) \cap (I \cup J) = {}
      PROVE  c(I) = 0 /\ c(J) = 0
  <2>1. \A G \in {I, J} : Max(G) \in G /\ Max(G) \notin Viewed(term) /\ Scale(b.shape, G, Max(G)) \in Nat
    <3> SUFFICES ASSUME NEW G \in {I, J}
                 PROVE  /\ Max(G) \in G /\ Max(G) \notin Viewed(term)
                        /\ Scale(b.shape, G, Max(G)) \in Nat
      OBVIOUS
    <3>1. Max(G) \in G
      BY GroupOk
    <3>2. Max(G) \notin Viewed(term)
      BY <1>6, <3>1
    <3>3. Scale(b.shape, G, Max(G)) \in Nat
      BY <3>1, GroupStrides
    <3> QED BY <3>1, <3>2, <3>3
  <2>2. Shift(term, Max(I)) = 0 /\ Shift(term, Max(J)) = 0
    BY <2>1, ShiftOk, LayoutViewable
  <2>3. \A k \in Nat : k * 0 = 0
    OBVIOUS
  <2> QED BY <2>1, <2>2, <2>3
<1>7. MovedBy(W, c(First), c(Second))
  <2>1. CASE First = I
    <3>1. Second = J
      BY <1>1, <2>1
    <3> HIDE DEF c
    <3> QED BY <1>5, <2>1, <3>1 DEF MovedBy
  <2>2. CASE First # I
    <3>1. First = J /\ Second = I
      BY <1>1, <2>2
    <3>2. Viewed(term) \cap (I \cup J) = {}
      BY <2>2, <3>1 DEF SlicesKeepPlace
    <3>3. c(I) = 0 /\ c(J) = 0
      BY <1>6, <3>2
    <3> HIDE DEF c
    <3> QED BY <1>5, <3>1, <3>3 DEF MovedBy
  <2> QED BY <2>1, <2>2
<1>8. ASSUME NEW G \in {I, J} PROVE off(G) \in Nat /\ off(G) = add(G)
  <2> DEFINE y == (Fused(G, e) + c(G)) - subRange(b, G).start
             q == firstStride(b, G)
  <2>1. y \in Nat /\ q \in Nat /\ add(G) = y * q
    <3>1. G \in FusedVariants /\ G # {}
      OBVIOUS
    <3> QED BY <3>1, GroupOffset
  <2>2. off(G) = y * q
    BY DEF Offset
  <2> HIDE DEF y, q, off, add
  <2>3. y * q \in Nat
    BY <2>1
  <2> QED BY <2>1, <2>2, <2>3
<1>9. address(term, e) = LoopAddress(e) + (add(I) + add(J)) /\ add(I) \in Nat /\ add(J) \in Nat
  BY AddressSplits
<1>10. MatrixEntry(e) = <<Fused(First, e), Fused(Second, e)>>
  BY DEF MatrixEntry
<1>11. off(First) \in Nat /\ off(Second) \in Nat /\ off(First) = add(First) /\ off(Second) = add(Second)
  <2>1. First \in {I, J} /\ Second \in {I, J}
    BY <1>1
  <2> HIDE DEF off, add
  <2> QED BY <1>8, <2>1
<1>12. address(matrix, MatrixEntry(e)) = off(First) + off(Second)
  <2> HIDE DEF c
  <2> QED BY <1>3, <1>4, <1>7, <1>10, <1>11, PairAddress, SMTT(30)
<1>13. add(First) + add(Second) = add(I) + add(J)
  <2> HIDE DEF add
  <2>1. (First = I /\ Second = J) \/ (First = J /\ Second = I)
    BY <1>1
  <2> QED BY <1>9, <2>1
<1> HIDE DEF add, off
<1> QED BY <1>9, <1>11, <1>12, <1>13

LEMMA EntrySplits ==
  ASSUME TermInv, phase # "Node", SlicesKeepPlace, NEW e \in StoredEntries
  PROVE  address(term, e) = LoopAddress(e) + address(matrix, MatrixEntry(e))
<1>1. LayoutOk(term) /\ MatrixInv
  BY DEF TermInv
<1>2. PICK I \in FusedVariants, J \in FusedVariants :
        I \cap J = {} /\ HasMethod(I, J) /\ groups = <<I, J>> /\ matrix = MatrixOf(I, J)
  BY <1>1 DEF MatrixInv
<1>3. /\ term.base.csc \in BOOLEAN
      /\ (I = {}) # (J = {}) => term.views = <<>>
      /\ term.base.csc => I # {} /\ J # {}
  BY <1>1, <1>2, BaseOk DEF HasMethod, LayoutOk
<1>4. CASE I = {} /\ J = {}
  BY <1>1, <1>2, <1>3, <1>4, SplitScalar
<1>5. CASE (I = {}) # (J = {})
  BY <1>1, <1>2, <1>3, <1>5, SplitVector
<1>6. CASE I # {} /\ J # {} /\ Cardinality(Dims) = 2
  BY <1>1, <1>2, <1>6, SplitMatrix
<1>7. CASE I # {} /\ J # {} /\ Cardinality(Dims) # 2
  <2>1. ~ term.base.csc
    BY <1>1, <1>7, CscDims
  <2> QED BY <1>1, <1>2, <1>7, <2>1, SplitUnfolded
<1> QED BY <1>4, <1>5, <1>6, <1>7

\* The pointer that the loops move and the matrix that the GEMM sees lead to the
\* address of the entry, for terms of any dimension that were sliced and permuted
\* in any order, and every way to fuse positions to rows and columns.
THEOREM LoopsAndMatrixSplitAddress == TSpec => []SplitAddress
<1>1. TermInv => SplitAddress
  BY EntrySplits DEF SplitAddress
<1> QED BY <1>1, LayoutsCorrect, PTL

-----------------------------------------------------------------------------
(* Multiples of the vector length *)

Multiple(k) == \E q \in Int : k = q * AlignedReals

LEMMA MultipleSum ==
  ASSUME NEW a, NEW b, Multiple(a), Multiple(b)
  PROVE  a \in Int /\ b \in Int /\ Multiple(a + b) /\ Multiple(a - b)
<1> DEFINE A == AlignedReals
<1>1. A \in Int
  BY AlignmentAssumption
<1>2. PICK p \in Int : a = p * A
  BY DEF Multiple
<1>3. PICK q \in Int : b = q * A
  BY DEF Multiple
<1> HIDE DEF A
<1>4. /\ p * A \in Int /\ q * A \in Int /\ p + q \in Int /\ p - q \in Int
      /\ (p + q) * A = p * A + q * A /\ (p - q) * A = p * A - q * A
  BY <1>1, <1>2, <1>3
<1> QED BY <1>2, <1>3, <1>4 DEF Multiple, A

LEMMA MultipleTimes ==
  ASSUME NEW a \in Int, NEW b, Multiple(b)
  PROVE  Multiple(a * b)
<1> DEFINE A == AlignedReals
<1>1. A \in Int
  BY AlignmentAssumption
<1>2. PICK q \in Int : b = q * A
  BY DEF Multiple
<1> HIDE DEF A
<1>3. a * q \in Int /\ a * (q * A) = (a * q) * A
  BY <1>1, <1>2
<1> QED BY <1>2, <1>3 DEF Multiple, A

LEMMA MultipleZero == Multiple(0)
<1> DEFINE z == 0
<1>1. z \in Int /\ z = z * AlignedReals
  BY AlignmentAssumption
<1>2. Multiple(z)
  BY <1>1 DEF Multiple
<1> QED BY <1>2

\* Between two multiples there is room for a vector.
LEMMA MultipleGap ==
  ASSUME NEW x, NEW y, Multiple(x), Multiple(y), x < y
  PROVE  x + AlignedReals <= y
<1> DEFINE A == AlignedReals
<1>1. A \in Nat \ {0}
  BY AlignmentAssumption
<1>2. PICK p \in Int : x = p * A
  BY DEF Multiple
<1>3. PICK q \in Int : y = q * A
  BY DEF Multiple
<1> HIDE DEF A
<1>4. CASE q <= p
  <2>1. PICK d \in Nat : p = q + d
    <3>1. p - q \in Nat /\ p = q + (p - q)
      BY <1>2, <1>3, <1>4
    <3> QED BY <3>1
  <2>2. d * A \in Nat /\ q * A \in Int /\ (q + d) * A = q * A + d * A
    BY <1>1, <1>3, <2>1
  <2> QED BY <1>2, <1>3, <2>1, <2>2
<1>5. CASE p < q
  <2>1. PICK d \in Nat : q = (p + 1) + d
    <3>1. q - (p + 1) \in Nat /\ q = (p + 1) + (q - (p + 1))
      BY <1>2, <1>3, <1>5
    <3> QED BY <3>1
  <2>2. /\ d * A \in Nat /\ p * A \in Int /\ (p + 1) * A = p * A + A
        /\ ((p + 1) + d) * A = (p + 1) * A + d * A
    BY <1>1, <1>2, <2>1
  <2> QED BY <1>1, <1>2, <1>3, <2>1, <2>2 DEF A
<1> QED BY <1>2, <1>3, <1>4, <1>5

LEMMA MultipleChecked ==
  ASSUME NEW k \in Nat, checkAlignment(k)
  PROVE  Multiple(k)
<1> DEFINE A == AlignedReals
           q == k \div A
           r == k % A
<1>1. A \in Nat \ {0}
  BY AlignmentAssumption
<1>2. q \in Int /\ k = A * q + r
  BY <1>1
<1>3. r = 0
  BY DEF checkAlignment
<1> HIDE DEF q, r, A
<1>4. k = q * A
  BY <1>1, <1>2, <1>3
<1> QED BY <1>2, <1>4 DEF Multiple, A

LEMMA CheckedMultiple ==
  ASSUME NEW k \in Nat, Multiple(k)
  PROVE  checkAlignment(k)
<1> DEFINE A == AlignedReals
           q == k \div A
           r == k % A
<1>1. A \in Nat \ {0}
  BY AlignmentAssumption
<1>2. q \in Int /\ k = A * q + r /\ r \in 0 .. A - 1
  BY <1>1
<1> HIDE DEF q, r
<1>3. Multiple(q * A)
  BY <1>2 DEF Multiple
<1>4. r = k - q * A /\ q * A \in Int
  <2> HIDE DEF A
  <2> QED BY <1>1, <1>2
<1>5. Multiple(r)
  BY <1>3, <1>4, MultipleSum
<1> DEFINE z == 0
<1>6. Multiple(z) /\ z = 0
  BY MultipleZero
<1> HIDE DEF z
<1>7. z < r => z + A <= r
  BY <1>5, <1>6, MultipleGap
<1>8. r = 0
  <2> HIDE DEF A
  <2> QED BY <1>1, <1>2, <1>6, <1>7
<1> QED BY <1>8 DEF checkAlignment, r

LEMMA MultipleBounds ==
  ASSUME NEW k \in Nat
  PROVE  /\ Multiple(alignedLower(k)) /\ k < alignedLower(k) + AlignedReals
         /\ Multiple(alignedUpper(k)) /\ alignedUpper(k) < k + AlignedReals
<1> DEFINE A == AlignedReals
           q == k \div A
           r == k % A
<1>1. A \in Nat \ {0}
  BY AlignmentAssumption
<1>2. q \in Int /\ k = A * q + r /\ r \in 0 .. A - 1
  BY <1>1
<1>3. (A - r) % A = IF r = 0 THEN 0 ELSE A - r
  <2> HIDE DEF r
  <2>1. CASE r = 0
    <3>1. A % A = 0
      <4> HIDE DEF A
      <4> QED BY <1>1
    <3> QED BY <1>1, <2>1, <3>1
  <2>2. CASE r # 0
    <3> DEFINE t == A - r
    <3>1. t \in 0 .. A - 1
      BY <1>1, <1>2, <2>2
    <3> HIDE DEF t, A
    <3>2. t % A = t
      BY <1>1, <3>1
    <3> QED BY <2>2, <3>2 DEF t
  <2> QED BY <2>1, <2>2
<1>4. alignedLower(k) = k - r /\ alignedUpper(k) = k + (IF r = 0 THEN 0 ELSE A - r)
  BY <1>3 DEF alignedLower, alignedUpper
<1> HIDE DEF q, r
<1>5. Multiple(q * A) /\ Multiple(A)
  <2>1. 1 * A = A /\ 1 \in Int
    BY <1>1
  <2> QED BY <1>2, <2>1 DEF Multiple
<1>6. Multiple(q * A + A) /\ q * A \in Int
  BY <1>5, MultipleSum
<1>7. q * A = k - r
  <2> HIDE DEF A
  <2> QED BY <1>1, <1>2, <1>6
<1>8. alignedLower(k) = q * A /\ alignedUpper(k) = IF r = 0 THEN q * A ELSE q * A + A
  <2> HIDE DEF A
  <2> QED BY <1>1, <1>2, <1>4, <1>6, <1>7
<1>9. Multiple(alignedLower(k)) /\ Multiple(alignedUpper(k))
  BY <1>5, <1>6, <1>8
<1> HIDE DEF A
<1>10. k < (k - r) + A /\ k + (IF r = 0 THEN 0 ELSE A - r) < k + A
  BY <1>1, <1>2
<1> QED BY <1>4, <1>9, <1>10 DEF A

\* Rounding does not pass a multiple.
LEMMA AlignedWithin ==
  ASSUME NEW k \in Nat, NEW b, Multiple(b)
  PROVE  (b <= k => b <= alignedLower(k)) /\ (k <= b => alignedUpper(k) <= b)
<1> DEFINE A == AlignedReals
           l == alignedLower(k)
           u == alignedUpper(k)
<1>1. A \in Nat \ {0} /\ b \in Int
  BY AlignmentAssumption, MultipleSum
<1>2. Multiple(l) /\ k < l + A /\ Multiple(u) /\ u < k + A
  BY MultipleBounds
<1>3. l \in Int /\ u \in Int
  BY <1>2, MultipleSum
<1> HIDE DEF l, u
<1>4. (l < b => l + A <= b) /\ (b < u => b + A <= u)
  BY <1>2, MultipleGap
<1> HIDE DEF A
<1> QED BY <1>1, <1>2, <1>3, <1>4 DEF l, u

LEMMA SumMultiple ==
  ASSUME NEW S, IsFiniteSet(S), NEW s, Naturals(S, s), \A x \in S : Multiple(s[x])
  PROVE  Multiple(SumFunction(Part(s, S)))
<1> DEFINE P == {t \in SUBSET S : Multiple(SumFunction(Part(s, t)))}
<1>1. {} \in P
  <2>1. SumFunction(Part(s, {})) = 0
    BY PartStep
  <2> QED BY <2>1, MultipleZero
<1>2. ASSUME NEW t \in SUBSET S, t # {}, \A x \in t : t \ {x} \in P PROVE t \in P
  <2>1. PICK x \in t : TRUE
    BY <1>2
  <2>2. SumFunction(Part(s, t)) = s[x] + SumFunction(Part(s, t \ {x}))
    BY <2>1, PartStep
  <2>3. Multiple(s[x]) /\ Multiple(SumFunction(Part(s, t \ {x})))
    BY <1>2, <2>1
  <2> QED BY <2>2, <2>3, MultipleSum
<1> HIDE DEF P
<1>3. SUBSET S \subseteq P
  BY <1>1, <1>2, FiniteSetInduction
<1> QED BY <1>3 DEF P

\* The views of a dimension move it by whole vectors if each of them does.
LEMMA ShiftMultiple ==
  ASSUME NEW lay, Viewable(lay), NEW d, \A v \in Views(lay) : v.index = d => checkAlignment(v.start)
  PROVE  Multiple(Shift(lay, d))
<1> DEFINE D == 1 .. Len(lay.views)
           s == shifts(lay, d)
<1>1. IsFiniteSet(D) /\ DOMAIN lay.views = D
  <2>1. Len(lay.views) \in Nat /\ lay.views = [k \in D |-> lay.views[k]]
    BY DEF Viewable
  <2>2. IsFiniteSet(D)
    BY <2>1, FS_Interval
  <2> HIDE DEF D, s
  <2>3. DOMAIN [k \in D |-> lay.views[k]] = D
    OBVIOUS
  <2> QED BY <2>1, <2>2, <2>3
<1>2. Shift(lay, d) = SumFunction(Part(s, D)) /\ Naturals(D, s)
  <2>1. Shift(lay, d) = SumFunction(s) /\ Naturals(D, s)
    BY ShiftOk
  <2>2. s = Part(s, D)
    BY DEF shifts, Part
  <2> HIDE DEF s
  <2> QED BY <2>1, <2>2
<1>3. ASSUME NEW k \in D PROVE Multiple(s[k])
  <2>1. CASE lay.views[k].index = d
    <3>1. lay.views[k] \in Views(lay) /\ lay.views[k].start \in Nat
      BY <1>1 DEF Views, Viewable
    <3>2. s[k] = lay.views[k].start
      BY <2>1 DEF shifts
    <3> QED BY <2>1, <3>1, <3>2, MultipleChecked
  <2>2. CASE lay.views[k].index # d
    BY <2>2, MultipleZero DEF shifts
  <2> QED BY <2>1, <2>2
<1> HIDE DEF D, s
<1> QED BY <1>1, <1>2, <1>3, SumMultiple

\* A dimension that is viewed has the size of one of its views.
LEMMA ViewedSize ==
  ASSUME NEW lay, Viewable(lay), NEW d \in 1 .. Len(lay.base.shape), d \in Viewed(lay)
  PROVE  \E v \in Views(lay) : v.index = d /\ shapeOf(lay)[d] = v.stop - v.start
<1> DEFINE m == Len(lay.views)
           n == Len(lay.base.shape)
           T == [1 .. n -> Int]
           v == lay.views
           base == lay.base.shape
           step == [q \in (1 .. m) \X T |-> [q[2] EXCEPT ![v[q[1]].index] = v[q[1]].stop - v[q[1]].start]]
           Seen(h, k) == \E i \in 1 .. k : v[i].index = d /\ h[k][d] = v[i].stop - v[i].start
           None(k) == \A i \in 1 .. k : v[i].index # d
<1>1. PICK h : Solves(h, m, T, base, step) /\ h[m] = shapeOf(lay)
  BY ShapeFolds
<1>2. m \in Nat /\ DOMAIN v = 1 .. m
  BY DEF Viewable
<1>3. ASSUME NEW k \in 1 .. m
      PROVE  h[k][d] = IF v[k].index = d THEN v[k].stop - v[k].start ELSE h[k - 1][d]
  <2>1. k - 1 \in 0 .. m
    OBVIOUS
  <2>2. h[k - 1] \in T /\ h[k] = step[<<k, h[k - 1]>>]
    BY <1>1, <2>1 DEF Solves
  <2>3. h[k] = [h[k - 1] EXCEPT ![v[k].index] = v[k].stop - v[k].start]
    BY <2>2
  <2> QED BY <2>2, <2>3
<1> DEFINE P == {k \in Nat : k <= m => None(k) \/ Seen(h, k)}
<1>4. 0 \in P
  OBVIOUS
<1>5. ASSUME NEW k \in Nat, k \in P PROVE k + 1 \in P
  <2> SUFFICES ASSUME k + 1 <= m PROVE None(k + 1) \/ Seen(h, k + 1)
    OBVIOUS
  <2>1. None(k) \/ Seen(h, k)
    BY <1>2, <1>5
  <2>2. k + 1 \in 1 .. m /\ (k + 1) - 1 = k
    BY <1>2
  <2>3. h[k + 1][d] = IF v[k + 1].index = d THEN v[k + 1].stop - v[k + 1].start ELSE h[k][d]
    BY <1>3, <2>2
  <2>4. CASE v[k + 1].index = d
    BY <2>2, <2>3, <2>4
  <2>5. CASE v[k + 1].index # d /\ None(k)
    <3>1. \A i \in 1 .. k + 1 : i \in 1 .. k \/ i = k + 1
      OBVIOUS
    <3> QED BY <2>5, <3>1
  <2>6. CASE v[k + 1].index # d /\ Seen(h, k)
    <3>1. PICK i \in 1 .. k : v[i].index = d /\ h[k][d] = v[i].stop - v[i].start
      BY <2>6
    <3>2. i \in 1 .. k + 1 /\ h[k + 1][d] = h[k][d]
      BY <2>3, <2>6
    <3> QED BY <3>1, <3>2
  <2> QED BY <2>1, <2>4, <2>5, <2>6
<1> HIDE DEF P
<1>6. m \in P
  BY <1>2, <1>4, <1>5, NatSetInduction
<1>7. ~ None(m)
  BY <1>2 DEF Viewed, Views
<1>8. PICK i \in 1 .. m : v[i].index = d /\ h[m][d] = v[i].stop - v[i].start
  BY <1>2, <1>6, <1>7 DEF P
<1>9. v[i] \in Views(lay)
  BY <1>2 DEF Views
<1> QED BY <1>1, <1>8, <1>9

LEMMA PatternNumbers ==
  ASSUME NEW lay, Viewable(lay), NEW d \in 1 .. Len(lay.base.shape), NEW r \in Patterns(lay, d)
  PROVE  /\ r.start \in Nat /\ r.stop \in Nat /\ Within(r, Held(lay, d))
         /\ \A k \in Numbers(r) :
              /\ k \in Nat /\ k + Shift(lay, d) \in Numbers(lay.base.bbox[d])
              /\ Shift(lay, d) \in Nat
<1> DEFINE h == Held(lay, d)
<1>1. shapeOf(lay)[d] \in Int
  BY ShapeInts
<1>2. r.start \in Nat /\ r.stop \in Nat /\ Within(r, h)
  BY <1>1 DEF Patterns, NonEmpty, SubRanges, Interval
<1>3. h.start \in Int /\ h.stop \in Int /\ Shift(lay, d) \in Nat
  BY HeldRange
<1>4. ASSUME NEW k \in Numbers(r) PROVE k \in Nat /\ k \in Numbers(h)
  <2> HIDE DEF h
  <2> QED BY <1>2, <1>3 DEF Numbers, Within
<1> QED BY <1>2, <1>3, <1>4, HeldInBox

\* If what the storage holds and its slices begin and end with whole vectors,
\* rows that are extended to whole vectors are stored.
LEMMA ExtendedHeld ==
  ASSUME NEW lay, Viewable(lay), NEW d \in 1 .. Len(lay.base.shape),
         Multiple(lay.base.bbox[d].start), Multiple(lay.base.bbox[d].stop),
         \A v \in Views(lay) : v.index = d => checkAlignment(v.start) /\ checkAlignment(v.stop - v.start),
         NEW m \in Patterns(lay, d)
  PROVE  /\ Within(aligned(m), Held(lay, d))
         /\ Multiple(aligned(m).start) /\ aligned(m).start \in Nat
<1> DEFINE h == Held(lay, d)
           r == lay.base.bbox[d]
           s == Shift(lay, d)
           n == shapeOf(lay)[d]
<1>1. m.start \in Nat /\ m.stop \in Nat /\ Within(m, h)
  BY PatternNumbers
<1>2. Multiple(h.start) /\ Multiple(h.stop)
  <2>1. CASE d \notin Viewed(lay)
    BY <2>1 DEF Held
  <2>2. CASE d \in Viewed(lay)
    <3> DEFINE z == 0
               a == r.start - s
               c == r.stop - s
    <3>1. Multiple(s)
      BY ShiftMultiple
    <3>2. Multiple(a) /\ Multiple(c) /\ Multiple(z)
      BY <3>1, MultipleSum, MultipleZero
    <3>3. Multiple(n)
      <4>1. PICK v \in Views(lay) : v.index = d /\ n = v.stop - v.start
        BY <2>2, ViewedSize
      <4>2. n \in Nat
        <5>1. n \in Int
          BY ShapeInts
        <5>2. \E k \in 0 .. n - 1 : TRUE
          BY DEF Patterns, NonEmpty, SubRanges
        <5> HIDE DEF n
        <5> QED BY <5>1, <5>2
      <4>3. checkAlignment(n)
        BY <4>1
      <4> QED BY <4>2, <4>3, MultipleChecked
    <3>4. h.start = Max({a, z}) /\ h.stop = Min({c, n})
      BY <2>2 DEF Held, Interval
    <3> HIDE DEF a, c, z, n, h
    <3>5. Max({a, z}) \in {a, z}
      BY <3>2, MultipleSum, PairBounds
    <3>6. Min({c, n}) \in {c, n}
      BY <3>2, <3>3, MultipleSum, PairBounds
    <3> QED BY <3>2, <3>3, <3>4, <3>5, <3>6
  <2> QED BY <2>1, <2>2
<1> HIDE DEF h
<1>3. h.start <= alignedLower(m.start) /\ alignedUpper(m.stop) <= h.stop
  BY <1>1, <1>2, AlignedWithin DEF Within
<1>4. Multiple(alignedLower(m.start)) /\ alignedLower(m.start) \in Nat
  BY <1>1, MultipleBounds, AlignedNumbers
<1> QED BY <1>3, <1>4 DEF h, aligned, Interval, Within

-----------------------------------------------------------------------------
(* The matrix of a term *)

\* A dense matrix: its base has two dimensions.
IsPair(b) ==
  /\ PairBase(b, b.bbox[1], b.bbox[2], b.stride[1], b.stride[2])
  /\ b.stride[1] \in Nat /\ b.stride[2] \in Nat

LEMMA PairIs ==
  ASSUME NEW b, NEW r, NEW s, NEW x \in Nat, NEW y \in Nat, PairBase(b, r, s, x, y)
  PROVE  IsPair(b)
<1>1. b.bbox[1] = r /\ b.bbox[2] = s /\ b.stride[1] = x /\ b.stride[2] = y
  BY DEF PairBase
<1> QED BY <1>1 DEF IsPair

LEMMA DensePair ==
  ASSUME NEW b, DenseBase(b), Len(b.shape) = 2
  PROVE  IsPair(b)
<1>1. b.bbox = [d \in 1 .. 2 |-> b.bbox[d]] /\ b.csc = FALSE
  BY DEF DenseBase, IsBox
<1>2. b.stride = [d \in 1 .. 2 |-> b.stride[d]] /\ \A d \in 1 .. 2 : b.stride[d] \in Nat
  BY StridesNat
<1>3. \A f : [d \in 1 .. 2 |-> f[d]] = <<f[1], f[2]>>
  OBVIOUS
<1>4. b.bbox = <<b.bbox[1], b.bbox[2]>> /\ b.stride = <<b.stride[1], b.stride[2]>>
  BY <1>1, <1>2, <1>3
<1> QED BY <1>1, <1>2, <1>4 DEF IsPair, PairBase

LEMMA PairViewable ==
  ASSUME NEW lay, NEW a \in Int, NEW b \in Int, lay.base.shape = <<a, b>>,
         NEW r, NEW s, lay.base.bbox = <<r, s>>,
         r.start \in Nat, r.stop \in Nat, s.start \in Nat, s.stop \in Nat,
         lay.views \in Seq(Moves)
  PROVE  Viewable(lay) /\ Len(lay.base.shape) = 2
<1>1. Len(lay.base.shape) = 2 /\ lay.base.shape \in [1 .. 2 -> Int]
  OBVIOUS
<1>2. \A d \in 1 .. 2 : lay.base.bbox[d].start \in Nat /\ lay.base.bbox[d].stop \in Nat
  OBVIOUS
<1>3. /\ Len(lay.views) \in Nat /\ lay.views = [k \in 1 .. Len(lay.views) |-> lay.views[k]]
      /\ \A k \in 1 .. Len(lay.views) : lay.views[k] \in Moves
  <2> HIDE DEF Moves
  <2> QED OBVIOUS
<1>4. \A w \in Moves : w.index \in 1 .. 2 /\ w.start \in Nat /\ w.stop \in Nat
  BY DEF Moves
<1> HIDE DEF Moves
<1> QED BY <1>1, <1>2, <1>3, <1>4 DEF Viewable

LEMMA SubRangeNat ==
  ASSUME LayoutOk(term), ~ term.base.csc, NEW G \in FusedVariants, G # {}
  PROVE  /\ subRange(term.base, G).start \in Nat /\ subRange(term.base, G).stop \in Nat
         /\ firstStride(term.base, G) \in Nat /\ subShape(term.base, G) \in Nat
         /\ size(subRange(term.base, G)) \in Nat
<1> DEFINE b == term.base
           x == [k \in G |-> b.bbox[k].start]
           y == [k \in G |-> b.bbox[k].stop - 1]
           z == [k \in G |-> (b.bbox[k].stop - 1) - b.bbox[k].start]
           r == subRange(b, G)
<1>1. G \subseteq 1 .. Len(b.shape) /\ Positions(G) /\ Min(G) \in G
  BY GroupOk
<1>2. IsShape(b.shape) /\ IsBox(b.bbox, Len(b.shape)) /\ DenseBase(b)
  BY BaseOk, BoxOk DEF LayoutOk
<1>3. Naturals(G, b.shape)
  BY <1>1, <1>2, ShapeLength DEF Naturals
<1>4. /\ Naturals(G, x) /\ Naturals(G, y) /\ Naturals(G, z)
      /\ \A k \in G : y[k] = x[k] + z[k]
  <2>1. ASSUME NEW k \in G
        PROVE  x[k] \in Nat /\ y[k] \in Nat /\ z[k] \in Nat /\ y[k] = x[k] + z[k]
    <3>1. IsRange(b.bbox[k])
      BY <1>1, <1>2 DEF IsBox
    <3> QED BY <3>1 DEF IsRange
  <2> HIDE DEF x, y, z
  <2> QED BY <2>1 DEF Naturals
<1>5. r.start = Number(b.shape, G, x) /\ r.stop = Number(b.shape, G, y) + 1
  BY DEF subRange, Interval
<1>6. firstStride(b, G) \in Nat
  BY <1>1, <1>2, StridesNat DEF firstStride
<1> HIDE DEF x, y, z, b, r
<1>7. Number(b.shape, G, x) \in Nat /\ Number(b.shape, G, y) \in Nat /\ Number(b.shape, G, z) \in Nat
  BY <1>1, <1>3, <1>4, NumberNat
<1>8. Number(b.shape, G, y) = Number(b.shape, G, x) + Number(b.shape, G, z)
  <2> DEFINE h == b.shape
  <2>1. /\ Positions(G) /\ Naturals(G, h) /\ Naturals(G, x) /\ Naturals(G, z)
        /\ \A k \in G : y[k] = x[k] + z[k]
    BY <1>1, <1>3, <1>4
  <2> HIDE DEF h
  <2>2. Number(h, G, y) = Number(h, G, x) + Number(h, G, z)
    BY <2>1, NumberAdds, SMTT(30)
  <2> QED BY <2>2 DEF h
<1>9. subShape(b, G) \in Nat
  BY <1>1, <1>3, TimesStep DEF subShape, Positions
<1>10. size(r) \in Nat
  BY <1>5, <1>7, <1>8 DEF size
<1> QED BY <1>5, <1>6, <1>7, <1>9, <1>10 DEF b, r

LEMMA UnalignedLayout ==
  ASSUME NEW s, IsShape(s), NEW box, IsBox(box, Len(s))
  PROVE  DenseBase(DenseLayout(s, box, FALSE)) /\ DenseLayout(s, box, FALSE).shape = s
<1> DEFINE base == DenseLayout(s, box, FALSE)
<1>1. DenseBase(base) /\ base.shape = s
  BY DenseLayoutOk
<1> QED BY <1>1

\* A matrix is sparse only if it is the term itself, and no loop is around it.
LEMMA MatrixOk ==
  ASSUME TermInv, phase # "Node"
  PROVE  /\ Viewable(matrix) /\ Len(matrix.base.shape) = 2
         /\ ~ term.base.csc => IsPair(matrix.base)
         /\ term.base.csc => matrix = term /\ Looped = {}
<1>1. LayoutOk(term)
  BY DEF TermInv
<1>2. PICK I \in FusedVariants, J \in FusedVariants :
        I \cap J = {} /\ HasMethod(I, J) /\ groups = <<I, J>> /\ matrix = MatrixOf(I, J)
  BY DEF TermInv, MatrixInv
<1>3. CASE I = {} /\ J = {}
  <2> DEFINE r == Interval(0, 1)
             s == <<1, 1>>
             box == <<r, r>>
             base == DenseLayout(s, box, FALSE)
  <2>1. matrix = Layout(base)
    BY <1>2, <1>3 DEF MatrixOf
  <2>2. IsShape(s) /\ Len(s) = 2 /\ IsBox(box, 2)
    BY DEF IsShape, IsBox, IsRange, Interval
  <2>6. IsShape(s) /\ IsBox(box, Len(s))
    BY <2>2
  <2> HIDE DEF s, box
  <2>3. DenseBase(base) /\ base.shape = s
    BY <2>6, UnalignedLayout
  <2> HIDE DEF base
  <2>4. matrix.base = base /\ LayoutOk(matrix)
    BY <2>1, <2>3, PlainLayoutOk DEF Layout
  <2>5. ~ term.base.csc
    BY <1>2, <1>3 DEF HasMethod
  <2> QED BY <2>2, <2>3, <2>4, <2>5, LayoutViewable, DensePair
<1>4. CASE (I = {}) # (J = {})
  <2> DEFINE G == I \cup J
             b == term.base
             r1 == subRange(b, G)
             r2 == Interval(0, 1)
             s1 == firstStride(b, G)
             s2 == size(r1) * s1
             a == subShape(b, G)
             y == 1
  <2>1. ~ b.csc
    BY <1>2, <1>4 DEF HasMethod
  <2>2. G \in FusedVariants /\ G # {}
    <3>1. G = I \/ G = J
      BY <1>4
    <3> QED BY <1>2, <1>4, <3>1
  <2>3. matrix = Layout(withDummyDimension(vec(b, G)))
    BY <1>2, <1>4 DEF MatrixOf
  <2>4. /\ matrix.views = <<>> /\ PairBase(matrix.base, r1, r2, s1, s2)
        /\ matrix.base.shape = <<a, y>>
    BY <2>3, VectorBase DEF Layout
  <2>5. /\ r1.start \in Nat /\ r1.stop \in Nat /\ s1 \in Nat /\ a \in Nat
        /\ size(r1) \in Nat
    BY <1>1, <2>1, <2>2, SubRangeNat
  <2>6. r2.start \in Nat /\ r2.stop \in Nat /\ y \in Nat
    BY DEF Interval
  <2>7. <<>> \in Seq(Moves)
    OBVIOUS
  <2> HIDE DEF G, r1, r2, s1, s2, a, y, b
  <2>8. s2 \in Nat
    BY <2>5 DEF s2
  <2>9. matrix.base.bbox = <<r1, r2>> /\ matrix.base.stride = <<s1, s2>>
    BY <2>4 DEF PairBase
  <2>10. Viewable(matrix) /\ Len(matrix.base.shape) = 2
    <3>1. /\ a \in Int /\ y \in Int /\ matrix.base.shape = <<a, y>> /\ matrix.base.bbox = <<r1, r2>>
          /\ r1.start \in Nat /\ r1.stop \in Nat /\ r2.start \in Nat /\ r2.stop \in Nat
          /\ matrix.views \in Seq(Moves)
      BY <2>4, <2>5, <2>6, <2>7, <2>9
    <3> QED BY <3>1, PairViewable, SMTT(30)
  <2>11. IsPair(matrix.base)
    BY <2>4, <2>5, <2>8, <2>9, PairIs
  <2> QED BY <2>1, <2>10, <2>11 DEF b
<1>5. CASE I # {} /\ J # {} /\ Cardinality(Dims) = 2
  <2>1. matrix = term
    BY <1>2, <1>5 DEF MatrixOf
  <2>2. /\ Dims = 1 .. 2 /\ Len(term.base.shape) = 2
        /\ (I = {1} /\ J = {2}) \/ (I = {2} /\ J = {1})
    BY <1>1, <1>2, <1>5, TwoDims
  <2>3. Looped = {}
    BY <1>2, <2>2 DEF Looped
  <2>4. ~ term.base.csc => DenseBase(term.base)
    BY <1>1, BaseOk DEF LayoutOk
  <2> QED BY <1>1, <2>1, <2>2, <2>3, <2>4, LayoutViewable, DensePair
<1>6. CASE I # {} /\ J # {} /\ Cardinality(Dims) # 2
  <2> DEFINE b == term.base
             S == IF Min(I) < Min(J) THEN I ELSE J
             T == IF Min(I) < Min(J) THEN J ELSE I
             r1 == subRange(b, S)
             r2 == subRange(b, T)
             s1 == firstStride(b, S)
             s2 == firstStride(b, T)
             a == subShape(b, S)
             y == subShape(b, T)
  <2>1. ~ b.csc
    BY <1>1, <1>6, CscDims
  <2>2. matrix = unfold(term, I, J)
    BY <1>2, <1>6 DEF MatrixOf
  <2>3. matrix.base = unfoldBase(b, S, T)
    BY <2>2 DEF unfold
  <2>4. matrix.views \in Seq(Moves)
    BY <1>1, <1>2, <1>6, <2>1, <2>2, UnfoldedViews
  <2>5. S \in FusedVariants /\ S # {} /\ T \in FusedVariants /\ T # {}
    BY <1>2, <1>6
  <2> HIDE DEF S, T
  <2>6. /\ PairBase(matrix.base, r1, r2, s1, s2) /\ matrix.base.shape = <<a, y>>
        /\ matrix.base.bbox = <<r1, r2>> /\ matrix.base.stride = <<s1, s2>>
    BY <2>3 DEF unfoldBase, WithStride, PairBase
  <2>7. r1.start \in Nat /\ r1.stop \in Nat /\ s1 \in Nat /\ a \in Nat
    BY <1>1, <2>1, <2>5, SubRangeNat
  <2>8. r2.start \in Nat /\ r2.stop \in Nat /\ s2 \in Nat /\ y \in Nat
    BY <1>1, <2>1, <2>5, SubRangeNat
  <2> HIDE DEF r1, r2, s1, s2, a, y, b
  <2>9. Viewable(matrix) /\ Len(matrix.base.shape) = 2
    BY <2>4, <2>6, <2>7, <2>8, PairViewable
  <2>10. IsPair(matrix.base)
    BY <2>6, <2>7, <2>8, PairIs
  <2> QED BY <2>1, <2>9, <2>10 DEF b
<1> QED BY <1>3, <1>4, <1>5, <1>6

-----------------------------------------------------------------------------
(* Aligned addresses *)

\* An entry of the first row, if rows start with a vector and columns are whole
\* vectors apart.
LEMMA AlignedEntry ==
  ASSUME NEW lay, Viewable(lay), Len(lay.base.shape) = 2, IsPair(lay.base), alignedStride(lay),
         checkAlignment(lay.base.bbox[1].start),
         \A v \in Views(lay) : v.index = 1 => checkAlignment(v.start),
         NEW p \in Nat, Multiple(p), lay.base.bbox[1].start <= p + Shift(lay, 1),
         NEW q \in Nat, q + Shift(lay, 2) \in Numbers(lay.base.bbox[2])
  PROVE  address(lay, <<p, q>>) \in Nat /\ Multiple(address(lay, <<p, q>>))
<1> DEFINE r1 == lay.base.bbox[1]
           r2 == lay.base.bbox[2]
           s1 == lay.base.stride[1]
           s2 == lay.base.stride[2]
           a == Shift(lay, 1)
           c == Shift(lay, 2)
<1>1. PairBase(lay.base, r1, r2, s1, s2) /\ s1 \in Nat /\ s2 \in Nat
  BY DEF IsPair
<1>2. r1.start \in Nat /\ r2.start \in Nat /\ r2.stop \in Nat
  <2>1. 1 \in 1 .. 2 /\ 2 \in 1 .. 2
    OBVIOUS
  <2> QED BY <2>1 DEF Viewable
<1>3. s1 = 1 /\ checkAlignment(s2)
  <2>1. ~ lay.base.csc
    BY <1>1 DEF PairBase
  <2>2. lay.base.stride = <<s1, s2>>
    BY <1>1 DEF PairBase
  <2>3. Len(lay.base.stride) = 2
    <3> HIDE DEF s1, s2
    <3> QED BY <2>2
  <2> QED BY <2>1, <2>3 DEF alignedStride
<1>4. a \in Nat /\ c \in Nat
  BY ShiftOk
<1>5. MovedBy(lay.views, a, c)
  BY DEF MovedBy, Moved, Shift
<1>6. Multiple(a)
  BY ShiftMultiple
<1>7. Multiple(r1.start) /\ Multiple(s2)
  BY <1>1, <1>2, <1>3, MultipleChecked
<1>8. r1.start <= p + a /\ q + c \in Numbers(r2)
  OBVIOUS
<1> HIDE DEF r1, r2, s1, s2, a, c
<1>9. (p + a) - r1.start \in Nat /\ (q + c) - r2.start \in Nat
  BY <1>2, <1>4, <1>8 DEF Numbers
<1> DEFINE u == (p + a) - r1.start
           v == (q + c) - r2.start
<1>10. Multiple(u)
  <2>1. Multiple(p + a)
    BY <1>6, MultipleSum
  <2> QED BY <1>7, <2>1, MultipleSum
<1>11. Offset(p, a, r1, s1) = u * s1 /\ Offset(q, c, r2, s2) = v * s2
  BY DEF Offset
<1>12. u \in Nat /\ v \in Nat
  BY <1>9
<1> HIDE DEF u, v
<1>13. u * s1 = u /\ v * s2 \in Nat /\ Multiple(v * s2)
  <2>1. u * s1 = u /\ v * s2 \in Nat
    BY <1>1, <1>3, <1>12
  <2>2. v \in Int
    BY <1>12
  <2> QED BY <1>7, <2>1, <2>2, MultipleTimes
<1>14. Offset(p, a, r1, s1) \in Nat /\ Offset(q, c, r2, s2) \in Nat
  BY <1>11, <1>12, <1>13
<1>15. address(lay, <<p, q>>) = Offset(p, a, r1, s1) + Offset(q, c, r2, s2)
  BY <1>1, <1>5, <1>14, PairAddress, SMTT(30)
<1>16. address(lay, <<p, q>>) = u + v * s2
  BY <1>11, <1>13, <1>15
<1> QED BY <1>10, <1>12, <1>13, <1>16, MultipleSum

\* The ranges of the loops.
LoopRanges(loops) ==
  /\ DOMAIN loops = Looped
  /\ \A d \in Looped : loops[d] \in Patterns(term, d)

LEMMA LoopAligned ==
  ASSUME TermInv, ~ term.base.csc, alignedStart, NEW loops, LoopRanges(loops), NEW l \in Cells(loops)
  PROVE  LoopAddress(l) \in Nat /\ Multiple(LoopAddress(l))
<1> DEFINE n == Len(term.base.shape)
           L == Looped
           f == [d \in L |-> term.base.stride[d] * (l[d] + Shift(term, d) - term.base.bbox[d].start)]
<1>1. LayoutOk(term) /\ Dims = 1 .. n /\ n \in Nat
  BY DimsOk, ShapeLength DEF TermInv
<1>2. L \subseteq 1 .. n /\ IsFiniteSet(L)
  <2>1. L \subseteq 1 .. n
    BY <1>1 DEF Looped
  <2>2. IsFiniteSet(1 .. n)
    BY <1>1, FS_Interval
  <2> QED BY <2>1, <2>2, FS_Subset
<1>3. ASSUME NEW d \in L PROVE f[d] \in Nat /\ Multiple(f[d])
  <2> DEFINE s == term.base.stride[d]
             k == l[d]
             a == Shift(term, d)
             r == term.base.bbox[d]
  <2>1. d \in 1 .. n
    BY <1>2
  <2>2. s \in Nat
    <3>1. DenseBase(term.base)
      BY <1>1, BaseOk DEF LayoutOk
    <3> QED BY <2>1, <3>1, StridesNat
  <2>3. k \in Numbers(loops[d]) /\ loops[d] \in Patterns(term, d)
    BY DEF Cells, LoopRanges
  <2>4. k \in Nat /\ k + a \in Numbers(r) /\ a \in Nat
    BY <1>1, <2>1, <2>3, PatternNumbers, LayoutViewable
  <2>5. r.start \in Nat /\ r.stop \in Nat
    BY <1>1, <2>1, LayoutViewable DEF Viewable
  <2>6. Multiple(s)
    <3>1. checkAlignment(s)
      BY DEF alignedStart
    <3> QED BY <2>2, <3>1, MultipleChecked
  <2> DEFINE x == k + a - r.start
  <2>7. f[d] = s * x
    OBVIOUS
  <2> HIDE DEF f, s, k, a, r
  <2>8. x \in Nat
    BY <2>4, <2>5 DEF Numbers
  <2> HIDE DEF x
  <2>9. s * x \in Nat /\ s * x = x * s /\ x \in Int
    BY <2>2, <2>8
  <2> QED BY <2>6, <2>7, <2>9, MultipleTimes
<1>4. f = Part(f, L) /\ LoopAddress(l) = SumFunction(f)
  BY DEF Part, LoopAddress
<1> HIDE DEF f, L
<1>5. Naturals(L, f)
  BY <1>3 DEF Naturals
<1>6. SumFunction(Part(f, L)) \in Nat /\ Multiple(SumFunction(Part(f, L)))
  BY <1>2, <1>3, <1>5, PartStep, SumMultiple
<1> QED BY <1>4, <1>6

LEMMA LoopNothing ==
  ASSUME Looped = {}, NEW l
  PROVE  LoopAddress(l) = 0
<1> DEFINE f == [d \in Looped |-> term.base.stride[d] * (l[d] + Shift(term, d) - term.base.bbox[d].start)]
<1>1. DOMAIN f = {} /\ IsFiniteSet({}) /\ Naturals({}, f)
  BY FS_EmptySet DEF Naturals
<1>2. LoopAddress(l) = SumFunction(f)
  BY DEF LoopAddress
<1> HIDE DEF f
<1> QED BY <1>1, <1>2, SumStep

-----------------------------------------------------------------------------
(* The columns of a sparse matrix of whole vectors *)

\* The vector that begins in a row of a column.
Block(k) == (k[1] .. k[1] + AlignedReals - 1) \X {k[2]}
Begins(K) == IsFiniteSet(K) /\ \A k \in K : k = <<k[1], k[2]>> /\ Multiple(k[1])

LEMMA BlockSize ==
  ASSUME NEW k, Multiple(k[1])
  PROVE  IsFiniteSet(Block(k)) /\ Cardinality(Block(k)) = AlignedReals
<1> DEFINE A == AlignedReals
           a == k[1]
           c == k[2]
           R == a .. a + A - 1
           C == {c}
<1>1. A \in Nat \ {0} /\ a \in Int
  BY AlignmentAssumption, MultipleSum
<1>2. IsFiniteSet(C) /\ Cardinality(C) = 1
  BY FS_Singleton
<1>3. Block(k) = R \X C
  BY DEF Block
<1> HIDE DEF A, a, C
<1> DEFINE b == a + A - 1
<1>4. b \in Int /\ b - a + 1 = A /\ ~ a > b
  BY <1>1
<1>5. R = a .. b
  OBVIOUS
<1> HIDE DEF b, R
<1>6. IsFiniteSet(R) /\ Cardinality(R) = A
  BY <1>1, <1>4, <1>5, FS_Interval
<1>7. IsFiniteSet(R \X C) /\ Cardinality(R \X C) = A * 1
  BY <1>2, <1>6, FS_Product
<1> QED BY <1>1, <1>3, <1>7 DEF A

LEMMA BlocksApart ==
  ASSUME NEW K, Begins(K), NEW k \in K, NEW l \in K, k # l
  PROVE  Block(k) \cap Block(l) = {}
<1> SUFFICES ASSUME NEW z, z \in Block(k), z \in Block(l) PROVE FALSE
  OBVIOUS
<1> DEFINE A == AlignedReals
           a == k[1]
           b == l[1]
<1>1. /\ k = <<a, k[2]>> /\ l = <<b, l[2]>> /\ Multiple(a) /\ Multiple(b)
      /\ z[1] \in a .. a + A - 1 /\ z[1] \in b .. b + A - 1 /\ k[2] = l[2]
  BY DEF Begins, Block
<1>2. a # b
  BY <1>1
<1>3. a \in Int /\ b \in Int /\ A \in Nat
  BY <1>1, MultipleSum, AlignmentAssumption
<1>4. (a < b => a + A <= b) /\ (b < a => b + A <= a)
  BY <1>1, MultipleGap
<1> HIDE DEF a, b, A
<1> QED BY <1>1, <1>2, <1>3, <1>4

LEMMA BlocksMultiple ==
  ASSUME NEW K, Begins(K)
  PROVE  LET B == UNION {Block(k) : k \in K} IN IsFiniteSet(B) /\ Multiple(Cardinality(B))
<1> DEFINE B(t) == UNION {Block(k) : k \in t}
           P == {t \in SUBSET K : IsFiniteSet(B(t)) /\ Multiple(Cardinality(B(t)))}
<1>1. {} \in P
  <2> DEFINE z == {}
  <2>1. B({}) = z
    OBVIOUS
  <2>2. IsFiniteSet(z) /\ Cardinality(z) = 0
    BY FS_EmptySet
  <2> HIDE DEF z
  <2> QED BY <2>1, <2>2, MultipleZero
<1>2. ASSUME NEW t \in SUBSET K, t # {}, \A x \in t : t \ {x} \in P PROVE t \in P
  <2>1. PICK k \in t : TRUE
    BY <1>2
  <2> DEFINE S == B(t \ {k})
             T == Block(k)
             z == {}
  <2>2. IsFiniteSet(S) /\ Multiple(Cardinality(S))
    BY <1>2, <2>1
  <2>3. B(t) = S \cup T
    BY <2>1
  <2>4. S \cap T = z
    <3> SUFFICES ASSUME NEW x, x \in S, x \in T PROVE FALSE
      OBVIOUS
    <3>1. PICK l \in t \ {k} : x \in Block(l)
      OBVIOUS
    <3>2. Block(k) \cap Block(l) = {}
      BY <2>1, <3>1, BlocksApart
    <3> QED BY <3>1, <3>2
  <2>5. IsFiniteSet(T) /\ Cardinality(T) = AlignedReals
    <3>1. Multiple(k[1])
      BY <2>1 DEF Begins
    <3> QED BY <3>1, BlockSize
  <2>6. Cardinality(z) = 0
    BY FS_EmptySet
  <2> HIDE DEF S, T, z, B
  <2>7. IsFiniteSet(B(t)) /\ Cardinality(B(t)) = Cardinality(S) + Cardinality(T) - Cardinality(S \cap T)
    BY <2>2, <2>3, <2>5, FS_Union
  <2>8. Cardinality(B(t)) = Cardinality(S) + AlignedReals
    <3>1. Cardinality(S) \in Int /\ AlignedReals \in Int
      BY <2>2, AlignmentAssumption, MultipleSum
    <3>2. Cardinality(S \cap T) = 0 /\ Cardinality(T) = AlignedReals
      BY <2>4, <2>5, <2>6
    <3> QED BY <2>7, <3>1, <3>2
  <2>9. Multiple(AlignedReals)
    <3>1. AlignedReals = 1 * AlignedReals /\ 1 \in Int
      BY AlignmentAssumption
    <3> QED BY <3>1 DEF Multiple
  <2> QED BY <2>2, <2>7, <2>8, <2>9, MultipleSum
<1> HIDE DEF P
<1>3. SUBSET K \subseteq P
  <2>1. IsFiniteSet(K)
    BY DEF Begins
  <2> QED BY <1>1, <1>2, <2>1, FiniteSetInduction
<1> QED BY <1>3 DEF P

\* As many entries are stored before a column.
LEMMA PointerCounts ==
  ASSUME NEW b, NEW nz, NEW n, Placed(b, nz, n), NEW c \in 0 .. b.shape[2]
  PROVE  b.colPtr[c] \in Nat /\ Cardinality({x \in Stored(b) : x[2] < c}) = b.colPtr[c]
<1> DEFINE p == b.colPtr[c]
           T == {x \in Stored(b) : x[2] < c}
           h == [k \in 1 .. p |-> nz[k]]
<1>1. n \in Nat /\ p \in 0 .. n /\ \A l \in 1 .. n : l <= p <=> nz[l][2] < c
  BY DEF Placed, Listed
<1>2. /\ \A k \in 1 .. n : nz[k] \in Stored(b) /\ nz[k] \in Nat \X Nat
      /\ \A x \in Stored(b) : \E k \in 1 .. n : nz[k] = x
      /\ \A k, l \in 1 .. n : k < l => Precedes(nz[k], nz[l])
  BY DEF Placed, Listed, Pairs
<1> HIDE DEF p
<1>3. \A k \in 1 .. p : k \in 1 .. n /\ k <= p
  BY <1>1
<1>4. h \in [1 .. p -> T]
  BY <1>1, <1>2, <1>3
<1>5. \A k, l \in 1 .. p : h[k] = h[l] => k = l
  <2> SUFFICES ASSUME NEW k \in 1 .. p, NEW l \in 1 .. p, nz[k] = nz[l], k # l PROVE FALSE
    OBVIOUS
  <2>1. k \in 1 .. n /\ l \in 1 .. n
    BY <1>3
  <2>2. Precedes(nz[k], nz[l]) \/ Precedes(nz[l], nz[k])
    <3>1. k < l \/ l < k
      BY <2>1
    <3> QED BY <1>2, <2>1, <3>1
  <2>3. ~ Precedes(nz[k], nz[k])
    BY <1>2, <2>1, PrecedesOrder
  <2> QED BY <2>2, <2>3
<1>6. \A x \in T : \E k \in 1 .. p : h[k] = x
  <2> SUFFICES ASSUME NEW x \in T PROVE \E k \in 1 .. p : h[k] = x
    OBVIOUS
  <2>1. PICK k \in 1 .. n : nz[k] = x
    BY <1>2
  <2>2. k \in 1 .. p
    BY <1>1, <2>1
  <2> QED BY <2>1, <2>2
<1> HIDE DEF h, T
<1>7. h \in Injection(1 .. p, T) /\ h \in Surjection(1 .. p, T)
  BY <1>4, <1>5, <1>6, Fun_IsInj, Fun_IsSurj
<1>8. ExistsBijection(1 .. p, T)
  BY <1>7 DEF ExistsBijection, Bijection
<1>9. p \in Nat /\ Cardinality(T) = p
  BY <1>1, <1>8, FS_CountingElements
<1> QED BY <1>9 DEF p, T

LEMMA ColumnMultiple ==
  ASSUME NEW b, CscBase(b), b.aligned, NEW c \in 0 .. b.shape[2]
  PROVE  b.colPtr[c] \in Nat /\ Multiple(b.colPtr[c])
<1>1. PICK s, spp : \E a \in BOOLEAN :
        IsShape(s) /\ Len(s) = 2 /\ IsPattern(spp, s) /\ b = CSCLayout(s, spp, a)
  BY DEF CscBase
<1>2. PICK a \in BOOLEAN : IsShape(s) /\ Len(s) = 2 /\ IsPattern(spp, s) /\ b = CSCLayout(s, spp, a)
  BY <1>1
<1> DEFINE M == 0 .. s[1] - 1
           N == 0 .. s[2] - 1
           U == {x \in spp : x[2] < c}
           T == {x \in Stored(b) : x[2] < c}
           K == {<<alignedLower(x[1]), x[2]>> : x \in U}
           W == {Block(k) : k \in K}
<1>3. Stored(b) = Blocks(spp)
  BY <1>2 DEF CSCLayout, Stored, StoredOf
<1>4. \A x \in spp : x = <<x[1], x[2]>> /\ x[1] \in M /\ x[2] \in N
  BY <1>2 DEF IsPattern
<1>5. s[1] \in Nat /\ s[2] \in Nat
  BY <1>2, ShapeLength
<1>6. \A x \in spp : alignedLower(x[1]) \in M /\ Multiple(alignedLower(x[1]))
  <2> SUFFICES ASSUME NEW x \in spp PROVE alignedLower(x[1]) \in M /\ Multiple(alignedLower(x[1]))
    OBVIOUS
  <2>1. x[1] \in Nat /\ x[1] < s[1]
    BY <1>4, <1>5
  <2>2. alignedLower(x[1]) \in Nat /\ alignedLower(x[1]) <= x[1] /\ Multiple(alignedLower(x[1]))
    BY <2>1, AlignedNumbers, MultipleBounds
  <2> QED BY <1>5, <2>1, <2>2
<1>7. Begins(K)
  <2>1. IsFiniteSet(M) /\ IsFiniteSet(N)
    <3>1. 0 \in Int /\ s[1] - 1 \in Int /\ s[2] - 1 \in Int
      BY <1>5
    <3> QED BY <3>1, FS_Interval
  <2>2. IsFiniteSet(M \X N)
    <3> HIDE DEF M, N
    <3> QED BY <2>1, FS_Product
  <2>3. K \subseteq M \X N
    BY <1>4, <1>6
  <2>4. \A k \in K : k = <<k[1], k[2]>> /\ Multiple(k[1])
    BY <1>6
  <2>5. IsFiniteSet(K)
    <3> HIDE DEF K, M, N
    <3> QED BY <2>2, <2>3, FS_Subset
  <2> QED BY <2>4, <2>5 DEF Begins
<1>8. T = UNION W
  <2> DEFINE V(x) == {<<r, x[2]>> : r \in alignedLower(x[1]) .. alignedLower(x[1]) + AlignedReals - 1}
  <2>1. Stored(b) = UNION {V(x) : x \in spp}
    BY <1>3 DEF Blocks
  <2>2. \A x \in spp : V(x) = Block(<<alignedLower(x[1]), x[2]>>)
    BY DEF Block
  <2>3. \A x \in spp : \A z \in V(x) : z[2] = x[2]
    OBVIOUS
  <2> HIDE DEF V
  <2>4. ASSUME NEW z \in T PROVE z \in UNION W
    <3>1. PICK x \in spp : z \in V(x)
      BY <2>1
    <3>2. x \in U
      BY <2>3, <3>1
    <3>3. z \in Block(<<alignedLower(x[1]), x[2]>>)
      BY <2>2, <3>1
    <3> QED BY <3>2, <3>3
  <2>5. ASSUME NEW z \in UNION W PROVE z \in T
    <3>1. PICK x \in U : z \in Block(<<alignedLower(x[1]), x[2]>>)
      OBVIOUS
    <3>2. x \in spp /\ x[2] < c /\ z \in V(x)
      BY <2>2, <3>1
    <3> QED BY <2>1, <2>3, <3>2
  <2> QED BY <2>4, <2>5
<1> HIDE DEF K, T, W
<1>9. Multiple(Cardinality(UNION W))
  BY <1>7, BlocksMultiple DEF W
<1>10. b.colPtr[c] \in Nat /\ Cardinality(T) = b.colPtr[c]
  BY CscPlaced, PointerCounts DEF T
<1> QED BY <1>8, <1>9, <1>10

\* The rows of an aligned sparse matrix are stored by whole vectors.
LEMMA CscRows ==
  ASSUME NEW b, CscBase(b), b.aligned
  PROVE  Multiple(b.bbox[1].start) /\ Multiple(b.bbox[1].stop)
<1>1. PICK s, spp : \E a \in BOOLEAN :
        IsShape(s) /\ Len(s) = 2 /\ IsPattern(spp, s) /\ b = CSCLayout(s, spp, a)
  BY DEF CscBase
<1>2. PICK a \in BOOLEAN : IsShape(s) /\ Len(s) = 2 /\ IsPattern(spp, s) /\ b = CSCLayout(s, spp, a)
  BY <1>1
<1> DEFINE box == BoundingBoxOf(spp)
<1>3. b.bbox = [box EXCEPT ![1] = aligned(@)] /\ DOMAIN box = 1 .. 2
  BY <1>2 DEF CSCLayout, BoundingBoxOf
<1>4. IsRange(box[1])
  <2>1. 1 \in 1 .. 2
    OBVIOUS
  <2> QED BY <1>2, <2>1, PatternBounds
<1> HIDE DEF box
<1>5. b.bbox[1] = aligned(box[1])
  BY <1>3
<1>6. Multiple(alignedLower(box[1].start)) /\ Multiple(alignedUpper(box[1].stop))
  BY <1>4, MultipleBounds DEF IsRange
<1> QED BY <1>5, <1>6 DEF aligned, Interval

-----------------------------------------------------------------------------
(* What a GEMM is told *)

\* The ranges of a GEMM that is told that its columns are aligned.
ClaimOk(d) ==
  /\ alignedStart /\ alignedStride(matrix) /\ LoopRanges(d.loops)
  /\ d.n \in Patterns(matrix, 2)
  /\ \E m \in Patterns(matrix, 1) : d.m = aligned(m) \/ (d.m = m /\ checkAlignment(m.start))

ClaimInv == phase = "Described" /\ descr.claim => ClaimOk(descr)

LEMMA ClaimKept ==
  ASSUME UNCHANGED <<term, groups, matrix>>, ClaimOk(descr')
  PROVE  ClaimOk(descr)'
BY DEF ClaimOk, alignedStart, LoopRanges, Looped, Dims

LEMMA ClaimInit == TInit => ClaimInv
BY DEF TInit, ClaimInv

LEMMA ClaimNext == ClaimInv /\ [TNext]_vars => ClaimInv'
<1> SUFFICES ASSUME ClaimInv, [TNext]_vars, phase' = "Described", descr'.claim
             PROVE  ClaimOk(descr)'
  BY DEF ClaimInv
<1>1. ASSUME NEW m \in Patterns(matrix, 1), NEW n \in Patterns(matrix, 2),
             NEW loops \in [Looped -> UNION {Patterns(term, d) : d \in Looped}],
             \A d \in Looped : loops[d] \in Patterns(term, d),
             NEW ofProduct \in BOOLEAN, NEW other \in BOOLEAN, Describe(m, n, loops, ofProduct, other)
      PROVE  ClaimOk(descr)'
  <2> DEFINE mine == ofProduct /\ alignedStart /\ alignedStride(matrix)
  <2>1. /\ descr' = [m |-> IF mine /\ other THEN aligned(m) ELSE m, n |-> n, loops |-> loops,
                     claim |-> mine /\ (other \/ checkAlignment(m.start))]
        /\ UNCHANGED <<term, groups, matrix>>
    BY <1>1 DEF Describe
  <2> HIDE DEF mine
  <2>2. /\ descr'.m = (IF mine /\ other THEN aligned(m) ELSE m)
        /\ descr'.n = n /\ descr'.loops = loops
        /\ mine /\ (other \/ checkAlignment(m.start))
    BY <2>1
  <2>3. descr'.m = aligned(m) \/ (descr'.m = m /\ checkAlignment(m.start))
    BY <2>2
  <2>4. LoopRanges(descr'.loops)
    BY <1>1, <2>2 DEF LoopRanges
  <2>5. ClaimOk(descr')
    BY <2>2, <2>3, <2>4 DEF ClaimOk, mine
  <2> QED BY <2>1, <2>5, ClaimKept
<1>2. CASE UNCHANGED vars
  <2>1. ClaimOk(descr')
    BY <1>2 DEF ClaimInv, vars
  <2> QED BY <1>2, <2>1, ClaimKept DEF vars
<1> QED BY <1>1, <1>2 DEF TNext, Subslice, Permute, MakeMatrix

\* The rows that a claim is about begin with a vector, and they are stored.
LEMMA ClaimedRows ==
  ASSUME TermInv, phase # "Node", ClaimOk(descr), AlignedOrigin
  PROVE  /\ Within(descr.m, Held(matrix, 1))
         /\ descr.m.start \in Nat /\ Multiple(descr.m.start)
         /\ matrix.base.bbox[1].start <= descr.m.start + Shift(matrix, 1)
<1> DEFINE r == matrix.base.bbox[1]
           h == Held(matrix, 1)
           s == Shift(matrix, 1)
<1>1. PICK m \in Patterns(matrix, 1) : descr.m = aligned(m) \/ (descr.m = m /\ checkAlignment(m.start))
  BY DEF ClaimOk
<1>2. Viewable(matrix) /\ 1 \in 1 .. Len(matrix.base.shape)
  <2>1. Viewable(matrix) /\ Len(matrix.base.shape) = 2
    BY MatrixOk
  <2> QED BY <2>1
<1>3. /\ m.start \in Nat /\ m.stop \in Nat /\ Within(m, h)
      /\ \A k \in Numbers(m) : k + s \in Numbers(r)
  BY <1>2, PatternNumbers
<1>4. /\ h.start \in Int /\ r.start \in Nat /\ r.stop \in Nat /\ s \in Nat
      /\ r.start <= h.start + s
  BY <1>2, HeldRange
<1>5. r.start < r.stop
  <2>1. m.start < m.stop
    BY <1>3 DEF Patterns, NonEmpty, size
  <2>2. m.start \in Numbers(m)
    BY <1>3, <2>1 DEF Numbers
  <2>3. m.start + s \in Numbers(r)
    BY <1>3, <2>2
  <2> HIDE DEF r, s
  <2> QED BY <1>4, <2>3 DEF Numbers
<1>6. Multiple(r.start) /\ Multiple(r.stop)
  <2>1. Multiple(r.start)
    BY <1>4, MultipleChecked DEF AlignedOrigin
  <2>2. CASE term.base.csc
    <3>1. matrix = term /\ CscBase(term.base)
      BY <2>2, MatrixOk, BaseOk DEF TermInv, LayoutOk
    <3>2. term.base.aligned
      BY <2>2, <3>1 DEF ClaimOk, alignedStride
    <3> QED BY <3>1, <3>2, CscRows
  <2>3. CASE ~ term.base.csc
    <3>1. ~ matrix.base.csc
      BY <2>3, MatrixOk DEF IsPair, PairBase
    <3>2. checkAlignment(size(r))
      BY <3>1 DEF ClaimOk, alignedStride
    <3> HIDE DEF r
    <3>3. size(r) \in Nat /\ r.stop = r.start + size(r)
      BY <1>4, <1>5 DEF size
    <3>4. Multiple(size(r))
      BY <3>2, <3>3, MultipleChecked
    <3> QED BY <2>1, <3>3, <3>4, MultipleSum
  <2> QED BY <2>2, <2>3
<1>7. \A v \in Views(matrix) : v.index = 1 => checkAlignment(v.start) /\ checkAlignment(v.stop - v.start)
  BY DEF AlignedOrigin, ClaimOk, alignedStride
<1>8. Within(aligned(m), h) /\ Multiple(aligned(m).start) /\ aligned(m).start \in Nat
  BY <1>2, <1>6, <1>7, ExtendedHeld
<1>9. Within(descr.m, h) /\ Multiple(descr.m.start) /\ descr.m.start \in Nat
  <2>1. CASE descr.m = aligned(m)
    BY <1>8, <2>1
  <2>2. CASE descr.m = m /\ checkAlignment(m.start)
    BY <1>3, <2>2, MultipleChecked
  <2> QED BY <1>1, <2>1, <2>2
<1>10. h.start <= descr.m.start
  BY <1>9 DEF Within
<1> HIDE DEF r, h, s
<1>11. r.start <= descr.m.start + s
  BY <1>4, <1>9, <1>10
<1> QED BY <1>9, <1>11 DEF r, h, s

\* A GEMM that is told that its columns are aligned accesses aligned columns in
\* every iteration of the loops around it, and the rows it adds for that are
\* stored (Factory._makeGemm, DenseMemoryLayout and CSCMemoryLayout.alignedStride).
THEOREM ClaimedAccessIsAligned == TSpec => []AlignedAccess
<1>1. TermInv /\ ClaimInv => AlignedAccess
  <2> SUFFICES ASSUME TermInv, ClaimInv, phase = "Described", descr.claim, AlignedOrigin
               PROVE  /\ Within(descr.m, Held(matrix, 1))
                      /\ \A j \in Numbers(descr.n), l \in Cells(descr.loops) :
                           checkAlignment(LoopAddress(l) +
                             (IF matrix.base.csc THEN matrix.base.colPtr[j + Shift(matrix, 2)]
                              ELSE address(matrix, <<descr.m.start, j>>)))
    BY DEF AlignedAccess
  <2>1. ClaimOk(descr) /\ phase # "Node"
    BY DEF ClaimInv
  <2>2. /\ Viewable(matrix) /\ Len(matrix.base.shape) = 2 /\ 2 \in 1 .. Len(matrix.base.shape)
        /\ ~ term.base.csc => IsPair(matrix.base)
        /\ term.base.csc => matrix = term /\ Looped = {}
    <3>1. 2 \in 1 .. 2
      OBVIOUS
    <3> QED BY <2>1, <3>1, MatrixOk
  <2>3. /\ Within(descr.m, Held(matrix, 1))
        /\ descr.m.start \in Nat /\ Multiple(descr.m.start)
        /\ matrix.base.bbox[1].start <= descr.m.start + Shift(matrix, 1)
    BY <2>1, ClaimedRows
  <2>4. ASSUME NEW j \in Numbers(descr.n), NEW l \in Cells(descr.loops)
        PROVE  checkAlignment(LoopAddress(l) +
                 (IF matrix.base.csc THEN matrix.base.colPtr[j + Shift(matrix, 2)]
                  ELSE address(matrix, <<descr.m.start, j>>)))
    <3>1. j \in Nat /\ j + Shift(matrix, 2) \in Numbers(matrix.base.bbox[2])
      BY <2>1, <2>2, PatternNumbers DEF ClaimOk
    <3>2. CASE term.base.csc
      <4> DEFINE b == term.base
                 c == j + Shift(matrix, 2)
                 r == b.bbox[2]
      <4>1. matrix.base = b /\ b.csc /\ CscBase(b)
        BY <2>2, <3>2, BaseOk DEF TermInv, LayoutOk
      <4>2. b.aligned
        BY <2>1, <4>1 DEF ClaimOk, alignedStride
      <4>3. r.start \in Nat /\ r.stop \in Nat
        BY <2>2, <4>1 DEF Viewable
      <4>4. r.stop <= b.shape[2] /\ b.shape[2] \in Nat
        BY <4>1, CscColumns, CscOk, ShapeLength
      <4>5. c \in Numbers(r)
        BY <3>1, <4>1
      <4>6. LoopAddress(l) = 0
        BY <2>2, <3>2, LoopNothing
      <4> HIDE DEF b, c, r
      <4>7. c \in 0 .. b.shape[2]
        BY <4>3, <4>4, <4>5 DEF Numbers
      <4>8. b.colPtr[c] \in Nat /\ checkAlignment(b.colPtr[c])
        BY <4>1, <4>2, <4>7, ColumnMultiple, CheckedMultiple
      <4>9. LoopAddress(l) + b.colPtr[c] = b.colPtr[c]
        BY <4>6, <4>8
      <4> QED BY <4>1, <4>8, <4>9 DEF c
    <3>3. CASE ~ term.base.csc
      <4> DEFINE x == LoopAddress(l)
                 y == address(matrix, <<descr.m.start, j>>)
      <4>1. x \in Nat /\ Multiple(x)
        BY <2>1, <3>3, LoopAligned DEF ClaimOk
      <4>2. IsPair(matrix.base) /\ alignedStride(matrix) /\ ~ matrix.base.csc
        BY <2>1, <2>2, <3>3 DEF ClaimOk, IsPair, PairBase
      <4>3. /\ checkAlignment(matrix.base.bbox[1].start)
            /\ \A v \in Views(matrix) : v.index = 1 => checkAlignment(v.start)
        BY DEF AlignedOrigin
      <4>4. y \in Nat /\ Multiple(y)
        BY <2>2, <2>3, <3>1, <4>2, <4>3, AlignedEntry
      <4> HIDE DEF x, y
      <4>5. x + y \in Nat /\ Multiple(x + y)
        <5>1. Multiple(x + y)
          BY <4>1, <4>4, MultipleSum
        <5>2. x + y \in Nat
          BY <4>1, <4>4
        <5> QED BY <5>1, <5>2
      <4>6. checkAlignment(x + y)
        BY <4>5, CheckedMultiple
      <4> QED BY <4>2, <4>6 DEF x, y
    <3> QED BY <3>2, <3>3
  <2> QED BY <2>3, <2>4
<1>2. TSpec => []ClaimInv
  BY ClaimInit, ClaimNext, PTL DEF TSpec
<1> QED BY <1>1, <1>2, LayoutsCorrect, PTL

-----------------------------------------------------------------------------
(* The digits of a number *)

Positive(S, s) == \A x \in S : s[x] \in Nat /\ s[x] > 0

LEMMA TimesPositive ==
  ASSUME NEW S, IsFiniteSet(S), NEW s, Positive(S, s)
  PROVE  Naturals(S, s) /\ Times(s, S) \in Nat /\ Times(s, S) > 0
<1> DEFINE P == {T \in SUBSET S : Times(s, T) > 0}
<1>1. ASSUME NEW T \in SUBSET S PROVE IsFiniteSet(T) /\ Naturals(T, s)
  BY FS_Subset DEF Naturals, Positive
<1>2. {} \in P
  <2>1. {} \in SUBSET S /\ Times(s, {}) = 1
    BY <1>1, TimesStep
  <2> QED BY <2>1
<1>3. ASSUME NEW T \in SUBSET S, T # {}, \A x \in T : T \ {x} \in P PROVE T \in P
  <2>1. PICK x \in T : TRUE
    BY <1>3
  <2> DEFINE R == T \ {x}
             w == Times(s, R)
             z == s[x]
  <2>2. R \in SUBSET S /\ w > 0
    BY <1>3, <2>1
  <2>3. Times(s, T) = z * w /\ w \in Nat
    BY <1>1, <2>2, TimesStep
  <2>4. z \in Nat /\ z > 0
    BY DEF Positive
  <2> HIDE DEF R, w, z
  <2>5. z * w > 0
    BY <2>2, <2>3, <2>4
  <2> QED BY <2>3, <2>5
<1> HIDE DEF P
<1>4. S \in P
  BY <1>2, <1>3, FiniteSetInduction
<1>5. Naturals(S, s)
  BY DEF Naturals, Positive
<1> QED BY <1>4, <1>5, TimesStep DEF P

LEMMA Division ==
  ASSUME NEW k \in Nat, NEW w \in Nat, w > 0
  PROVE  /\ k \div w \in Nat /\ k % w \in Nat /\ k % w < w
         /\ k = w * (k \div w) + (k % w)
<1>1. w \in Nat \ {0}
  OBVIOUS
<1>2. k % w \in 0 .. w - 1 /\ k \div w \in Int
  BY <1>1
<1>3. k \div w \in Nat
  BY <1>1
<1>4. k = w * (k \div w) + (k % w)
  BY <1>1
<1> QED BY <1>2, <1>3, <1>4

\* Two digits of a number.
LEMMA DigitSplits ==
  ASSUME NEW k \in Nat, NEW w \in Nat, w > 0, NEW z \in Nat, z > 0
  PROVE  w * ((k \div w) % z) + (k % w) = k % (z * w)
<1> DEFINE W == z * w
           q == k \div w
           r == k % w
           y == q \div z
           x == q % z
           Q == k \div W
           R == k % W
<1>1. q \in Nat /\ r \in Nat /\ r < w /\ k = w * q + r
  BY Division
<1>2. y \in Nat /\ x \in Nat /\ x < z /\ q = z * y + x
  <2> HIDE DEF q
  <2> QED BY <1>1, Division
<1>3. W \in Nat /\ W > 0
  OBVIOUS
<1>4. Q \in Nat /\ R \in Nat /\ R < W /\ k = W * Q + R
  <2> HIDE DEF W
  <2> QED BY <1>3, Division
<1> HIDE DEF q, r, y, x, Q, R
<1> DEFINE a == w * x + r
<1>5. a \in Nat /\ a < W
  <2>1. x + 1 \in Nat /\ x + 1 <= z
    BY <1>2
  <2>2. w * (x + 1) <= w * z
    BY <1>2, <2>1, TimesMonotone
  <2>3. w * (x + 1) = w * x + w /\ w * z = z * w /\ w * x \in Nat
    BY <1>2
  <2> QED BY <1>1, <2>2, <2>3
<1>6. k = y * W + a
  <2>1. w * (z * y + x) = (w * z) * y + w * x
    BY <1>2
  <2>2. (w * z) * y = y * (z * w)
    BY <1>2
  <2>3. y * (z * w) \in Nat /\ w * x \in Nat
    BY <1>2
  <2> QED BY <1>1, <1>2, <2>1, <2>2, <2>3
<1>7. R + Q * W = a + y * W
  <2> HIDE DEF W, a
  <2>1. Q * W = W * Q /\ Q * W \in Nat /\ y * W \in Nat
    BY <1>2, <1>3, <1>4
  <2> QED BY <1>4, <1>5, <1>6, <2>1
<1> HIDE DEF W
<1>8. a = R
  <2> HIDE DEF a
  <2> QED BY <1>2, <1>3, <1>4, <1>5, <1>7, DigitUnique
<1> QED BY <1>8 DEF W, R, a, x, q, r

\* The digits of k within its last positions.
Low(s, S, k) == [p \in S |-> (k \div Scale(s, S, p)) % s[p]]

LEMMA NumberLike ==
  ASSUME NEW s, NEW S, NEW e, NEW f, \A p \in S : e[p] = f[p]
  PROVE  Number(s, S, e) = Number(s, S, f)
BY DEF Number

LEMMA LowNumber ==
  ASSUME NEW S, Positions(S), NEW s, Positive(S, s), NEW k \in Nat
  PROVE  Number(s, S, Low(s, S, k)) = k % Times(s, S) /\ DigitsOf(S, s, Low(s, S, k))
<1> DEFINE P == {T \in SUBSET S : Number(s, T, Low(s, T, k)) = k % Times(s, T)}
<1>1. ASSUME NEW T \in SUBSET S
      PROVE  Positions(T) /\ IsFiniteSet(T) /\ Positive(T, s) /\ Naturals(T, s)
  BY FS_Subset DEF Naturals, Positive, Positions
<1>2. ASSUME NEW T \in SUBSET S, NEW p \in T
      PROVE  Scale(s, T, p) \in Nat /\ Scale(s, T, p) > 0
  <2> DEFINE B == {q \in T : q < p}
  <2>1. B \in SUBSET S
    OBVIOUS
  <2> HIDE DEF B
  <2>2. Times(s, B) \in Nat /\ Times(s, B) > 0
    BY <1>1, <2>1, TimesPositive
  <2> QED BY <2>2 DEF B, Scale
<1>3. ASSUME NEW T \in SUBSET S PROVE DigitsOf(T, s, Low(s, T, k))
  <2> SUFFICES ASSUME NEW p \in T PROVE Low(s, T, k)[p] \in Nat /\ Low(s, T, k)[p] < s[p]
    BY DEF DigitsOf
  <2> DEFINE c == Scale(s, T, p)
             q == k \div c
             z == s[p]
  <2>1. c \in Nat /\ c > 0 /\ z \in Nat /\ z > 0
    BY <1>2 DEF Positive
  <2> HIDE DEF c
  <2>2. q \in Nat
    BY <2>1, Division
  <2> HIDE DEF q, z
  <2>3. q % z \in Nat /\ q % z < z
    BY <2>1, <2>2, Division
  <2> QED BY <2>3 DEF Low, q, z, c
<1>4. {} \in P
  <2>1. {} \in SUBSET S
    OBVIOUS
  <2>2. Times(s, {}) = 1
    BY <1>1, <2>1, TimesStep
  <2>3. Naturals({}, Low(s, {}, k))
    BY DEF Naturals
  <2>4. Number(s, {}, Low(s, {}, k)) = 0
    <3> DEFINE e == Low(s, {}, k)
    <3> HIDE DEF e
    <3>1. Naturals({}, e)
      BY DEF Naturals
    <3> QED BY <1>1, <2>1, <3>1, NumberNat DEF e
  <2>5. k % 1 = 0
    OBVIOUS
  <2> QED BY <2>1, <2>2, <2>4, <2>5
<1>5. ASSUME NEW T \in SUBSET S, T # {}, \A x \in T : T \ {x} \in P PROVE T \in P
  <2>1. PICK m \in T : Greatest(m, T)
    BY <1>1, <1>5, GreatestNumber DEF Greatest, Positions
  <2> DEFINE R == T \ {m}
             w == Times(s, R)
             z == s[m]
             e == Low(s, T, k)
             f == Low(s, R, k)
  <2>2. R \in SUBSET S /\ R \in P
    BY <1>5, <2>1
  <2>3. Positions(T) /\ Naturals(T, s) /\ Naturals(T, e)
    BY <1>1, <1>3 DEF DigitsOf, Naturals
  <2>4. Scale(s, T, m) = w /\ Number(s, T, e) = w * e[m] + Number(s, R, e)
    <3> HIDE DEF e
    <3> QED BY <2>1, <2>3, NumberTop
  <2>5. w \in Nat /\ w > 0 /\ z \in Nat /\ z > 0
    <3>1. w \in Nat /\ w > 0
      BY <1>1, <2>2, TimesPositive
    <3> QED BY <3>1 DEF Positive
  <2>6. \A p \in R : e[p] = f[p]
    <3> SUFFICES ASSUME NEW p \in R PROVE Scale(s, T, p) = Scale(s, R, p)
      BY DEF Low
    <3>1. \A q \in T : q \in Int
      BY <1>1 DEF Positions
    <3>2. \A q \in T : q < p => q # m
      BY <2>1, <3>1 DEF Greatest
    <3>3. {q \in T : q < p} = {q \in R : q < p}
      BY <3>2
    <3> QED BY <3>3 DEF Scale
  <2>7. Number(s, R, e) = Number(s, R, f)
    <3> HIDE DEF e, f, R
    <3> QED BY <2>6, NumberLike
  <2>8. Number(s, R, f) = k % w
    BY <2>2
  <2>9. e[m] = (k \div w) % z
    BY <2>4 DEF Low
  <2>10. Times(s, T) = z * w
    BY <1>1, TimesStep
  <2> HIDE DEF R, w, z, e, f
  <2>11. w * ((k \div w) % z) + (k % w) = k % (z * w)
    BY <2>5, DigitSplits
  <2>12. Number(s, T, e) = k % Times(s, T)
    <3> DEFINE x == (k \div w) % z
               r == k % w
    <3>1. w * x + r = k % (z * w)
      BY <2>11
    <3>2. e[m] = x /\ Number(s, R, e) = r
      BY <2>7, <2>8, <2>9
    <3> HIDE DEF x, r
    <3>3. Number(s, T, e) = w * x + r
      BY <2>4, <3>2
    <3> QED BY <2>10, <3>1, <3>3
  <2> QED BY <2>12 DEF e
<1> HIDE DEF P
<1>6. S \in P
  BY <1>4, <1>5, FiniteSetInduction DEF Positions
<1> QED BY <1>3, <1>6 DEF P

\* The greatest position takes what is left.
Digits(s, S, k) ==
  [p \in S |-> IF p = Max(S) THEN k \div Scale(s, S, p) ELSE (k \div Scale(s, S, p)) % s[p]]

LEMMA DigitsNumber ==
  ASSUME NEW S, Positions(S), Greatest(Max(S), S), NEW s, Positive(S, s), NEW k \in Nat
  PROVE  /\ Naturals(S, Digits(s, S, k)) /\ Number(s, S, Digits(s, S, k)) = k
         /\ \A p \in S \ {Max(S)} : Digits(s, S, k)[p] < s[p]
         /\ Times(s, S \ {Max(S)}) \in Nat /\ Times(s, S \ {Max(S)}) > 0
         /\ Digits(s, S, k)[Max(S)] = k \div Times(s, S \ {Max(S)})
<1> DEFINE m == Max(S)
           R == S \ {m}
           w == Times(s, R)
           e == Digits(s, S, k)
           f == Low(s, R, k)
<1>1. Positions(R) /\ IsFiniteSet(R) /\ Positive(R, s) /\ Naturals(S, s)
  BY FS_Subset DEF Naturals, Positive, Positions
<1>2. w \in Nat /\ w > 0
  BY <1>1, TimesPositive
<1>3. Scale(s, S, m) = w
  <2>1. \A q \in S : q < m <=> q # m
    <3>1. Greatest(m, S)
      OBVIOUS
    <3> HIDE DEF m
    <3> QED BY <3>1 DEF Greatest, Positions
  <2>2. {q \in S : q < m} = R
    BY <2>1
  <2> QED BY <2>2 DEF Scale
<1>4. \A p \in R : e[p] = f[p]
  <2> SUFFICES ASSUME NEW p \in R PROVE Scale(s, S, p) = Scale(s, R, p)
    BY DEF Low, Digits
  <2>1. \A q \in S : q < p => q # m
    BY DEF Greatest, Positions
  <2>2. {q \in S : q < p} = {q \in R : q < p}
    BY <2>1
  <2> QED BY <2>2 DEF Scale
<1>5. e[m] = k \div w
  BY <1>3 DEF Digits, Greatest
<1>6. Number(s, R, f) = k % w /\ DigitsOf(R, s, f)
  <2> HIDE DEF R
  <2> QED BY <1>1, LowNumber
<1>7. k \div w \in Nat /\ k = w * (k \div w) + (k % w)
  <2> HIDE DEF w
  <2> QED BY <1>2, Division
<1>8. Naturals(S, e)
  <2> SUFFICES ASSUME NEW p \in S PROVE e[p] \in Nat
    BY DEF Naturals
  <2>1. CASE p = m
    BY <1>5, <1>7, <2>1
  <2>2. CASE p # m
    BY <1>4, <1>6, <2>2 DEF DigitsOf
  <2> QED BY <2>1, <2>2
<1>9. Number(s, S, e) = w * e[m] + Number(s, R, e)
  <2> HIDE DEF e, m
  <2> QED BY <1>1, <1>8, NumberTop DEF m
<1>10. Number(s, R, e) = Number(s, R, f)
  <2> HIDE DEF e, f, R
  <2> QED BY <1>4, NumberLike
<1>11. Number(s, S, e) = k
  <2> DEFINE x == k \div w
             r == k % w
  <2>1. e[m] = x /\ Number(s, R, e) = r /\ k = w * x + r
    BY <1>5, <1>6, <1>7, <1>10
  <2> HIDE DEF e, f, w, R, m, x, r
  <2>2. Number(s, S, e) = w * x + r
    BY <1>9, <2>1
  <2> QED BY <2>1, <2>2
<1>12. \A p \in R : e[p] < s[p]
  BY <1>4, <1>6 DEF DigitsOf
<1> QED BY <1>2, <1>5, <1>8, <1>11, <1>12

LEMMA NumberMonotone ==
  ASSUME NEW S, Positions(S), NEW s, Naturals(S, s), NEW e, Naturals(S, e), NEW f, Naturals(S, f),
         \A p \in S : e[p] <= f[p]
  PROVE  Number(s, S, e) <= Number(s, S, f)
<1> DEFINE g == [p \in S |-> f[p] - e[p]]
<1>1. Naturals(S, g) /\ \A p \in S : f[p] = e[p] + g[p]
  BY DEF Naturals
<1> HIDE DEF g
<1>2. Number(s, S, f) = Number(s, S, e) + Number(s, S, g)
  BY <1>1, NumberAdds
<1>3. Number(s, S, e) \in Nat /\ Number(s, S, g) \in Nat
  BY <1>1, NumberNat
<1> QED BY <1>2, <1>3

\* A number of one digit.
LEMMA NumberSingle ==
  ASSUME NEW p \in Int, NEW s, s[p] \in Nat, NEW e, e[p] \in Nat
  PROVE  Number(s, {p}, e) = e[p]
<1> DEFINE S == {p}
<1>1. Positions(S) /\ Naturals(S, s) /\ Naturals(S, e) /\ Greatest(p, S)
  <2>1. IsFiniteSet(S)
    BY FS_Singleton
  <2>2. p \in S /\ \A q \in S : q = p
    OBVIOUS
  <2> QED BY <2>1, <2>2 DEF Positions, Naturals, Greatest
<1>2. S \ {p} = {}
  OBVIOUS
<1>3. Number(s, S, e) = Times(s, S \ {p}) * e[p] + Number(s, S \ {p}, e)
  <2> HIDE DEF S
  <2> QED BY <1>1, NumberTop
<1> DEFINE Z == {}
<1>4. Positions(Z) /\ Naturals(Z, s) /\ Naturals(Z, e) /\ IsFiniteSet(Z)
  BY FS_EmptySet DEF Positions, Naturals
<1>5. Times(s, {}) = 1 /\ Number(s, {}, e) = 0
  BY <1>4, NumberNat, TimesStep
<1>6. Number(s, S, e) = 1 * e[p] + 0
  BY <1>2, <1>3, <1>5
<1> QED BY <1>6

-----------------------------------------------------------------------------
(* What is stored lies within the shape *)

\* The rows beyond it are those that were added to fill a vector.
StorageFits(b) == \A d \in 1 .. Len(b.shape) : unalignedBox(b)[d].stop <= b.shape[d]
FitsInv == ~ term.base.csc => StorageFits(term.base)

LEMMA UnalignedOf ==
  ASSUME NEW s, IsShape(s), NEW bbox, IsBox(bbox, Len(s)), NEW a \in BOOLEAN
  PROVE  /\ unalignedBox(DenseLayout(s, bbox, a)) = bbox /\ DenseLayout(s, bbox, a).shape = s
<1> DEFINE base == DenseLayout(s, bbox, a)
           n == Len(s)
<1>1. /\ base.shape = s
      /\ base.bbox = IF a THEN [bbox EXCEPT ![1] = aligned(@)] ELSE bbox
      /\ base.range0 = IF a THEN <<bbox[1]>> ELSE <<>>
  BY DenseLayoutOk
<1> HIDE DEF base
<1>2. bbox = [d \in 1 .. n |-> bbox[d]] /\ 1 \in 1 .. n
  BY ShapeLength DEF IsBox
<1>3. CASE a
  <2>1. base.bbox = [bbox EXCEPT ![1] = aligned(@)] /\ base.range0 = <<bbox[1]>>
    BY <1>1, <1>3
  <2>2. unalignedBox(base) = [[bbox EXCEPT ![1] = aligned(@)] EXCEPT ![1] = bbox[1]]
    BY <2>1 DEF unalignedBox
  <2>3. [[bbox EXCEPT ![1] = aligned(@)] EXCEPT ![1] = bbox[1]] = bbox
    BY <1>2
  <2> QED BY <1>1, <2>2, <2>3 DEF base
<1>4. CASE ~ a
  BY <1>1, <1>4 DEF unalignedBox, base
<1> QED BY <1>3, <1>4

LEMMA BoxesFit ==
  ASSUME NEW s, IsShape(s), NEW bbox \in Boxes(s)
  PROVE  \A d \in 1 .. Len(s) : bbox[d].stop <= s[d]
<1>1. DOMAIN s = 1 .. Len(s) /\ \A d \in 1 .. Len(s) : s[d] \in Nat
  BY ShapeLength
<1>2. \A d \in 1 .. Len(s) : bbox[d] \in NonEmpty(SubRanges(s[d]))
  BY <1>1 DEF Boxes
<1> SUFFICES ASSUME NEW d \in 1 .. Len(s) PROVE bbox[d].stop <= s[d]
  OBVIOUS
<1>3. PICK x \in 0 .. s[d] - 1, y \in 1 .. s[d] : bbox[d] = Interval(x, y)
  BY <1>2 DEF NonEmpty, SubRanges
<1> QED BY <1>1, <1>3 DEF Interval

LEMMA PlainFits ==
  ASSUME NEW s, IsShape(s), NEW bbox, IsBox(bbox, Len(s)), NEW a \in BOOLEAN,
         \A d \in 1 .. Len(s) : bbox[d].stop <= s[d]
  PROVE  StorageFits(DenseLayout(s, bbox, a))
<1> DEFINE base == DenseLayout(s, bbox, a)
<1>1. unalignedBox(base) = bbox /\ base.shape = s
  BY UnalignedOf
<1> HIDE DEF base
<1>2. StorageFits(base)
  BY <1>1 DEF StorageFits
<1> QED BY <1>2 DEF base

LEMMA FromSppFits ==
  ASSUME NEW s, IsShape(s), NEW bbox \in Boxes(s), NEW a \in BOOLEAN, NEW from \in Nat
  PROVE  StorageFits(fromSpp(s, bbox, a, from).base)
<1>0. IsBox(bbox, Len(s)) /\ \A d \in 1 .. Len(s) : bbox[d].stop <= s[d]
  BY BoxesOk, BoxesFit
<1>1. CASE ~ (a /\ from > 0)
  <2>1. StorageFits(DenseLayout(s, bbox, a))
    BY <1>0, PlainFits
  <2>2. fromSpp(s, bbox, a, from) = Layout(DenseLayout(s, bbox, a))
    BY <1>1 DEF fromSpp
  <2>3. Layout(DenseLayout(s, bbox, a)).base = DenseLayout(s, bbox, a)
    BY DEF Layout
  <2> QED BY <2>1, <2>2, <2>3
<1>2. CASE a /\ from > 0
  <2> DEFINE long == [s EXCEPT ![1] = @ + from]
             box == [bbox EXCEPT ![1] = Shifted(@, from)]
             base == DenseLayout(long, box, TRUE)
             n == Len(s)
  <2>1. n \in Nat \ {0} /\ 1 \in 1 .. n /\ DOMAIN s = 1 .. n /\ \A d \in 1 .. n : s[d] \in Nat \ {0}
    BY ShapeLength
  <2>2. IsShape(long) /\ Len(long) = n /\ \A d \in 1 .. n : long[d] = IF d = 1 THEN s[1] + from ELSE s[d]
    <3>1. long \in [1 .. n -> Nat \ {0}]
      BY <1>2, <2>1 DEF IsShape
    <3>2. long \in Seq(Nat \ {0}) /\ Len(long) = n
      BY <2>1, <3>1
    <3>3. \A d \in 1 .. n : long[d] = IF d = 1 THEN s[1] + from ELSE s[d]
      BY <2>1
    <3> QED BY <2>1, <3>1, <3>2, <3>3 DEF IsShape
  <2>3. bbox = [d \in 1 .. n |-> bbox[d]] /\ \A d \in 1 .. n : IsRange(bbox[d])
    BY <1>0 DEF IsBox
  <2>4. /\ box = [d \in 1 .. n |-> box[d]]
        /\ \A d \in 1 .. n : box[d] = IF d = 1 THEN Shifted(bbox[1], from) ELSE bbox[d]
    BY <2>1, <2>3
  <2>5. IsRange(Shifted(bbox[1], from)) /\ Shifted(bbox[1], from).stop = bbox[1].stop + from
    BY <2>1, <2>3 DEF IsRange, Shifted, Interval
  <2> HIDE DEF box, long
  <2>6. IsBox(box, n)
    <3>1. \A d \in 1 .. n : IsRange(box[d])
      BY <2>3, <2>4, <2>5
    <3> QED BY <2>4, <3>1 DEF IsBox
  <2>7. \A d \in 1 .. n : box[d].stop <= long[d]
    <3> SUFFICES ASSUME NEW d \in 1 .. n PROVE box[d].stop <= long[d]
      OBVIOUS
    <3>1. bbox[d].stop \in Nat /\ s[d] \in Nat /\ bbox[d].stop <= s[d]
      BY <1>0, <2>1, <2>3 DEF IsRange
    <3>2. CASE d = 1
      BY <2>2, <2>4, <2>5, <3>1, <3>2
    <3>3. CASE d # 1
      BY <2>2, <2>4, <3>1, <3>3
    <3> QED BY <3>2, <3>3
  <2>8. StorageFits(base)
    BY <2>2, <2>6, <2>7, PlainFits
  <2>9. fromSpp(s, bbox, a, from) = subslice(Layout(base), 1, from, long[1])
    BY <1>2 DEF fromSpp, base, long, box
  <2> HIDE DEF base
  <2>10. subslice(Layout(base), 1, from, long[1]).base = base
    BY DEF subslice, Layout
  <2> QED BY <2>8, <2>9, <2>10
<1> QED BY <1>1, <1>2

LEMMA PermutedFits ==
  ASSUME NEW b, DenseBase(b), NEW p \in Bijection(1 .. Len(b.shape), 1 .. Len(b.shape)), StorageFits(b)
  PROVE  StorageFits(permutedBase(b, p))
<1> DEFINE n == Len(b.shape)
           base == permutedBase(b, p)
<1>1. \A d \in 1 .. n : p[d] \in 1 .. n
  BY DEF Bijection, Injection
<1>2. /\ Len(base.shape) = n
      /\ \A d \in 1 .. n : base.shape[d] = b.shape[p[d]] /\ unalignedBox(base)[d] = unalignedBox(b)[p[d]]
  <2>1. /\ base.shape = [d \in 1 .. n |-> b.shape[p[d]]] /\ Len(base.shape) = n
        /\ unalignedBox(base) = [d \in 1 .. n |-> unalignedBox(b)[p[d]]]
    BY PermutedBaseOk
  <2> QED BY <2>1
<1> HIDE DEF base
<1> QED BY <1>1, <1>2 DEF StorageFits, base

LEMMA FitsInit == TInit => FitsInv
<1> SUFFICES ASSUME TInit PROVE FitsInv
  OBVIOUS
<1>1. PICK s \in Shapes : \/ isOp = FALSE /\ term \in TensorLayouts(s)
                          \/ isOp = TRUE /\ term \in OpLayouts(s)
  BY DEF TInit
<1>2. IsShape(s)
  BY ShapesAssumption DEF IsShape
<1>3. ASSUME \E bbox \in Boxes(s), a \in BOOLEAN : term = Layout(DenseLayout(s, bbox, a))
      PROVE  FitsInv
  <2>1. PICK bbox \in Boxes(s), a \in BOOLEAN : term = Layout(DenseLayout(s, bbox, a))
    BY <1>3
  <2>2. IsBox(bbox, Len(s)) /\ \A d \in 1 .. Len(s) : bbox[d].stop <= s[d]
    BY <1>2, BoxesOk, BoxesFit
  <2> DEFINE base == DenseLayout(s, bbox, a)
  <2>3. StorageFits(base)
    BY <1>2, <2>2, PlainFits
  <2>4. term = Layout(base)
    BY <2>1
  <2> HIDE DEF base
  <2>5. term.base = base
    BY <2>4 DEF Layout
  <2> QED BY <2>3, <2>5 DEF FitsInv
<1>4. ASSUME \E a \in BOOLEAN, spp \in (SUBSET ((0 .. s[1] - 1) \X (0 .. s[2] - 1))) \ {{}} :
               term = Layout(CSCLayout(s, spp, a))
      PROVE  FitsInv
  <2>1. PICK a \in BOOLEAN, spp \in (SUBSET ((0 .. s[1] - 1) \X (0 .. s[2] - 1))) \ {{}} :
          term = Layout(CSCLayout(s, spp, a))
    BY <1>4
  <2> DEFINE base == CSCLayout(s, spp, a)
  <2>2. base.csc
    BY DEF CSCLayout
  <2>3. term = Layout(base)
    BY <2>1
  <2> HIDE DEF base
  <2>4. term.base = base
    BY <2>3 DEF Layout
  <2> QED BY <2>2, <2>4 DEF FitsInv
<1>5. CASE isOp = FALSE /\ term \in TensorLayouts(s)
  <2>1. \/ \E bbox \in Boxes(s), a \in BOOLEAN : term = Layout(DenseLayout(s, bbox, a))
        \/ \E a \in BOOLEAN, spp \in (SUBSET ((0 .. s[1] - 1) \X (0 .. s[2] - 1))) \ {{}} :
             term = Layout(CSCLayout(s, spp, a))
    BY <1>5 DEF TensorLayouts
  <2> QED BY <1>3, <1>4, <2>1
<1>6. CASE isOp = TRUE /\ term \in OpLayouts(s)
  <2>1. PICK bbox \in Boxes(s), a \in BOOLEAN, from \in 0 .. AlignedReals - 1 :
          term = fromSpp(s, bbox, a, from)
    BY <1>6 DEF OpLayouts
  <2>2. from \in Nat
    BY AlignmentAssumption
  <2>3. StorageFits(fromSpp(s, bbox, a, from).base)
    BY <1>2, <2>2, FromSppFits
  <2> QED BY <2>1, <2>3 DEF FitsInv
<1> QED BY <1>1, <1>5, <1>6

LEMMA FitsNext == TermInv /\ FitsInv /\ [TNext]_vars => FitsInv'
<1> SUFFICES ASSUME TermInv, FitsInv, [TNext]_vars PROVE FitsInv'
  OBVIOUS
<1> DEFINE n == Len(term.base.shape)
<1>1. Dims = 1 .. n /\ LayoutOk(term)
  BY DimsOk DEF TermInv
<1>2. ASSUME term'.base = term.base PROVE FitsInv'
  BY <1>2 DEF FitsInv, StorageFits, unalignedBox
<1>3. ASSUME NEW d \in Dims, NEW r \in NonEmpty(SubRanges(shapeOf(term)[d])), Subslice(d, r)
      PROVE  FitsInv'
  <2>1. subslice(term, d, r.start, r.stop).base = term.base
    <3>1. r.start \in Nat /\ r.stop \in Nat /\ r.start < r.stop
      BY <1>3 DEF NonEmpty, SubRanges, size, Interval
    <3> QED BY <1>1, <1>3, <3>1, SubsliceOk
  <2> QED BY <1>2, <1>3, <2>1 DEF Subslice
<1>4. ASSUME NEW p \in Bijection(Dims, Dims), Permute(p) PROVE FitsInv'
  <2>1. DenseBase(term.base) /\ StorageFits(term.base)
    BY <1>1, <1>4, BaseOk DEF LayoutOk, TermInv, FitsInv, Permute
  <2>2. StorageFits(permutedBase(term.base, p))
    BY <1>1, <1>4, <2>1, PermutedFits
  <2>3. term'.base = permutedBase(term.base, p)
    BY <1>4 DEF Permute, permuted
  <2>4. StorageFits(term'.base)
    BY <2>2, <2>3
  <2> QED BY <2>4 DEF FitsInv, StorageFits, unalignedBox
<1>5. ASSUME NEW I \in FusedVariants, NEW J \in FusedVariants, MakeMatrix(I, J) PROVE FitsInv'
  BY <1>2, <1>5 DEF MakeMatrix
<1>6. ASSUME NEW m, NEW k, NEW loops, NEW ofProduct, NEW other, Describe(m, k, loops, ofProduct, other)
      PROVE  FitsInv'
  BY <1>2, <1>6 DEF Describe
<1>7. CASE UNCHANGED vars
  BY <1>2, <1>7 DEF vars
<1> QED BY <1>3, <1>4, <1>5, <1>6, <1>7 DEF TNext

\* Within a group that may be fused only the last position is stored in part.
LEMMA FullPosition ==
  ASSUME LayoutOk(term), ~ term.base.csc, StorageFits(term.base),
         NEW G \in FusedVariants, G # {}, NEW p \in G \ {Max(G)}
  PROVE  term.base.bbox[p].start = 0 /\ term.base.bbox[p].stop = term.base.shape[p]
<1> DEFINE b == term.base
           n == Len(b.shape)
           z == b.shape[p]
           r == b.bbox[p]
           sizes == [q \in DOMAIN b.bbox |-> size(b.bbox[q])]
<1>1. DenseBase(b)
  BY BaseOk DEF LayoutOk
<1>2. /\ G \subseteq 1 .. n /\ Positions(G) /\ Min(G) \in G /\ Max(G) \in G
      /\ G = Min(G) .. Max(G) /\ mayFuse(term, G)
  BY GroupOk
<1>3. p \in 1 .. n /\ p + 1 \in G
  <2>1. Min(G) \in Int /\ Max(G) \in Int /\ p \in Int
    BY <1>2 DEF Positions
  <2>2. Min(G) <= p /\ p < Max(G)
    BY <1>2, <2>1
  <2> QED BY <1>2, <2>1, <2>2
<1>4. b.stride[p + 1] = z * b.stride[p]
  <2>1. p \in Int /\ p < p + 1
    BY <1>2
  <2>2. \A x \in G : x <= p \/ p + 1 <= x
    BY <1>2, <2>1
  <2> QED BY <1>2, <1>3, <2>1, <2>2 DEF mayFuse
<1>5. n \in Nat /\ IsBox(b.bbox, n) /\ \A d \in 1 .. n : b.shape[d] \in Nat \ {0}
  BY <1>1, ShapeLength DEF DenseBase
<1>6. DOMAIN b.bbox = 1 .. n /\ \A d \in 1 .. n : IsRange(b.bbox[d])
  BY <1>5 DEF IsBox
<1>7. Positive(1 .. n, sizes) /\ sizes[p] = r.stop - r.start
  <2>1. \A d \in 1 .. n : sizes[d] = b.bbox[d].stop - b.bbox[d].start
    BY <1>6 DEF size
  <2>2. \A d \in 1 .. n : b.bbox[d].stop \in Nat /\ b.bbox[d].start \in Nat /\ b.bbox[d].start < b.bbox[d].stop
    BY <1>6 DEF IsRange
  <2> HIDE DEF sizes, b
  <2>3. \A d \in 1 .. n : sizes[d] \in Nat /\ sizes[d] > 0
    BY <2>1, <2>2
  <2> QED BY <1>3, <2>1, <2>3 DEF Positive
<1>8. b.stride[p + 1] = sizes[p] * b.stride[p] /\ b.stride[p] \in Nat /\ b.stride[p] > 0
  <2> DEFINE U == {q \in 1 .. n : q < p}
             V == {q \in 1 .. n : q < p + 1}
  <2>1. b.stride[p] = Times(sizes, U) /\ b.stride[p + 1] = Times(sizes, V)
    <3>1. p + 1 \in 1 .. n
      BY <1>2, <1>3
    <3> QED BY <1>1, <1>3, <1>6, <3>1 DEF DenseBase, Strides, Scale
  <2>2. p \in V /\ V \ {p} = U /\ V \in SUBSET (1 .. n) /\ U \in SUBSET (1 .. n)
    BY <1>3
  <2> HIDE DEF U, V, sizes
  <2>3. IsFiniteSet(1 .. n)
    BY <1>5, FS_Interval
  <2>4. IsFiniteSet(U) /\ IsFiniteSet(V) /\ Positive(U, sizes) /\ Positive(V, sizes)
    BY <1>7, <2>2, <2>3, FS_Subset DEF Positive
  <2>5. Times(sizes, U) \in Nat /\ Times(sizes, U) > 0 /\ Naturals(V, sizes)
    BY <2>4, TimesPositive
  <2>6. Times(sizes, V) = sizes[p] * Times(sizes, U)
    BY <2>2, <2>4, <2>5, TimesStep
  <2> QED BY <2>1, <2>5, <2>6
<1>9. r.start \in Nat /\ r.stop \in Nat /\ z \in Nat /\ r.start < r.stop
  BY <1>3, <1>5, <1>6 DEF IsRange
<1>10. r.stop - r.start = z
  <2> DEFINE c == b.stride[p]
             y == sizes[p]
  <2>1. z * c = y * c /\ c \in Nat /\ c > 0 /\ y \in Nat /\ z \in Nat
    <3>1. y \in Nat
      BY <1>3, <1>7 DEF Positive
    <3> QED BY <1>4, <1>8, <1>9, <3>1
  <2> HIDE DEF c, y, z
  <2>2. z = y
    BY <2>1
  <2> QED BY <1>7, <2>2 DEF y
<1>11. r.stop <= z
  <2>1. unalignedBox(b)[p].stop <= z
    BY <1>3 DEF StorageFits
  <2>2. unalignedBox(b)[p] = IF p = 1 /\ b.range0 # <<>> THEN b.range0[1] ELSE r
    BY <1>1, <1>3, UnalignedBoxOk
  <2>3. CASE ~ (p = 1 /\ b.range0 # <<>>)
    BY <2>1, <2>2, <2>3
  <2>4. CASE p = 1 /\ b.range0 # <<>>
    <3>1. PICK x : IsRange(x) /\ b.range0 = <<x>> /\ b.bbox[1] = aligned(x)
      BY <1>1, <2>4 DEF DenseBase
    <3>2. r.start = alignedLower(x.start) /\ r.stop = alignedUpper(x.stop) /\ x.stop <= z
      BY <2>1, <2>2, <2>4, <3>1 DEF aligned, Interval
    <3>3. Multiple(r.start) /\ Multiple(r.stop) /\ x.stop \in Nat
      BY <3>1, <3>2, MultipleBounds DEF IsRange
    <3> HIDE DEF z, r
    <3>4. Multiple(r.stop - r.start)
      BY <3>3, MultipleSum
    <3>5. Multiple(z)
      BY <1>10, <3>4
    <3> QED BY <3>2, <3>3, <3>5, AlignedWithin
  <2> QED BY <2>3, <2>4
<1> HIDE DEF r, z
<1>12. r.start = 0 /\ r.stop = z
  BY <1>9, <1>10, <1>11
<1> QED BY <1>12 DEF r, z

-----------------------------------------------------------------------------
(* The numbers of a fused group and its positions *)

\* The sizes of a group, whose fused number no view moves.
LEMMA FusedPlain ==
  ASSUME LayoutOk(term), ~ term.base.csc, NEW G \in FusedVariants, G # {}, G \cap Viewed(term) = {},
         NEW e, Naturals(G, e)
  PROVE  Fused(G, e) = Number(term.base.shape, G, e)
<1> DEFINE x == [p \in G |-> e[p] + Shift(term, p)]
           c == Scale(term.base.shape, G, Max(G))
<1>1. Fused(G, e) \in Nat /\ c * Shift(term, Max(G)) \in Nat
        /\ Fused(G, e) + c * Shift(term, Max(G)) = Number(term.base.shape, G, x)
  BY FusedNumber DEF Naturals
<1>2. \A p \in G : Shift(term, p) = 0
  BY ShiftOk, LayoutViewable
<1>3. Max(G) \in G /\ Positions(G) /\ G \subseteq 1 .. Len(term.base.shape)
  BY GroupOk
<1>4. c \in Nat
  <2>1. IsShape(term.base.shape)
    BY BaseOk DEF LayoutOk
  <2>2. Naturals(G, term.base.shape)
    BY <1>3, <2>1, ShapeLength DEF Naturals
  <2> QED BY <1>3, <2>2, NumberNat
<1>5. \A p \in G : x[p] = e[p]
  BY <1>2 DEF Naturals
<1> HIDE DEF x, c
<1>6. Number(term.base.shape, G, x) = Number(term.base.shape, G, e)
  BY <1>5, NumberLike
<1>7. c * Shift(term, Max(G)) = 0
  <2> DEFINE t == Shift(term, Max(G))
  <2>1. t = 0
    BY <1>2, <1>3
  <2> HIDE DEF t
  <2>2. c * t = 0
    BY <1>4, <2>1
  <2> QED BY <2>2 DEF t
<1> QED BY <1>1, <1>6, <1>7

LEMMA GroupSizes ==
  ASSUME LayoutOk(term), NEW G \in FusedVariants, G # {}
  PROVE  /\ Positive(G, term.base.shape) /\ Naturals(G, term.base.shape)
         /\ Positions(G) /\ Greatest(Max(G), G) /\ G \subseteq 1 .. Len(term.base.shape)
<1>1. G \subseteq 1 .. Len(term.base.shape) /\ Positions(G) /\ Greatest(Max(G), G)
  BY GroupOk
<1>2. IsShape(term.base.shape)
  BY BaseOk DEF LayoutOk
<1>3. \A d \in G : term.base.shape[d] \in Nat \ {0}
  BY <1>1, <1>2, ShapeLength
<1>4. Positive(G, term.base.shape) /\ Naturals(G, term.base.shape)
  BY <1>3 DEF Positive, Naturals
<1> QED BY <1>1, <1>4

\* Every number of the range of a group is that of positions that are stored.
LEMMA GroupReached ==
  ASSUME LayoutOk(term), ~ term.base.csc, StorageFits(term.base),
         NEW G \in FusedVariants, G # {}, G \cap Viewed(term) = {},
         NEW k \in Numbers(subRange(term.base, G))
  PROVE  \E f : Fused(G, f) = k /\ \A p \in G : f[p] \in Numbers(term.base.bbox[p])
<1> DEFINE b == term.base
           s == b.shape
           m == Max(G)
           R == G \ {m}
           w == Times(s, R)
           f == Digits(s, G, k)
           x == [p \in G |-> b.bbox[p].start]
           y == [p \in G |-> b.bbox[p].stop - 1]
<1>1. Positive(G, s) /\ Naturals(G, s) /\ Positions(G) /\ Greatest(m, G) /\ G \subseteq 1 .. Len(s)
  BY GroupSizes
<1>2. subRange(b, G).start = Number(s, G, x) /\ subRange(b, G).stop = Number(s, G, y) + 1
  BY DEF subRange, Interval
<1>3. \A p \in G : IsRange(b.bbox[p])
  <2>1. IsBox(b.bbox, Len(s))
    BY BoxOk DEF LayoutOk
  <2> QED BY <1>1, <2>1 DEF IsBox
<1>4. Naturals(G, x) /\ Naturals(G, y)
  <2>1. \A p \in G : b.bbox[p].start \in Nat /\ b.bbox[p].stop - 1 \in Nat
    BY <1>3 DEF IsRange
  <2> QED BY <2>1 DEF Naturals
<1>5. Number(s, G, x) \in Nat /\ Number(s, G, y) \in Nat
  <2> HIDE DEF x, y
  <2> QED BY <1>1, <1>4, NumberNat
<1>6. k \in Nat /\ Number(s, G, x) <= k /\ k <= Number(s, G, y)
  <2> HIDE DEF x, y
  <2>1. k \in Number(s, G, x) .. (Number(s, G, y) + 1) - 1
    BY <1>2 DEF Numbers
  <2> QED BY <1>5, <2>1
<1>7. /\ Naturals(G, f) /\ Number(s, G, f) = k /\ \A p \in R : f[p] < s[p]
      /\ w \in Nat /\ w > 0 /\ f[m] = k \div w
  <2> HIDE DEF s
  <2> QED BY <1>1, <1>6, DigitsNumber
<1>8. \A p \in R : b.bbox[p].start = 0 /\ b.bbox[p].stop = s[p]
  BY FullPosition
<1>9. ASSUME NEW p \in R PROVE f[p] \in Numbers(b.bbox[p])
  <2>1. f[p] \in Nat /\ f[p] < s[p] /\ s[p] \in Nat
    BY <1>1, <1>7 DEF Naturals
  <2> HIDE DEF f
  <2> QED BY <1>8, <2>1 DEF Numbers
<1>10. m \in G
  BY <1>1 DEF Greatest
<1>11. Number(s, G, x) = w * x[m] + Number(s, R, x) /\ Number(s, G, y) = w * y[m] + Number(s, R, y)
  <2>1. /\ Number(s, G, x) = w * x[m] + Number(s, R, x)
    <3> HIDE DEF x
    <3> QED BY <1>1, <1>4, NumberTop
  <2>2. Number(s, G, y) = w * y[m] + Number(s, R, y)
    <3> HIDE DEF y
    <3> QED BY <1>1, <1>4, NumberTop
  <2> QED BY <2>1, <2>2
<1>12. Positions(R) /\ Naturals(R, s) /\ Naturals(R, x) /\ Naturals(R, y) /\ DigitsOf(R, s, y)
  <2>1. Positions(R)
    BY <1>1, FS_Subset DEF Positions
  <2>2. Naturals(R, s) /\ Naturals(R, x) /\ Naturals(R, y)
    BY <1>1, <1>4 DEF Naturals
  <2>3. \A p \in R : y[p] \in Nat /\ y[p] < s[p]
    <3>1. \A p \in R : y[p] = s[p] - 1 /\ s[p] \in Nat /\ s[p] > 0
      BY <1>1, <1>8 DEF Positive
    <3> HIDE DEF y
    <3> QED BY <3>1
  <2> QED BY <2>1, <2>2, <2>3 DEF DigitsOf
<1>13. Number(s, R, x) \in Nat /\ Number(s, R, y) \in Nat /\ Number(s, R, y) < w
  <2> HIDE DEF x, y, R
  <2>1. Number(s, R, x) \in Nat /\ Number(s, R, y) \in Nat
    BY <1>12, NumberNat
  <2>2. Number(s, R, y) < Times(s, R)
    BY <1>12, NumberBelow
  <2> QED BY <2>1, <2>2
<1>14. f[m] \in Numbers(b.bbox[m])
  <2> DEFINE q == k \div w
             t == k % w
             u == x[m]
             v == y[m]
             i == Number(s, R, x)
             j == Number(s, R, y)
  <2>1. q \in Nat /\ t \in Nat /\ t < w /\ k = w * q + t
    <3> HIDE DEF w
    <3> QED BY <1>6, <1>7, Division
  <2>2. u = b.bbox[m].start /\ v = b.bbox[m].stop - 1 /\ u \in Nat /\ v \in Nat
    <3>1. u \in Nat /\ v \in Nat
      BY <1>4, <1>10 DEF Naturals
    <3> QED BY <1>10, <3>1
  <2>3. w * u + i <= k /\ k <= w * v + j
    BY <1>6, <1>11
  <2>4. w \in Nat /\ i \in Nat /\ j \in Nat /\ j < w
    BY <1>7, <1>13
  <2>5. b.bbox[m].stop \in Nat
    BY <1>3, <1>10 DEF IsRange
  <2>6. f[m] = q
    BY <1>7
  <2> HIDE DEF q, t, u, v, i, j, w, f, x, y, b, s, m
  <2>7. u <= q
    <3> SUFFICES ASSUME q + 1 <= u PROVE FALSE
      BY <2>1, <2>2
    <3>1. w * (q + 1) <= w * u
      BY <2>1, <2>2, <2>4, TimesMonotone
    <3>2. w * (q + 1) = w * q + w /\ w * q \in Nat /\ w * u \in Nat
      BY <2>1, <2>2, <2>4
    <3> QED BY <2>1, <2>3, <2>4, <3>1, <3>2
  <2>8. q <= v
    <3> SUFFICES ASSUME v + 1 <= q PROVE FALSE
      BY <2>1, <2>2
    <3>1. w * (v + 1) <= w * q
      BY <2>1, <2>2, <2>4, TimesMonotone
    <3>2. w * (v + 1) = w * v + w /\ w * q \in Nat /\ w * v \in Nat
      BY <2>1, <2>2, <2>4
    <3> QED BY <2>1, <2>3, <2>4, <3>1, <3>2
  <2>9. q \in u .. v
    BY <2>1, <2>2, <2>7, <2>8
  <2> QED BY <2>2, <2>5, <2>6, <2>9 DEF Numbers
<1>15. \A p \in G : f[p] \in Numbers(b.bbox[p])
  <2> HIDE DEF f
  <2>1. \A p \in G : p = m \/ p \in R
    OBVIOUS
  <2> QED BY <1>9, <1>14, <2>1
<1>16. Fused(G, f) = k
  <2> HIDE DEF f
  <2> QED BY <1>7, FusedPlain
<1> HIDE DEF f
<1> QED BY <1>15, <1>16

\* A number whose digits are between those of two numbers is between them.
LEMMA GroupBetween ==
  ASSUME LayoutOk(term), ~ term.base.csc, NEW G \in FusedVariants, G # {}, G \cap Viewed(term) = {},
         NEW r, r.start \in Nat, r.stop \in Nat, r.start < r.stop,
         NEW e, \A p \in G : e[p] \in Nat /\ e[p] \in Numbers(defuseBase(term.base, r, G)[p])
  PROVE  Fused(G, e) \in Numbers(r)
<1> DEFINE s == term.base.shape
           x == Digits(s, G, r.start)
           y == Digits(s, G, r.stop - 1)
<1>1. Positive(G, s) /\ Naturals(G, s) /\ Positions(G) /\ Greatest(Max(G), G)
  BY GroupSizes
<1>2. r.stop - 1 \in Nat
  OBVIOUS
<1>3. Naturals(G, x) /\ Number(s, G, x) = r.start
  <2> DEFINE l == r.start
  <2> HIDE DEF l, s
  <2>1. l \in Nat
    BY DEF l
  <2>2. Naturals(G, Digits(s, G, l)) /\ Number(s, G, Digits(s, G, l)) = l
    BY <1>1, <2>1, DigitsNumber
  <2> QED BY <2>2 DEF l
<1>4. Naturals(G, y) /\ Number(s, G, y) = r.stop - 1
  <2> DEFINE l == r.stop - 1
  <2> HIDE DEF l, s
  <2>1. l \in Nat
    BY <1>2 DEF l
  <2>2. Naturals(G, Digits(s, G, l)) /\ Number(s, G, Digits(s, G, l)) = l
    BY <1>1, <2>1, DigitsNumber
  <2> QED BY <2>2 DEF l
<1>5. \A p \in G : defuseBase(term.base, r, G)[p] = Interval(x[p], y[p] + 1)
  BY DEF defuseBase, Digits
<1>6. Naturals(G, e) /\ \A p \in G : x[p] <= e[p] /\ e[p] <= y[p]
  <2> SUFFICES ASSUME NEW p \in G PROVE e[p] \in Nat /\ x[p] <= e[p] /\ e[p] <= y[p]
    BY DEF Naturals
  <2>1. x[p] \in Nat /\ y[p] \in Nat
    BY <1>3, <1>4 DEF Naturals
  <2> HIDE DEF x, y
  <2>2. e[p] \in Nat /\ e[p] \in Numbers(Interval(x[p], y[p] + 1))
    BY <1>5
  <2>3. e[p] \in x[p] .. (y[p] + 1) - 1
    BY <2>2 DEF Numbers, Interval
  <2> QED BY <2>1, <2>2, <2>3
<1> HIDE DEF x, y, s
<1>7. Number(s, G, x) <= Number(s, G, e) /\ Number(s, G, e) <= Number(s, G, y)
  BY <1>1, <1>3, <1>4, <1>6, NumberMonotone
<1>8. Number(s, G, e) \in Nat
  BY <1>1, <1>6, NumberNat
<1>9. Fused(G, e) = Number(s, G, e)
  BY <1>6, FusedPlain DEF s
<1> QED BY <1>2, <1>3, <1>4, <1>7, <1>8, <1>9 DEF Numbers

-----------------------------------------------------------------------------
(* Boxes and ranges that pass through the views *)

\* A range that no view is over passes through all of them.
LEMMA DefusePlain ==
  ASSUME NEW lay, Viewable(lay), NEW S, S \cap Viewed(lay) = {}, NEW r
  PROVE  defuse(lay, r, S) = defuseBase(lay.base, r, S)
<1> DEFINE v == lay.views
           D == DOMAIN v
           part(x, q) == IF v[x].index \in S
                         THEN Interval((size(q) \div (v[x].stop - v[x].start)) * v[x].start,
                                       (size(q) \div (v[x].stop - v[x].start)) * v[x].stop)
                         ELSE q
           Eqn(f) == f = [t \in SUBSET D |-> IF t = {} THEN r
                                             ELSE LET x == Min(t) IN part(x, f[t \ {x}])]
           iter == CHOOSE f : Eqn(f)
<1>1. D = 1 .. Len(v) /\ Len(v) \in Nat
  BY DEF Viewable
<1>2. defuse(lay, r, S) = defuseBase(lay.base, iter[D], S)
  BY DEF defuse, FoldRight, MapThenFoldSet
<1>3. \A x \in D : v[x].index \notin S
  BY DEF Viewed, Views
<1>4. \A t \in (SUBSET D) \ {{}} : Min(t) \in t
  BY <1>1, MinOk
<1>5. \A x \in D : \A q : part(x, q) = q
  BY <1>3
<1> HIDE DEF part
<1>6. Eqn([t \in SUBSET D |-> r])
  <2> DEFINE f == [t \in SUBSET D |-> r]
             g == [t \in SUBSET D |-> IF t = {} THEN r ELSE part(Min(t), f[t \ {Min(t)}])]
  <2>1. ASSUME NEW t \in SUBSET D PROVE g[t] = r
    <3>1. CASE t = {}
      BY <3>1
    <3>2. CASE t # {}
      <4>1. Min(t) \in D /\ t \ {Min(t)} \in SUBSET D
        BY <1>4, <3>2
      <4>2. f[t \ {Min(t)}] = r
        BY <4>1
      <4>3. part(Min(t), f[t \ {Min(t)}]) = r
        BY <1>5, <4>1, <4>2
      <4> QED BY <3>2, <4>3
    <3> QED BY <3>1, <3>2
  <2>2. f = g
    BY <2>1
  <2> QED BY <2>2
<1>7. Eqn(iter)
  <2> HIDE DEF Eqn
  <2> QED BY <1>6
<1> HIDE DEF iter
<1>8. /\ iter[{}] = r
      /\ \A t \in (SUBSET D) \ {{}} : iter[t] = part(Min(t), iter[t \ {Min(t)}])
  <2>1. {} \in SUBSET D
    OBVIOUS
  <2> QED BY <1>7, <2>1
<1> HIDE DEF Eqn
<1> DEFINE P == {t \in SUBSET D : iter[t] = r}
<1>9. {} \in P
  BY <1>8
<1>10. ASSUME NEW t \in SUBSET D, t # {}, \A x \in t : t \ {x} \in P PROVE t \in P
  <2>1. Min(t) \in t /\ Min(t) \in D
    BY <1>4, <1>10
  <2>2. iter[t \ {Min(t)}] = r
    BY <1>10, <2>1
  <2>3. iter[t] = r
    BY <1>5, <1>8, <1>10, <2>1, <2>2
  <2> QED BY <2>3
<1> HIDE DEF P
<1>11. IsFiniteSet(D)
  <2>1. IsFiniteSet(1 .. Len(v))
    BY <1>1, FS_Interval
  <2> HIDE DEF D
  <2> QED BY <1>1, <2>1
<1>12. D \in P
  <2> HIDE DEF D
  <2> QED BY <1>9, <1>10, <1>11, FiniteSetInduction
<1>13. iter[D] = r
  BY <1>12 DEF P
<1> QED BY <1>2, <1>13

\* Views over different dimensions.
BoxViews(V, n) ==
  /\ n \in Nat /\ Len(V) \in Nat /\ V = [k \in 1 .. Len(V) |-> V[k]]
  /\ \A k \in 1 .. Len(V) : V[k].index \in 1 .. n /\ V[k].start \in Nat /\ V[k].stop \in Nat
  /\ \A j, k \in 1 .. Len(V) : V[j].index = V[k].index => j = k

BoxSet(n) == [1 .. n -> [start : Int, stop : Int]]

clipped(v, r) == Interval(Max({r.start + v.start, v.start}), Min({r.stop + v.start, v.stop}))

\* The views at the positions t move box X to box Y.
MovesBox(V, n, t, X, Y) ==
  /\ Y \in BoxSet(n)
  /\ \A k \in t : Y[V[k].index] = clipped(V[k], X[V[k].index])
  /\ \A d \in 1 .. n : (\A k \in t : V[k].index # d) => Y[d] = X[d]

PassedOn(f, V, X, pick) ==
  f = [t \in SUBSET (1 .. Len(V)) |-> IF t = {} THEN X ELSE relbox(V[pick[t]], f[t \ {pick[t]}])]

LEMMA ClippedOk ==
  ASSUME NEW v, v.start \in Nat, v.stop \in Nat, NEW r \in [start : Int, stop : Int]
  PROVE  clipped(v, r) \in [start : Int, stop : Int]
<1>1. /\ r.start + v.start \in Int /\ v.start \in Int
      /\ r.stop + v.start \in Int /\ v.stop \in Int
  OBVIOUS
<1> DEFINE a == r.start + v.start
           b == r.stop + v.start
<1> HIDE DEF a, b
<1>2. Max({a, v.start}) \in {a, v.start} /\ Min({b, v.stop}) \in {b, v.stop}
  BY <1>1, PairBounds DEF a, b
<1>3. Max({a, v.start}) \in Int /\ Min({b, v.stop}) \in Int
  BY <1>1, <1>2 DEF a, b
<1> QED BY <1>3 DEF clipped, Interval, a, b

LEMMA BoxFold ==
  ASSUME NEW n, NEW V, BoxViews(V, n), NEW X \in BoxSet(n), NEW pick \in Picks(1 .. Len(V)),
         NEW f, PassedOn(f, V, X, pick)
  PROVE  MovesBox(V, n, 1 .. Len(V), X, f[1 .. Len(V)])
<1> DEFINE D == 1 .. Len(V)
           P == {t \in SUBSET D : MovesBox(V, n, t, X, f[t])}
<1>1. IsFiniteSet(D)
  BY FS_Interval DEF BoxViews
<1>2. /\ f[{}] = X
      /\ \A t \in (SUBSET D) \ {{}} : f[t] = relbox(V[pick[t]], f[t \ {pick[t]}])
  <2>1. {} \in SUBSET D
    OBVIOUS
  <2> QED BY <2>1 DEF PassedOn
<1>3. {} \in P
  BY <1>2 DEF MovesBox
<1>4. ASSUME NEW t \in SUBSET D, t # {}, \A x \in t : t \ {x} \in P PROVE t \in P
  <2> DEFINE c == pick[t]
             R == t \ {c}
             v == V[c]
             Y == f[R]
             Z == f[t]
             i == v.index
  <2>1. c \in t /\ c \in D
    BY <1>4 DEF Picks
  <2>2. MovesBox(V, n, R, X, Y)
    BY <1>4, <2>1
  <2>3. Z = relbox(v, Y)
    BY <1>2, <1>4
  <2>4. i \in 1 .. n /\ v.start \in Nat /\ v.stop \in Nat /\ \A k \in R : k \in D /\ V[k].index # i
    <3>1. i \in 1 .. n /\ v.start \in Nat /\ v.stop \in Nat
      BY <2>1 DEF BoxViews
    <3>2. \A k \in R : k \in D /\ k # c
      OBVIOUS
    <3>3. \A k \in R : V[k].index # i
      BY <2>1, <3>2 DEF BoxViews
    <3> QED BY <3>1, <3>2, <3>3
  <2>5. \A k \in t : k = c \/ k \in R
    OBVIOUS
  <2> HIDE DEF R, Y, Z, c, i
  <2>6. Y \in BoxSet(n) /\ Y[i] = X[i] /\ X[i] \in [start : Int, stop : Int]
    BY <2>2, <2>4 DEF MovesBox, BoxSet
  <2>7. Z = [Y EXCEPT ![i] = clipped(v, Y[i])]
    BY <2>3 DEF relbox, clipped, i
  <2> HIDE DEF v
  <2>8. clipped(v, X[i]) \in [start : Int, stop : Int]
    BY <2>4, <2>6, ClippedOk
  <2>9. Z \in BoxSet(n) /\ Z[i] = clipped(v, X[i]) /\ \A d \in 1 .. n : d # i => Z[d] = Y[d]
    BY <2>4, <2>6, <2>7, <2>8 DEF BoxSet
  <2>10. \A k \in t : Z[V[k].index] = clipped(V[k], X[V[k].index])
    <3> SUFFICES ASSUME NEW k \in t PROVE Z[V[k].index] = clipped(V[k], X[V[k].index])
      OBVIOUS
    <3>1. CASE k = c
      BY <2>9, <3>1 DEF i, v
    <3>2. CASE k \in R
      <4>1. V[k].index \in 1 .. n /\ V[k].index # i
        BY <2>4, <3>2 DEF BoxViews
      <4>2. Y[V[k].index] = clipped(V[k], X[V[k].index])
        BY <2>2, <3>2 DEF MovesBox
      <4> QED BY <2>9, <4>1, <4>2
    <3> QED BY <2>5, <3>1, <3>2
  <2>11. ASSUME NEW d \in 1 .. n, \A k \in t : V[k].index # d PROVE Z[d] = X[d]
    <3>1. d # i
      BY <2>1, <2>11 DEF i, v
    <3>2. \A k \in R : V[k].index # d
      BY <2>11 DEF R
    <3>3. Y[d] = X[d]
      BY <2>2, <3>2 DEF MovesBox
    <3> QED BY <2>9, <3>1, <3>3
  <2>12. MovesBox(V, n, t, X, Z)
    BY <2>9, <2>10, <2>11 DEF MovesBox
  <2> QED BY <2>12 DEF Z
<1> HIDE DEF P
<1>5. D \in P
  <2> HIDE DEF D
  <2> QED BY <1>1, <1>3, <1>4, FiniteSetInduction
<1> QED BY <1>5 DEF P

LEMMA BoxFoldExists ==
  ASSUME NEW n, NEW V, BoxViews(V, n), NEW X \in BoxSet(n), NEW pick \in Picks(1 .. Len(V))
  PROVE  \E f : PassedOn(f, V, X, pick)
<1> DEFINE D == 1 .. Len(V)
           T == BoxSet(n)
           step == [q \in D \X T |-> relbox(V[q[1]], q[2])]
<1>1. IsFiniteSet(D)
  BY FS_Interval DEF BoxViews
<1>2. step \in SetSteps(D, T)
  <2> SUFFICES ASSUME NEW k \in D, NEW b \in T PROVE relbox(V[k], b) \in T
    BY DEF SetSteps
  <2> DEFINE v == V[k]
             i == v.index
  <2>1. i \in 1 .. n /\ v.start \in Nat /\ v.stop \in Nat
    BY DEF BoxViews
  <2>2. relbox(v, b) = [b EXCEPT ![i] = clipped(v, b[i])]
    BY DEF relbox, clipped
  <2> HIDE DEF v
  <2>3. b[i] \in [start : Int, stop : Int]
    BY <2>1 DEF BoxSet
  <2>4. clipped(v, b[i]) \in [start : Int, stop : Int]
    BY <2>1, <2>3, ClippedOk
  <2> QED BY <2>2, <2>4 DEF BoxSet, v
<1> HIDE DEF T
<1>3. PICK f : SetSolves(f, D, T, X, step, pick)
  <2> HIDE DEF D, step
  <2> QED BY <1>1, <1>2, SetRecursionExists DEF D, T
<1>4. /\ f = [t \in SUBSET D |-> f[t]] /\ f[{}] = X
      /\ \A t \in (SUBSET D) \ {{}} : f[t] = step[<<pick[t], f[t \ {pick[t]}]>>] /\ f[t \ {pick[t]}] \in T
  <2> HIDE DEF step, D
  <2>1. f = [t \in SUBSET D |-> f[t]] /\ f[{}] = X /\ \A t \in SUBSET D : f[t] \in T
    BY <1>3 DEF SetSolves
  <2>2. \A t \in (SUBSET D) \ {{}} : t \ {pick[t]} \in SUBSET D
    OBVIOUS
  <2> QED BY <1>3, <2>1, <2>2 DEF SetSolves
<1>5. \A t \in (SUBSET D) \ {{}} : f[t] = relbox(V[pick[t]], f[t \ {pick[t]}])
  <2> SUFFICES ASSUME NEW t \in (SUBSET D) \ {{}} PROVE f[t] = relbox(V[pick[t]], f[t \ {pick[t]}])
    OBVIOUS
  <2>1. pick[t] \in D
    BY DEF Picks
  <2> QED BY <1>4, <2>1
<1> HIDE DEF step
<1>6. f = [t \in SUBSET D |-> IF t = {} THEN X ELSE relbox(V[pick[t]], f[t \ {pick[t]}])]
  <2>1. \A t \in SUBSET D : f[t] = IF t = {} THEN X ELSE relbox(V[pick[t]], f[t \ {pick[t]}])
    BY <1>4, <1>5
  <2> QED BY <1>4, <2>1
<1> QED BY <1>6 DEF PassedOn

\* The box of what is written, moved into the storage.
LEMMA RelboxesOk ==
  ASSUME NEW n, NEW V, BoxViews(V, n), NEW X \in BoxSet(n)
  PROVE  MovesBox(V, n, 1 .. Len(V), X, relboxes(V, X))
<1> DEFINE D == DOMAIN V
           pick == [t \in (SUBSET D) \ {{}} |-> Min(t)]
           Eqn(f) == f = [t \in SUBSET D |-> IF t = {} THEN X
                                             ELSE LET x == Min(t) IN relbox(V[x], f[t \ {x}])]
           iter == CHOOSE f : Eqn(f)
<1>1. D = 1 .. Len(V) /\ Len(V) \in Nat
  BY DEF BoxViews
<1>2. relboxes(V, X) = iter[D]
  BY DEF relboxes, FoldRight, MapThenFoldSet
<1>3. \A t \in (SUBSET D) \ {{}} : Min(t) \in t
  BY <1>1, MinOk
<1>4. pick \in Picks(D)
  BY <1>3 DEF Picks
<1>5. ASSUME NEW f PROVE Eqn(f) <=> PassedOn(f, V, X, pick)
  <2> DEFINE a(t) == IF t = {} THEN X ELSE relbox(V[Min(t)], f[t \ {Min(t)}])
             c(t) == IF t = {} THEN X ELSE relbox(V[pick[t]], f[t \ {pick[t]}])
  <2>1. \A t \in SUBSET D : a(t) = c(t)
    OBVIOUS
  <2>2. Eqn(f) <=> f = [t \in SUBSET D |-> a(t)]
    OBVIOUS
  <2>3. PassedOn(f, V, X, pick) <=> f = [t \in SUBSET D |-> c(t)]
    BY <1>1 DEF PassedOn
  <2> HIDE DEF a, c, Eqn
  <2> QED BY <2>1, <2>2, <2>3
<1> HIDE DEF pick
<1>6. \E f : PassedOn(f, V, X, pick)
  BY <1>1, <1>4, BoxFoldExists
<1>7. Eqn(iter)
  <2> HIDE DEF Eqn
  <2> QED BY <1>5, <1>6
<1>8. PassedOn(iter, V, X, pick)
  <2> HIDE DEF Eqn, iter
  <2> QED BY <1>5, <1>7
<1> HIDE DEF iter, Eqn
<1>9. MovesBox(V, n, 1 .. Len(V), X, iter[1 .. Len(V)])
  BY <1>1, <1>4, <1>8, BoxFold
<1> QED BY <1>1, <1>2, <1>9

\* The box of a layout that is viewed.
LEMMA BboxOfOk ==
  ASSUME NEW n, NEW lay, BoxViews(lay.views, n), lay.base.bbox \in BoxSet(n)
  PROVE  MovesBox(lay.views, n, 1 .. Len(lay.views), lay.base.bbox, bboxOf(lay))
<1> DEFINE V == lay.views
           X == lay.base.bbox
           D == DOMAIN V
           pick == [t \in (SUBSET D) \ {{}} |-> Max(t)]
           Eqn(f) == f = [t \in SUBSET D |-> IF t = {} THEN X
                                             ELSE LET x == Max(t) IN relbox(V[x], f[t \ {x}])]
           iter == CHOOSE f : Eqn(f)
<1>1. D = 1 .. Len(V) /\ Len(V) \in Nat
  BY DEF BoxViews
<1>2. bboxOf(lay) = iter[D]
  BY DEF bboxOf, FoldLeft, MapThenFoldSet
<1>3. \A t \in (SUBSET D) \ {{}} : Max(t) \in t
  BY <1>1, GreatestOf
<1>4. pick \in Picks(D)
  BY <1>3 DEF Picks
<1>5. ASSUME NEW f PROVE Eqn(f) <=> PassedOn(f, V, X, pick)
  <2> DEFINE a(t) == IF t = {} THEN X ELSE relbox(V[Max(t)], f[t \ {Max(t)}])
             c(t) == IF t = {} THEN X ELSE relbox(V[pick[t]], f[t \ {pick[t]}])
  <2>1. \A t \in SUBSET D : a(t) = c(t)
    OBVIOUS
  <2>2. Eqn(f) <=> f = [t \in SUBSET D |-> a(t)]
    OBVIOUS
  <2>3. PassedOn(f, V, X, pick) <=> f = [t \in SUBSET D |-> c(t)]
    BY <1>1 DEF PassedOn
  <2> HIDE DEF a, c, Eqn
  <2> QED BY <2>1, <2>2, <2>3
<1> HIDE DEF pick
<1>6. \E f : PassedOn(f, V, X, pick)
  BY <1>1, <1>4, BoxFoldExists
<1>7. Eqn(iter)
  <2> HIDE DEF Eqn
  <2> QED BY <1>5, <1>6
<1>8. PassedOn(iter, V, X, pick)
  <2> HIDE DEF Eqn, iter
  <2> QED BY <1>5, <1>7
<1> HIDE DEF iter, Eqn
<1>9. MovesBox(V, n, 1 .. Len(V), X, iter[1 .. Len(V)])
  BY <1>1, <1>4, <1>8, BoxFold
<1> QED BY <1>1, <1>2, <1>9

-----------------------------------------------------------------------------
(* What a slice stores, and what is cleared of it *)

\* Slices of different dimensions.
SlicedOnce(lay) ==
  /\ BoxViews(lay.views, Len(lay.base.shape))
  /\ \A k \in 1 .. Len(lay.views) - 1 : lay.views[k].start = 0
  /\ \A k \in 1 .. Len(lay.views) : lay.base.bbox[lay.views[k].index].start = 0

LEMMA SimpleOnce ==
  ASSUME LayoutOk(term), SimpleSlices
  PROVE  SlicedOnce(term)
<1> DEFINE V == term.views
           m == Len(V)
           g == [k \in 1 .. m |-> V[k].index]
           T == Viewed(term)
<1>1. /\ Viewable(term) /\ m \in Nat /\ V = [k \in 1 .. m |-> V[k]] /\ DOMAIN V = 1 .. m
      /\ Len(term.base.shape) \in Nat
  BY LayoutViewable DEF Viewable
<1>2. g \in Surjection(1 .. m, T)
  <2>1. T = {V[k].index : k \in 1 .. m}
    BY <1>1 DEF Viewed, Views
  <2>2. g \in [1 .. m -> T] /\ \A d \in T : \E k \in 1 .. m : g[k] = d
    BY <2>1
  <2> HIDE DEF g, T, m
  <2> QED BY <2>2, Fun_IsSurj
<1>3. IsFiniteSet(1 .. m) /\ Cardinality(1 .. m) = m
  <2> HIDE DEF m
  <2>1. IsFiniteSet(1 .. m) /\ Cardinality(1 .. m) = IF 1 > m THEN 0 ELSE m - 1 + 1
    BY <1>1, FS_Interval
  <2> QED BY <1>1, <2>1
<1>4. g \in Injection(1 .. m, T)
  <2>1. Cardinality(T) = m
    BY DEF SimpleSlices
  <2> HIDE DEF g, T, m
  <2> QED BY <1>2, <1>3, <2>1, FS_Surjection
<1>5. \A j, k \in 1 .. m : V[j].index = V[k].index => j = k
  <2>1. \A j, k \in 1 .. m : g[j] = g[k] => j = k
    <3> HIDE DEF g, T
    <3> QED BY <1>4, Fun_InjectionProperties
  <2> QED BY <2>1
<1>6. BoxViews(V, Len(term.base.shape))
  BY <1>1, <1>5 DEF BoxViews, Viewable
<1>7. \A k \in 1 .. m : term.base.bbox[V[k].index].start = 0
  <2>1. \A k \in 1 .. m : V[k] \in Views(term)
    BY <1>1 DEF Views
  <2> QED BY <2>1 DEF SimpleSlices
<1> QED BY <1>6, <1>7 DEF SlicedOnce, SimpleSlices

LEMMA ClippedNumbers ==
  ASSUME NEW v, v.start \in Nat, v.stop \in Nat, NEW r, r.start \in Int, r.stop \in Int,
         NEW e \in Int
  PROVE  e \in Numbers(clipped(v, r))
           <=> r.start + v.start <= e /\ v.start <= e /\ e < r.stop + v.start /\ e < v.stop
<1> DEFINE a == r.start + v.start
           b == r.stop + v.start
           x == v.start
           y == v.stop
<1>1. a \in Int /\ b \in Int /\ x \in Int /\ y \in Int
  OBVIOUS
<1>2. clipped(v, r).start = Max({a, x}) /\ clipped(v, r).stop = Min({b, y})
  BY DEF clipped, Interval
<1> HIDE DEF a, b, x, y
<1>3. /\ Max({a, x}) \in {a, x} /\ a <= Max({a, x}) /\ x <= Max({a, x})
      /\ Min({b, y}) \in {b, y} /\ Min({b, y}) <= b /\ Min({b, y}) <= y
  BY <1>1, PairBounds
<1>4. e \in Max({a, x}) .. Min({b, y}) - 1 <=> a <= e /\ x <= e /\ e < b /\ e < y
  BY <1>1, <1>3
<1> QED BY <1>2, <1>4 DEF Numbers, a, b, x, y

CellOf(n, e) == e = [d \in 1 .. n |-> e[d]]

LEMMA CellsOf ==
  ASSUME NEW n, NEW box, DOMAIN box = 1 .. n, NEW e
  PROVE  e \in Cells(box) <=> CellOf(n, e) /\ \A d \in 1 .. n : e[d] \in Numbers(box[d])
<1>1. e \in Cells(box) => CellOf(n, e) /\ \A d \in 1 .. n : e[d] \in Numbers(box[d])
  BY DEF Cells, CellOf
<1>2. ASSUME CellOf(n, e), \A d \in 1 .. n : e[d] \in Numbers(box[d]) PROVE e \in Cells(box)
  <2> DEFINE T == UNION {Numbers(box[d]) : d \in 1 .. n}
  <2>1. \A d \in 1 .. n : e[d] \in T
    BY <1>2
  <2>2. e \in [1 .. n -> T]
    BY <1>2, <2>1 DEF CellOf
  <2> QED BY <1>2, <2>2 DEF Cells
<1> QED BY <1>1, <1>2

\* The entry lies in the slices.
InViews(V, t, e) == \A k \in t : V[k].start <= e[V[k].index] /\ e[V[k].index] < V[k].stop

\* The views up to the k-th.
Inner(lay, k) == [lay EXCEPT !.views = SubSeq(lay.views, 1, k)]

LEMMA InnerViews ==
  ASSUME NEW V, NEW n, BoxViews(V, n), NEW k \in 0 .. Len(V)
  PROVE  LET U == SubSeq(V, 1, k)
         IN  BoxViews(U, n) /\ Len(U) = k /\ \A j \in 1 .. k : U[j] = V[j]
<1> DEFINE U == SubSeq(V, 1, k)
           S == {V[j] : j \in 1 .. k}
<1>1. \A i \in 1 .. k : V[i] \in S
  OBVIOUS
<1>2. k \in Nat /\ n \in Nat /\ \A j \in 1 .. k : j \in 1 .. Len(V)
  BY DEF BoxViews
<1> HIDE DEF S
<1>3. U \in Seq(S) /\ Len(U) = (IF 1 <= k THEN k - 1 + 1 ELSE 0)
        /\ \A i \in 1 .. k - 1 + 1 : U[i] = V[1 + i - 1]
  BY <1>1, <1>2, SubSeqProperties
<1> HIDE DEF U
<1>4. Len(U) = k /\ \A i \in 1 .. k : U[i] = V[i]
  BY <1>2, <1>3
<1>5. U = [j \in 1 .. Len(U) |-> U[j]]
  BY <1>3
<1>6. BoxViews(U, n)
  BY <1>2, <1>4, <1>5 DEF BoxViews
<1> QED BY <1>4, <1>6 DEF U

LEMMA ClipOnce ==
  ASSUME NEW v, v.start \in Nat, v.stop \in Nat, NEW r, r.start = 0, r.stop \in Int,
         NEW e \in Numbers(r)
  PROVE  e \in Int /\ (e \in Numbers(clipped(v, r)) <=> v.start <= e /\ e < v.stop)
<1>1. e \in Int /\ 0 <= e /\ e < r.stop /\ r.start \in Int
  BY DEF Numbers
<1>2. e \in Numbers(clipped(v, r))
        <=> r.start + v.start <= e /\ v.start <= e /\ e < r.stop + v.start /\ e < v.stop
  BY <1>1, ClippedNumbers
<1> HIDE DEF Numbers
<1> QED BY <1>1, <1>2

LEMMA ClipTwice ==
  ASSUME NEW v, v.start = 0, v.stop \in Nat, NEW r \in [start : Int, stop : Int], r.start = 0,
         NEW e \in Numbers(r)
  PROVE  e \in Numbers(clipped(v, clipped(v, r))) <=> v.start <= e /\ e < v.stop
<1> DEFINE s == clipped(v, r)
<1>1. e \in Int /\ (e \in Numbers(s) <=> v.start <= e /\ e < v.stop)
  BY ClipOnce
<1>2. s.start \in Int /\ s.stop \in Int
  <2>1. s \in [start : Int, stop : Int]
    BY ClippedOk
  <2> HIDE DEF s
  <2> QED BY <2>1
<1> HIDE DEF s
<1>3. e \in Numbers(s) <=> s.start <= e /\ e < s.stop
  BY <1>1, <1>2 DEF Numbers
<1>4. e \in Numbers(clipped(v, s))
        <=> s.start + v.start <= e /\ v.start <= e /\ e < s.stop + v.start /\ e < v.stop
  BY <1>1, <1>2, ClippedNumbers
<1> QED BY <1>1, <1>2, <1>3, <1>4 DEF s

LEMMA BoxInSet ==
  ASSUME NEW n \in Nat, NEW B, IsBox(B, n)
  PROVE  B \in BoxSet(n) /\ DOMAIN B = 1 .. n
<1>1. B = [d \in 1 .. n |-> B[d]] /\ \A d \in 1 .. n : IsRange(B[d])
  BY DEF IsBox
<1>2. \A d \in 1 .. n : B[d] \in [start : Int, stop : Int]
  <2> SUFFICES ASSUME NEW d \in 1 .. n PROVE B[d] \in [start : Int, stop : Int]
    OBVIOUS
  <2>1. B[d] = [start |-> B[d].start, stop |-> B[d].stop] /\ B[d].start \in Int /\ B[d].stop \in Int
    BY <1>1 DEF IsRange, Interval
  <2> QED BY <2>1
<1> QED BY <1>1, <1>2 DEF BoxSet

\* What is left of the storage inside of the first k views.
InsideOf(lay, k) == relboxes(SubSeq(lay.views, 1, k - 1), bboxOf(Inner(lay, k)))

LEMMA InsideCells ==
  ASSUME NEW lay, LayoutOk(lay), SlicedOnce(lay), NEW k \in 1 .. Len(lay.views),
         NEW e \in Cells(lay.base.bbox)
  PROVE  e \in Cells(InsideOf(lay, k)) <=> InViews(lay.views, 1 .. k, e)
<1> DEFINE n == Len(lay.base.shape)
           B == lay.base.bbox
           V == lay.views
           W == SubSeq(V, 1, k)
           U == SubSeq(V, 1, k - 1)
           Z == bboxOf(Inner(lay, k))
           Y == InsideOf(lay, k)
<1>1. n \in Nat /\ BoxViews(V, n) /\ k \in Nat /\ k <= Len(V) /\ Len(V) \in Nat
  BY DEF SlicedOnce, BoxViews
<1>2. B \in BoxSet(n) /\ DOMAIN B = 1 .. n
  <2>1. IsBox(B, n)
    BY BoxOk DEF LayoutOk
  <2> QED BY <1>1, <2>1, BoxInSet
<1>3. BoxViews(W, n) /\ Len(W) = k /\ \A j \in 1 .. k : W[j] = V[j]
  <2>1. k \in 0 .. Len(V)
    BY <1>1
  <2> QED BY <1>1, <2>1, InnerViews
<1>4. BoxViews(U, n) /\ Len(U) = k - 1 /\ \A j \in 1 .. k - 1 : U[j] = V[j]
  <2>1. k - 1 \in 0 .. Len(V)
    BY <1>1
  <2> QED BY <1>1, <2>1, InnerViews
<1>5. Inner(lay, k).views = W /\ Inner(lay, k).base = lay.base
  <2>1. lay = [base |-> lay.base, views |-> lay.views]
    BY DEF LayoutOk
  <2> HIDE DEF W
  <2> QED BY <2>1 DEF Inner, W
<1>6. MovesBox(W, n, 1 .. k, B, Z)
  <2> DEFINE I == Inner(lay, k)
  <2>1. BoxViews(I.views, n) /\ I.base.bbox \in BoxSet(n)
    BY <1>2, <1>3, <1>5
  <2> HIDE DEF I
  <2>2. MovesBox(I.views, n, 1 .. Len(I.views), I.base.bbox, bboxOf(I))
    BY <2>1, BboxOfOk
  <2> QED BY <1>3, <1>5, <2>2 DEF I
<1>7. Z \in BoxSet(n)
  BY <1>6 DEF MovesBox
<1>8. MovesBox(U, n, 1 .. k - 1, Z, Y)
  <2> HIDE DEF U, Z
  <2>1. MovesBox(U, n, 1 .. Len(U), Z, relboxes(U, Z))
    BY <1>4, <1>7, RelboxesOk
  <2> QED BY <1>4, <2>1 DEF InsideOf, U, Z
<1>9. CellOf(n, e) /\ \A d \in 1 .. n : e[d] \in Numbers(B[d])
  BY <1>2, CellsOf
<1> HIDE DEF B, W, U, Z, Y, n
<1>10. \A j \in 1 .. k : /\ V[j].index \in 1 .. n /\ V[j].start \in Nat /\ V[j].stop \in Nat
                         /\ B[V[j].index].start = 0 /\ B[V[j].index] \in [start : Int, stop : Int]
                         /\ (j < k => V[j].start = 0)
  <2> SUFFICES ASSUME NEW j \in 1 .. k
               PROVE  /\ V[j].index \in 1 .. n /\ V[j].start \in Nat /\ V[j].stop \in Nat
                      /\ B[V[j].index].start = 0 /\ B[V[j].index] \in [start : Int, stop : Int]
                      /\ (j < k => V[j].start = 0)
    OBVIOUS
  <2>1. j \in 1 .. Len(V) /\ (j < k => j \in 1 .. Len(V) - 1)
    BY <1>1
  <2>2. V[j].index \in 1 .. n /\ V[j].start \in Nat /\ V[j].stop \in Nat
    BY <1>1, <2>1 DEF BoxViews
  <2>3. B[V[j].index].start = 0 /\ (j < k => V[j].start = 0)
    BY <2>1 DEF SlicedOnce, B
  <2> QED BY <1>2, <2>2, <2>3 DEF BoxSet
<1>11. ASSUME NEW j \in 1 .. k - 1
       PROVE  e[V[j].index] \in Numbers(Y[V[j].index])
                <=> V[j].start <= e[V[j].index] /\ e[V[j].index] < V[j].stop
  <2> DEFINE v == V[j]
             d == v.index
             r == B[d]
  <2>1. j \in 1 .. k /\ j < k
    BY <1>1
  <2>2. Z[d] = clipped(v, r) /\ Y[d] = clipped(v, Z[d])
    BY <1>3, <1>4, <1>6, <1>8, <2>1 DEF MovesBox
  <2>3. v.start = 0 /\ v.stop \in Nat /\ r \in [start : Int, stop : Int] /\ r.start = 0 /\ d \in 1 .. n
    BY <1>10, <2>1
  <2>4. e[d] \in Numbers(r)
    BY <1>9, <2>3
  <2> HIDE DEF d, v, r
  <2>5. e[d] \in Numbers(clipped(v, clipped(v, r))) <=> v.start <= e[d] /\ e[d] < v.stop
    BY <2>3, <2>4, ClipTwice
  <2>6. Y[d] = clipped(v, clipped(v, r))
    BY <2>2
  <2>7. e[d] \in Numbers(Y[d]) <=> v.start <= e[d] /\ e[d] < v.stop
    BY <2>5, <2>6
  <2> QED BY <2>7 DEF d, v
<1>12. e[V[k].index] \in Numbers(Y[V[k].index])
         <=> V[k].start <= e[V[k].index] /\ e[V[k].index] < V[k].stop
  <2> DEFINE v == V[k]
             d == v.index
             r == B[d]
  <2>1. k \in 1 .. k
    BY <1>1
  <2>2. Z[d] = clipped(v, r)
    BY <1>3, <1>6, <2>1 DEF MovesBox
  <2>3. \A j \in 1 .. k - 1 : U[j].index # d
    <3>1. \A j \in 1 .. k - 1 : U[j] = V[j] /\ j \in 1 .. Len(V) /\ j # k
      BY <1>1, <1>4
    <3>2. k \in 1 .. Len(V)
      OBVIOUS
    <3> QED BY <1>1, <3>1, <3>2 DEF BoxViews
  <2>4. Y[d] = Z[d]
    BY <1>8, <1>10, <2>1, <2>3 DEF MovesBox
  <2>5. v.start \in Nat /\ v.stop \in Nat /\ r.stop \in Int /\ r.start = 0 /\ d \in 1 .. n
    BY <1>10, <2>1
  <2>6. e[d] \in Numbers(r)
    BY <1>9, <2>5
  <2> HIDE DEF d, v, r
  <2>7. e[d] \in Numbers(clipped(v, r)) <=> v.start <= e[d] /\ e[d] < v.stop
    BY <2>5, <2>6, ClipOnce
  <2>8. e[d] \in Numbers(Y[d]) <=> v.start <= e[d] /\ e[d] < v.stop
    BY <2>2, <2>4, <2>7
  <2> QED BY <2>8 DEF d, v
<1>13. \A j \in 1 .. k : e[V[j].index] \in Numbers(Y[V[j].index])
                            <=> V[j].start <= e[V[j].index] /\ e[V[j].index] < V[j].stop
  <2>1. \A j \in 1 .. k : j = k \/ j \in 1 .. k - 1
    BY <1>1
  <2> QED BY <1>11, <1>12, <2>1
<1>14. ASSUME NEW d \in 1 .. n, \A j \in 1 .. k : V[j].index # d PROVE Y[d] = B[d]
  <2>1. Z[d] = B[d]
    <3>1. \A j \in 1 .. k : W[j].index # d
      BY <1>3, <1>14
    <3> QED BY <1>6, <3>1 DEF MovesBox
  <2>2. Y[d] = Z[d]
    <3>1. \A j \in 1 .. k - 1 : U[j].index # d
      BY <1>1, <1>4, <1>14
    <3> QED BY <1>8, <3>1 DEF MovesBox
  <2> QED BY <2>1, <2>2
<1>15. DOMAIN Y = 1 .. n
  BY <1>8 DEF MovesBox, BoxSet
<1>16. e \in Cells(Y) <=> \A d \in 1 .. n : e[d] \in Numbers(Y[d])
  BY <1>9, <1>15, CellsOf
<1>17. (\A d \in 1 .. n : e[d] \in Numbers(Y[d])) <=> \A j \in 1 .. k : e[V[j].index] \in Numbers(Y[V[j].index])
  <2>1. ASSUME \A j \in 1 .. k : e[V[j].index] \in Numbers(Y[V[j].index]), NEW d \in 1 .. n
        PROVE  e[d] \in Numbers(Y[d])
    <3>1. CASE \E j \in 1 .. k : V[j].index = d
      BY <2>1, <3>1
    <3>2. CASE \A j \in 1 .. k : V[j].index # d
      BY <1>9, <1>14, <3>2
    <3> QED BY <3>1, <3>2
  <2> QED BY <1>10, <2>1
<1>18. e \in Cells(Y) <=> InViews(V, 1 .. k, e)
  BY <1>13, <1>16, <1>17 DEF InViews
<1> QED BY <1>18 DEF Y

\* The view of a dimension that is sliced once.
LEMMA OnceShift ==
  ASSUME NEW lay, LayoutOk(lay), SlicedOnce(lay), NEW k \in 1 .. Len(lay.views)
  PROVE  /\ Shift(lay, lay.views[k].index) = lay.views[k].start
         /\ shapeOf(lay)[lay.views[k].index] = lay.views[k].stop - lay.views[k].start
         /\ lay.views[k].index \in Viewed(lay)
<1> DEFINE V == lay.views
           d == V[k].index
           m == Len(V)
           s == shifts(lay, d)
           rest == (1 .. m) \ {k}
<1>1. /\ Viewable(lay) /\ m \in Nat /\ DOMAIN V = 1 .. m /\ BoxViews(V, Len(lay.base.shape))
  BY LayoutViewable DEF LayoutOk, SlicedOnce
<1>2. /\ d \in 1 .. Len(lay.base.shape) /\ V[k].start \in Nat
  BY <1>1 DEF BoxViews
<1>3. d \in Viewed(lay)
  BY <1>1 DEF Viewed, Views
<1>4. Shift(lay, d) = SumFunction(s) /\ Naturals(1 .. m, s) /\ DOMAIN s = 1 .. m
  BY <1>1, ShiftOk DEF shifts
<1>5. IsFiniteSet(1 .. m) /\ IsFiniteSet(rest)
  <2>1. IsFiniteSet(1 .. m)
    BY <1>1, FS_Interval
  <2>2. rest \subseteq 1 .. m
    OBVIOUS
  <2> HIDE DEF rest
  <2> QED BY <2>1, <2>2, FS_Subset
<1>6. SumFunction(s) = s[k] + SumFunction(Part(s, rest))
  BY <1>4, <1>5, SumStep
<1>7. Naturals(rest, s) /\ \A x \in rest : s[x] = 0
  BY <1>1, <1>4 DEF shifts, BoxViews, Naturals
<1>8. SumFunction(Part(s, rest)) = 0
  <2> HIDE DEF rest, s
  <2> QED BY <1>5, <1>7, ZeroSum
<1>9. s[k] = V[k].start
  BY DEF shifts
<1>10. Shift(lay, d) = V[k].start
  <2> HIDE DEF s, rest, d, V
  <2> QED BY <1>2, <1>4, <1>6, <1>8, <1>9
<1>11. PICK v \in Views(lay) : v.index = d /\ shapeOf(lay)[d] = v.stop - v.start
  BY <1>1, <1>2, <1>3, ViewedSize
<1>12. v = V[k]
  BY <1>1, <1>11 DEF Views, BoxViews
<1> QED BY <1>3, <1>10, <1>11, <1>12

\* Entries of a dense term are what the storage holds within all slices.
LEMMA StoredWithin ==
  ASSUME LayoutOk(term), ~ term.base.csc, SlicedOnce(term), NEW e \in StoredEntries
  PROVE  /\ relidx(term, e) \in Cells(term.base.bbox)
         /\ InViews(term.views, 1 .. Len(term.views), relidx(term, e))
<1> DEFINE V == term.views
           n == Len(term.base.shape)
           B == term.base.bbox
           h == relidx(term, e)
<1>1. /\ Dims = 1 .. n /\ Viewable(term) /\ IsBox(B, n) /\ n \in Nat
  BY LayoutViewable, DimsOk, BoxOk DEF LayoutOk, Viewable
<1>2. e \in Cells([d \in Dims |-> Held(term, d)])
  BY DEF StoredEntries
<1>3. CellOf(n, e) /\ \A d \in 1 .. n : e[d] \in Numbers(Held(term, d))
  BY <1>1, <1>2, CellsOf
<1>4. h = [d \in 1 .. n |-> e[d] + Shift(term, d)]
  BY <1>3 DEF relidx, CellOf
<1>5. \A d \in 1 .. n : h[d] \in Numbers(B[d])
  BY <1>1, <1>3, <1>4, HeldInBox
<1>6. h \in Cells(B)
  <2>1. DOMAIN B = 1 .. n /\ CellOf(n, h)
    BY <1>1, <1>4 DEF IsBox, CellOf
  <2> QED BY <2>1, <1>5, CellsOf
<1>7. ASSUME NEW k \in 1 .. Len(V)
      PROVE  V[k].start <= h[V[k].index] /\ h[V[k].index] < V[k].stop
  <2> DEFINE d == V[k].index
             hd == Held(term, d)
             r == B[d]
             z == Shift(term, d)
  <2>1. /\ z = V[k].start /\ shapeOf(term)[d] = V[k].stop - V[k].start /\ d \in Viewed(term)
    BY OnceShift
  <2>2. d \in 1 .. n /\ V[k].start \in Nat /\ V[k].stop \in Nat
    BY DEF SlicedOnce, BoxViews
  <2>3. hd = Interval(Max({r.start - z, 0}), Min({r.stop - z, shapeOf(term)[d]}))
    BY <2>1 DEF Held
  <2>4. r.start \in Nat /\ r.stop \in Nat
    BY <1>1, <2>2 DEF IsBox, IsRange
  <2> DEFINE a == r.start - z
             b == r.stop - z
             c == shapeOf(term)[d]
             zero == 0
  <2>5. a \in Int /\ b \in Int /\ c \in Int /\ z \in Nat /\ zero \in Int
    <3>1. z \in Nat /\ c \in Int
      <4> HIDE DEF z, c
      <4> QED BY <2>1, <2>2 DEF z, c
    <3> HIDE DEF z, c, r
    <3> QED BY <2>4, <3>1
  <2>6. zero <= Max({a, zero}) /\ Min({b, c}) <= c /\ Max({a, zero}) \in Int /\ Min({b, c}) \in Int
    <3> HIDE DEF a, b, c, zero
    <3>1. zero <= Max({a, zero}) /\ Max({a, zero}) \in {a, zero}
      BY <2>5, PairBounds
    <3>2. Min({b, c}) <= c /\ Min({b, c}) \in {b, c}
      BY <2>5, PairBounds
    <3> QED BY <2>5, <3>1, <3>2
  <2>7. hd.start = Max({a, zero}) /\ hd.stop = Min({b, c})
    BY <2>3 DEF Interval
  <2>8. e[d] \in hd.start .. hd.stop - 1
    BY <1>3, <2>2 DEF Numbers
  <2>9. e[d] \in Int /\ 0 <= e[d] /\ e[d] < c
    <3>1. 0 <= hd.start /\ hd.stop <= c /\ hd.start \in Int /\ hd.stop \in Int
      <4> HIDE DEF a, b, c, hd
      <4> QED BY <2>6, <2>7
    <3> HIDE DEF hd, c
    <3> QED BY <2>5, <2>8, <3>1
  <2>10. h[d] = e[d] + z
    BY <1>4, <2>2
  <2> QED BY <2>1, <2>2, <2>9, <2>10
<1> QED BY <1>6, <1>7 DEF InViews

LEMMA WithinStored ==
  ASSUME LayoutOk(term), ~ term.base.csc, SlicedOnce(term), NEW h \in Cells(term.base.bbox),
         InViews(term.views, 1 .. Len(term.views), h)
  PROVE  \E e \in StoredEntries : relidx(term, e) = h
<1> DEFINE V == term.views
           n == Len(term.base.shape)
           B == term.base.bbox
           e == [d \in 1 .. n |-> h[d] - Shift(term, d)]
<1>1. /\ Dims = 1 .. n /\ Viewable(term) /\ IsBox(B, n) /\ n \in Nat /\ DOMAIN B = 1 .. n
  BY LayoutViewable, DimsOk, BoxOk DEF LayoutOk, Viewable, IsBox
<1>2. CellOf(n, h) /\ \A d \in 1 .. n : h[d] \in Numbers(B[d])
  BY <1>1, CellsOf
<1>3. \A d \in 1 .. n : /\ B[d].start \in Nat /\ B[d].stop \in Nat /\ h[d] \in Nat
                       /\ B[d].start <= h[d] /\ h[d] < B[d].stop /\ Shift(term, d) \in Nat
  <2> TAKE d \in 1 .. n
  <2>1. B[d].start \in Nat /\ B[d].stop \in Nat
    BY <1>1 DEF IsBox, IsRange
  <2>2. Shift(term, d) \in Nat
    BY <1>1, ShiftOk
  <2>3. h[d] \in B[d].start .. B[d].stop - 1
    BY <1>2 DEF Numbers
  <2> QED BY <2>1, <2>2, <2>3
<1>4. relidx(term, e) = h
  <2>1. relidx(term, e) = [d \in 1 .. n |-> (h[d] - Shift(term, d)) + Shift(term, d)]
    BY DEF relidx
  <2>2. \A d \in 1 .. n : (h[d] - Shift(term, d)) + Shift(term, d) = h[d]
    BY <1>3
  <2>3. h = [d \in 1 .. n |-> h[d]]
    BY <1>2 DEF CellOf
  <2> QED BY <2>1, <2>2, <2>3
<1>5. ASSUME NEW d \in 1 .. n
      PROVE  e[d] \in Numbers(Held(term, d))
  <2>1. CASE d \notin Viewed(term)
    <3>1. Held(term, d) = B[d] /\ Shift(term, d) = 0
      BY <2>1, <1>1, ShiftOk DEF Held
    <3>2. e[d] = h[d]
      BY <1>3, <3>1
    <3> QED BY <3>1, <3>2, <1>2
  <2>2. CASE d \in Viewed(term)
    <3>1. PICK k \in DOMAIN V : V[k].index = d
      BY <2>2 DEF Viewed, Views
    <3>2. k \in 1 .. Len(V)
      BY <3>1 DEF LayoutOk
    <3> DEFINE z == Shift(term, d)
               c == shapeOf(term)[d]
               a == B[d].start - z
               b == B[d].stop - z
               zero == 0
               x == h[d]
               hd == Held(term, d)
    <3>3. z = V[k].start /\ c = V[k].stop - V[k].start
      BY <3>1, <3>2, OnceShift
    <3>4. V[k].start \in Nat /\ V[k].stop \in Nat
      BY <3>2 DEF SlicedOnce, BoxViews
    <3>5. V[k].start <= x /\ x < V[k].stop
      BY <3>1, <3>2 DEF InViews
    <3>6. a \in Int /\ b \in Int /\ c \in Int /\ z \in Nat /\ zero \in Int /\ x \in Nat
      <4>1. B[d].start \in Nat /\ B[d].stop \in Nat /\ x \in Nat
        BY <1>3
      <4>2. z \in Nat /\ c \in Int
        <5> HIDE DEF z, c
        <5> QED BY <3>3, <3>4
      <4> HIDE DEF z, c, x
      <4> QED BY <4>1, <4>2
    <3>7. Max({a, zero}) \in {a, zero} /\ Min({b, c}) \in {b, c}
      <4> HIDE DEF a, b, c, zero
      <4> QED BY <3>6, PairBounds
    <3>8. a <= x - z /\ zero <= x - z /\ x - z < b /\ x - z < c
      BY <1>3, <3>3, <3>4, <3>5
    <3>9. hd.start = Max({a, zero}) /\ hd.stop = Min({b, c})
      BY <2>2 DEF Held, Interval
    <3>10. x - z \in hd.start .. hd.stop - 1
      <4> HIDE DEF a, b, c, zero, hd, x, z
      <4> QED BY <3>6, <3>7, <3>8, <3>9
    <3> QED BY <3>10 DEF Numbers
  <2> QED BY <2>1, <2>2
<1>6. e \in Cells([d \in Dims |-> Held(term, d)])
  <2>1. CellOf(n, e)
    BY DEF CellOf
  <2>2. e \in Cells([d \in 1 .. n |-> Held(term, d)])
    <3> HIDE DEF e
    <3> QED BY <1>5, <2>1, CellsOf
  <2> QED BY <1>1, <2>2
<1> QED BY <1>4, <1>6 DEF StoredEntries

\* The storage around the slices.
LEMMA AroundSlices ==
  ASSUME LayoutOk(term), ~ term.base.csc, SlicedOnce(term), NEW X, NEW a
  PROVE  a \in notWritten(term, X)
           <=> /\ a \in notWrittenBase(term.base, relboxes(term.views, X))
               /\ ~ \E h \in Cells(term.base.bbox) :
                      /\ a = DenseAddress(term.base, h)
                      /\ ~ InViews(term.views, 1 .. Len(term.views), h)
<1> DEFINE V == term.views
           m == Len(V)
           B == term.base.bbox
           outside(k) == notWrittenBase(term.base, InsideOf(term, k))
           Out(h) == ~ InViews(V, 1 .. m, h)
<1>1. m \in Nat /\ DOMAIN V = 1 .. m
  BY DEF LayoutOk
<1>2. notWritten(term, X)
        = notWrittenBase(term.base, relboxes(V, X)) \ UNION {outside(k) : k \in 1 .. m}
  <2>1. notWritten(term, X)
          = notWrittenBase(term.base, relboxes(V, X)) \ UNION {outside(k) : k \in DOMAIN V}
    BY DEF notWritten, InsideOf, Inner
  <2> QED BY <1>1, <2>1
<1>3. ASSUME NEW k \in 1 .. m, a \in outside(k)
      PROVE  \E h \in Cells(B) : a = DenseAddress(term.base, h) /\ Out(h)
  <2>1. PICK h \in Cells(B) : h \notin Cells(InsideOf(term, k)) /\ a = DenseAddress(term.base, h)
    BY <1>3 DEF notWrittenBase
  <2>2. ~ InViews(V, 1 .. k, h)
    BY <2>1, InsideCells
  <2>3. \A j \in 1 .. k : j \in 1 .. m
    BY <1>1
  <2>4. Out(h)
    BY <2>2, <2>3 DEF InViews
  <2> QED BY <2>1, <2>4
<1>4. ASSUME NEW h \in Cells(B), a = DenseAddress(term.base, h), Out(h)
      PROVE  \E k \in 1 .. m : a \in outside(k)
  <2>1. m \in 1 .. m
    BY <1>1, <1>4 DEF InViews
  <2>2. h \notin Cells(InsideOf(term, m))
    BY <1>4, <2>1, InsideCells
  <2>3. a \in outside(m)
    BY <1>4, <2>2 DEF notWrittenBase
  <2> HIDE DEF outside
  <2> QED BY <2>1, <2>3
<1> HIDE DEF outside, Out
<1> QED BY <1>2, <1>3, <1>4 DEF Out

\* The box that is written, seen from an entry and from the storage.
LEMMA WrittenBox ==
  ASSUME LayoutOk(term), ~ term.base.csc, SlicedOnce(term), NEW X \in BoxSet(Len(term.base.shape)),
         NEW e \in StoredEntries
  PROVE  relidx(term, e) \in Cells(relboxes(term.views, X))
           <=> \A d \in 1 .. Len(term.base.shape) : e[d] \in Numbers(X[d])
<1> DEFINE V == term.views
           m == Len(V)
           n == Len(term.base.shape)
           h == relidx(term, e)
           Y == relboxes(V, X)
<1>1. BoxViews(V, n) /\ Viewable(term) /\ DOMAIN V = 1 .. m
  BY LayoutViewable DEF SlicedOnce, LayoutOk
<1>2. MovesBox(V, n, 1 .. m, X, Y)
  BY <1>1, RelboxesOk
<1>3. DOMAIN Y = 1 .. n
  BY <1>2 DEF MovesBox, BoxSet
<1>4. /\ CellOf(n, h)
      /\ \A d \in 1 .. n : e[d] \in Int /\ h[d] = e[d] + Shift(term, d) /\ Shift(term, d) \in Nat
  <2>1. h = [d \in DOMAIN h |-> h[d]]
    BY DEF relidx
  <2> QED BY <1>1, <2>1, StoredEntry, ShiftOk DEF CellOf
<1>5. InViews(V, 1 .. m, h)
  BY StoredWithin
<1>6. ASSUME NEW d \in 1 .. n
      PROVE  h[d] \in Numbers(Y[d]) <=> e[d] \in Numbers(X[d])
  <2>1. X[d].start \in Int /\ X[d].stop \in Int
    BY DEF BoxSet
  <2>2. CASE \E k \in 1 .. m : V[k].index = d
    <3>1. PICK k \in 1 .. m : V[k].index = d
      BY <2>2
    <3>2. Shift(term, d) = V[k].start
      BY <3>1, OnceShift
    <3>3. V[k].start \in Nat /\ V[k].stop \in Nat
      BY <1>1, <3>1 DEF BoxViews
    <3>4. V[k].start <= h[d] /\ h[d] < V[k].stop
      BY <1>5, <3>1 DEF InViews
    <3>5. Y[d] = clipped(V[k], X[d])
      BY <1>2, <3>1 DEF MovesBox
    <3>6. e[d] \in Int /\ h[d] = e[d] + V[k].start
      BY <1>4, <3>2
    <3> DEFINE x == X[d]
               y == Y[d]
               i == h[d]
               v == V[k]
    <3>7. i \in Int
      BY <3>3, <3>6
    <3> HIDE DEF x, y, i, v, h, Y, V
    <3>8. i \in Numbers(clipped(v, x))
            <=> x.start + v.start <= i /\ v.start <= i /\ i < x.stop + v.start /\ i < v.stop
      BY <2>1, <3>3, <3>7, ClippedNumbers DEF v, x
    <3>9. i \in Numbers(y) <=> x.start + v.start <= i /\ i < x.stop + v.start
      BY <3>4, <3>5, <3>8 DEF i, v, x, y
    <3>10. e[d] \in Numbers(x) <=> x.start + v.start <= i /\ i < x.stop + v.start
      <4>1. e[d] \in Numbers(x) <=> x.start <= e[d] /\ e[d] < x.stop
        BY <2>1, <3>6 DEF Numbers, x
      <4>2. x.start \in Int /\ x.stop \in Int /\ v.start \in Int /\ e[d] \in Int /\ i = e[d] + v.start
        BY <2>1, <3>3, <3>6 DEF x, v, i
      <4> QED BY <4>1, <4>2
    <3> QED BY <3>9, <3>10 DEF i, x, y
  <2>3. CASE \A k \in 1 .. m : V[k].index # d
    <3>1. Y[d] = X[d]
      BY <1>2, <2>3 DEF MovesBox
    <3>2. d \notin Viewed(term)
      BY <1>1, <2>3 DEF Viewed, Views
    <3>3. h[d] = e[d]
      <4>1. Shift(term, d) = 0
        BY <1>1, <3>2, ShiftOk
      <4> QED BY <1>4, <4>1
    <3> QED BY <3>1, <3>3
  <2> QED BY <2>2, <2>3
<1>7. h \in Cells(Y) <=> \A d \in 1 .. n : h[d] \in Numbers(Y[d])
  <2> HIDE DEF h, Y
  <2> QED BY <1>3, <1>4, CellsOf
<1> HIDE DEF h, Y
<1> QED BY <1>6, <1>7 DEF h, Y

\* What is cleared are the entries outside of the box that is written.
LEMMA ClearedEntries ==
  ASSUME LayoutOk(term), ~ term.base.csc, SlicedOnce(term), NEW X \in BoxSet(Len(term.base.shape)),
         NEW a
  PROVE  a \in notWritten(term, X)
           <=> \E e \in StoredEntries : /\ a = address(term, e)
                                      /\ \E d \in 1 .. Len(term.base.shape) : e[d] \notin Numbers(X[d])
<1> DEFINE V == term.views
           m == Len(V)
           n == Len(term.base.shape)
           b == term.base
           Y == relboxes(V, X)
           Out(h) == ~ InViews(V, 1 .. m, h)
<1>1. DenseBase(b) /\ IsBox(b.bbox, n) /\ DOMAIN b.bbox = 1 .. n
  BY BaseOk, BoxOk DEF LayoutOk, IsBox
<1>2. ASSUME NEW h \in Cells(b.bbox) PROVE InBox(b, h) /\ CellOf(n, h)
  BY <1>1, CellsOf DEF InBox
<1>3. ASSUME NEW e \in StoredEntries PROVE address(term, e) = DenseAddress(b, relidx(term, e))
  BY DEF address
<1>4. ASSUME NEW e \in StoredEntries, a = address(term, e),
             \E d \in 1 .. n : e[d] \notin Numbers(X[d])
      PROVE  a \in notWritten(term, X)
  <2> DEFINE h == relidx(term, e)
  <2>1. h \in Cells(b.bbox) /\ ~ Out(h)
    BY StoredWithin
  <2>2. h \notin Cells(Y)
    BY <1>4, WrittenBox
  <2>3. a = DenseAddress(b, h)
    BY <1>3, <1>4
  <2>4. a \in notWrittenBase(b, Y)
    BY <2>1, <2>2, <2>3 DEF notWrittenBase
  <2>5. ASSUME NEW g \in Cells(b.bbox), a = DenseAddress(b, g) PROVE ~ Out(g)
    <3>1. InBox(b, g) /\ InBox(b, h) /\ CellOf(n, g) /\ CellOf(n, h)
      BY <1>2, <2>1
    <3>2. \A d \in 1 .. n : g[d] = h[d]
      <4>1. DenseAddress(b, g) = DenseAddress(b, h)
        BY <2>3, <2>5
      <4> HIDE DEF h, b
      <4>2. DenseAddress(b, g) = DenseAddress(b, h) => \A d \in 1 .. Len(b.shape) : g[d] = h[d]
        BY <1>1, <3>1, DenseApart
      <4> QED BY <4>1, <4>2 DEF b
    <3> HIDE DEF h
    <3>3. g = h
      BY <3>1, <3>2 DEF CellOf
    <3> QED BY <2>1, <3>3
  <2> HIDE DEF h
  <2> QED BY <2>4, <2>5, AroundSlices
<1>5. ASSUME a \in notWritten(term, X)
      PROVE  \E e \in StoredEntries : a = address(term, e) /\ \E d \in 1 .. n : e[d] \notin Numbers(X[d])
  <2>1. a \in notWrittenBase(b, Y) /\ ~ \E h \in Cells(b.bbox) : a = DenseAddress(b, h) /\ Out(h)
    BY <1>5, AroundSlices
  <2>2. PICK h \in Cells(b.bbox) : h \notin Cells(Y) /\ a = DenseAddress(b, h)
    BY <2>1 DEF notWrittenBase
  <2>3. ~ Out(h)
    BY <2>1, <2>2
  <2>4. PICK e \in StoredEntries : relidx(term, e) = h
    BY <2>3, WithinStored
  <2>5. \E d \in 1 .. n : e[d] \notin Numbers(X[d])
    BY <2>2, <2>4, WrittenBox
  <2>6. a = address(term, e)
    BY <1>3, <2>2, <2>4
  <2> QED BY <2>5, <2>6
<1> QED BY <1>4, <1>5

-----------------------------------------------------------------------------
(* What the matrix holds of a group *)

ViewsOf(views) == {views[k] : k \in DOMAIN views}

LEMMA AppendMembers ==
  ASSUME NEW T, NEW views \in Seq(T), NEW w \in T
  PROVE  ViewsOf(Append(views, w)) = ViewsOf(views) \cup {w}
<1> DEFINE u == Append(views, w)
           m == Len(views)
<1>1. /\ m \in Nat /\ DOMAIN views = 1 .. m /\ DOMAIN u = 1 .. m + 1
      /\ u[m + 1] = w /\ \A k \in 1 .. m : u[k] = views[k]
  OBVIOUS
<1> HIDE DEF u, m
<1>2. \A k \in 1 .. m + 1 : k \in 1 .. m \/ k = m + 1
  BY <1>1
<1>3. m + 1 \in 1 .. m + 1 /\ \A k \in 1 .. m : k \in 1 .. m + 1
  BY <1>1
<1>4. ASSUME NEW x PROVE x \in ViewsOf(u) <=> x \in ViewsOf(views) \cup {w}
  BY <1>1, <1>2, <1>3 DEF ViewsOf
<1> QED BY <1>4 DEF u

\* The views of an unfolded layout are those of the fused dimensions.
LEMMA UnfoldMembers ==
  ASSUME LayoutOk(term), NEW I, NEW J, IsScaled(I, J)
  PROVE  \A w : w \in ViewsOf(unfold(term, I, J).views)
                 <=> \E k \in 1 .. Len(term.views) : /\ term.views[k].index \in I \cup J
                                                  /\ w = unfoldView(term.base, I, J, term.views[k])
<1> DEFINE V == term.views
           m == Len(V)
           T == Seq(Moves)
           w(k) == unfoldView(term.base, I, J, V[k])
           In(k) == {w(i) : i \in {j \in 1 .. k : V[j].index \in I \cup J}}
           step == [q \in (1 .. m) \X T |-> Taken(I, J, q[1], q[2])]
<1>1. PICK h : Solves(h, m, T, <<>>, step) /\ h[m] = unfold(term, I, J).views
  BY UnfoldFolds
<1>2. m \in Nat
  BY DEF LayoutOk
<1>3. h[0] = <<>> /\ \A k \in 0 .. m : h[k] \in T
  BY <1>1 DEF Solves
<1>4. \A k \in 1 .. m : k - 1 \in 0 .. m /\ h[k] = Taken(I, J, k, h[k - 1])
  <2> SUFFICES ASSUME NEW k \in 1 .. m PROVE k - 1 \in 0 .. m /\ h[k] = Taken(I, J, k, h[k - 1])
    OBVIOUS
  <2>1. k - 1 \in 0 .. m
    OBVIOUS
  <2>2. h[k - 1] \in T /\ h[k] = step[<<k, h[k - 1]>>]
    BY <1>1, <2>1 DEF Solves
  <2> HIDE DEF T
  <2> QED BY <2>1, <2>2
<1>5. \A k \in 1 .. m : V[k].index \in I \cup J => w(k) \in Moves
  BY DEF IsScaled
<1> DEFINE P == {k \in Nat : k <= m => ViewsOf(h[k]) = In(k)}
<1>6. 0 \in P
  <2>1. DOMAIN <<>> = {} /\ 1 .. 0 = {}
    OBVIOUS
  <2>2. ViewsOf(<<>>) = {} /\ In(0) = {}
    BY <2>1 DEF ViewsOf
  <2> HIDE DEF In
  <2> QED BY <1>3, <2>2
<1>7. ASSUME NEW k \in Nat, k \in P PROVE k + 1 \in P
  <2> SUFFICES ASSUME k + 1 <= m PROVE ViewsOf(h[k + 1]) = In(k + 1)
    OBVIOUS
  <2> DEFINE l == k + 1
  <2>1. l \in 1 .. m /\ l - 1 = k /\ k \in 0 .. m /\ k <= m
    BY <1>2
  <2>2. h[l] = Taken(I, J, l, h[k]) /\ h[k] \in T
    BY <1>3, <1>4, <2>1
  <2>3. ViewsOf(h[k]) = In(k)
    BY <1>7, <2>1
  <2>4. \A j : j \in 1 .. l <=> j \in 1 .. k \/ j = l
    OBVIOUS
  <2> HIDE DEF l, T
  <2>5. CASE V[l].index \in I \cup J
    <3>1. h[l] = Append(h[k], w(l)) /\ w(l) \in Moves
      BY <1>5, <2>1, <2>2, <2>5 DEF Taken
    <3>2. ViewsOf(h[l]) = ViewsOf(h[k]) \cup {w(l)}
      <4> HIDE DEF w
      <4> QED BY <2>2, <3>1, AppendMembers DEF T
    <3>3. In(l) = In(k) \cup {w(l)}
      <4> HIDE DEF w
      <4> QED BY <2>4, <2>5
    <3> HIDE DEF In, w
    <3> QED BY <2>3, <3>2, <3>3 DEF l
  <2>6. CASE V[l].index \notin I \cup J
    <3>1. h[l] = h[k]
      BY <2>2, <2>6 DEF Taken
    <3>2. In(l) = In(k)
      <4> HIDE DEF w
      <4> QED BY <2>4, <2>6
    <3> HIDE DEF In
    <3> QED BY <2>3, <3>1, <3>2 DEF l
  <2> QED BY <2>5, <2>6
<1> HIDE DEF P
<1>8. m \in P
  BY <1>6, <1>7, <1>2, NatSetInduction
<1> HIDE DEF In
<1>9. ViewsOf(h[m]) = In(m)
  BY <1>2, <1>8 DEF P
<1> HIDE DEF w
<1>10. \A x : x \in In(m) <=> \E k \in 1 .. m : V[k].index \in I \cup J /\ x = w(k)
  BY DEF In
<1> HIDE DEF V, m
<1>11. \A x : x \in ViewsOf(unfold(term, I, J).views)
                <=> \E k \in 1 .. m : V[k].index \in I \cup J /\ x = w(k)
  BY <1>1, <1>9, <1>10
<1> QED BY <1>11 DEF w, m, V

LEMMA ScaleSingle ==
  ASSUME NEW p \in Int, NEW s
  PROVE  Scale(s, {p}, p) = 1
<1>1. {q \in {p} : q < p} = {}
  OBVIOUS
<1>2. IsFiniteSet({}) /\ Naturals({}, s)
  BY FS_EmptySet DEF Naturals
<1>3. Times(s, {}) = 1
  BY <1>2, TimesStep
<1> QED BY <1>1, <1>3 DEF Scale

\* The range of a group of one position.
LEMMA SubRangeSingle ==
  ASSUME LayoutOk(term), NEW p \in 1 .. Len(term.base.shape)
  PROVE  subRange(term.base, {p}) = Interval(term.base.bbox[p].start, term.base.bbox[p].stop)
<1> DEFINE b == term.base
           n == Len(b.shape)
           x == [q \in {p} |-> b.bbox[q].start]
           y == [q \in {p} |-> b.bbox[q].stop - 1]
<1>1. IsShape(b.shape) /\ IsBox(b.bbox, n)
  BY BaseOk, BoxOk DEF LayoutOk
<1>2. b.shape[p] \in Nat
  BY <1>1, ShapeLength
<1>3. b.bbox[p].start \in Nat /\ b.bbox[p].stop \in Nat /\ b.bbox[p].start < b.bbox[p].stop
  BY <1>1 DEF IsBox, IsRange
<1>4. x[p] = b.bbox[p].start /\ y[p] = b.bbox[p].stop - 1 /\ x[p] \in Nat /\ y[p] \in Nat
  BY <1>3
<1>5. subRange(b, {p}) = Interval(Number(b.shape, {p}, x), Number(b.shape, {p}, y) + 1)
  BY DEF subRange
<1> HIDE DEF x, y
<1>6. Number(b.shape, {p}, x) = x[p] /\ Number(b.shape, {p}, y) = y[p]
  <2>1. p \in Int
    OBVIOUS
  <2> HIDE DEF b
  <2> QED BY <1>2, <1>4, <2>1, NumberSingle
<1>7. y[p] + 1 = b.bbox[p].stop
  BY <1>3, <1>4
<1> HIDE DEF b
<1> QED BY <1>4, <1>5, <1>6, <1>7 DEF b

\* What dimension d of the matrix, which is group G, holds of it.
HeldAs(G, d) ==
  \/ G = {} /\ Held(matrix, d) = Interval(0, 1)
  \/ \E p \in 1 .. Len(term.base.shape) : G = {p} /\ Held(matrix, d) = Held(term, p)
  \/ G # {} /\ G \cap Viewed(term) = {} /\ Held(matrix, d) = subRange(term.base, G)

\* The views over dimension d of the matrix come from those over group G.
LEMMA UnfoldedViewsOf ==
  ASSUME LayoutOk(term), ~ term.base.csc, NEW I \in FusedVariants, NEW J \in FusedVariants,
         I # {}, J # {}, I \cap J = {}, matrix = unfold(term, I, J),
         NEW G, NEW d, (G = I /\ d = 1) \/ (G = J /\ d = 2)
  PROVE  /\ \A w \in Views(matrix) : w.index = d =>
              \E k \in 1 .. Len(term.views) :
                 /\ term.views[k].index \in G
                 /\ w.start = term.views[k].start * Scale(term.base.shape, G, term.views[k].index)
                 /\ w.stop = term.views[k].stop * Scale(term.base.shape, G, term.views[k].index)
         /\ \A k \in 1 .. Len(term.views) : term.views[k].index \in G => d \in Viewed(matrix)
         /\ Shift(matrix, d) = Scale(term.base.shape, G, Max(G)) * Shift(term, Max(G))
<1> DEFINE V == term.views
           w(k) == unfoldView(term.base, I, J, V[k])
           ks == {i \in 1 .. Len(V) : V[i].index \in I \cup J}
<1>1. /\ Views(matrix) = {w(k) : k \in ks} /\ IsScaled(I, J)
      /\ Moved(matrix.views, d) = Scale(term.base.shape, G, Max(G)) * Shift(term, Max(G))
  <2>1. IsScaled(I, J) /\ Moved(matrix.views, d) = Scale(term.base.shape, G, Max(G)) * Shift(term, Max(G))
    BY UnfoldedViews
  <2>2. \A x : x \in ViewsOf(unfold(term, I, J).views) <=> x \in {w(k) : k \in ks}
    BY <2>1, UnfoldMembers
  <2>3. Views(matrix) = ViewsOf(unfold(term, I, J).views)
    BY DEF Views, ViewsOf
  <2> HIDE DEF w, ks
  <2> QED BY <2>1, <2>2, <2>3
<1>2. Shift(matrix, d) = Moved(matrix.views, d)
  BY DEF Shift, Moved
<1>3. ASSUME NEW k \in ks
      PROVE  /\ w(k).index = d <=> V[k].index \in G
             /\ w(k).start = V[k].start * Scale(term.base.shape, IF V[k].index \in I THEN I ELSE J, V[k].index)
             /\ w(k).stop = V[k].stop * Scale(term.base.shape, IF V[k].index \in I THEN I ELSE J, V[k].index)
  BY DEF unfoldView, View
<1>4. ASSUME NEW k \in ks, V[k].index \in G PROVE (IF V[k].index \in I THEN I ELSE J) = G
  BY <1>4
<1> HIDE DEF w
<1>5. ASSUME NEW v \in Views(matrix), v.index = d
      PROVE  \E k \in 1 .. Len(V) :
               /\ V[k].index \in G
               /\ v.start = V[k].start * Scale(term.base.shape, G, V[k].index)
               /\ v.stop = V[k].stop * Scale(term.base.shape, G, V[k].index)
  <2>1. PICK k \in ks : v = w(k)
    BY <1>1
  <2>2. V[k].index \in G /\ k \in 1 .. Len(V)
    BY <1>3, <1>5, <2>1
  <2> QED BY <1>3, <1>4, <2>1, <2>2
<1>6. ASSUME NEW k \in 1 .. Len(V), V[k].index \in G PROVE d \in Viewed(matrix)
  <2>1. k \in ks
    BY <1>6
  <2>2. w(k).index = d /\ w(k) \in Views(matrix)
    BY <1>1, <1>3, <1>6, <2>1
  <2> QED BY <2>2 DEF Viewed
<1> QED BY <1>1, <1>2, <1>5, <1>6

LEMMA HeldUnfolded ==
  ASSUME TermInv, phase # "Node", ~ term.base.csc, NEW I \in FusedVariants, NEW J \in FusedVariants,
         I # {}, J # {}, I \cap J = {}, matrix = unfold(term, I, J), SlicedOnce(term),
         NEW G, NEW d, (G = I /\ d = 1) \/ (G = J /\ d = 2),
         \A v \in Views(term) : v.index \in G => G = {v.index},
         matrix.base.bbox[d] = subRange(term.base, G)
  PROVE  HeldAs(G, d)
<1> DEFINE b == term.base
           V == term.views
           n == Len(b.shape)
<1>1. /\ LayoutOk(term) /\ Viewable(matrix) /\ Len(matrix.base.shape) = 2 /\ d \in 1 .. 2
      /\ DOMAIN V = 1 .. Len(V) /\ G # {} /\ G \in FusedVariants
  <2>1. LayoutOk(term)
    BY DEF TermInv
  <2> QED BY <2>1, MatrixOk DEF LayoutOk
<1>2. /\ \A w \in Views(matrix) : w.index = d =>
           \E k \in 1 .. Len(V) :
              /\ V[k].index \in G
              /\ w.start = V[k].start * Scale(b.shape, G, V[k].index)
              /\ w.stop = V[k].stop * Scale(b.shape, G, V[k].index)
      /\ \A k \in 1 .. Len(V) : V[k].index \in G => d \in Viewed(matrix)
      /\ Shift(matrix, d) = Scale(b.shape, G, Max(G)) * Shift(term, Max(G))
  <2>1. LayoutOk(term)
    BY <1>1
  <2> QED BY <2>1, UnfoldedViewsOf
<1>3. CASE \A k \in 1 .. Len(V) : V[k].index \notin G
  <2>1. d \notin Viewed(matrix)
    BY <1>2, <1>3 DEF Viewed
  <2>2. Held(matrix, d) = subRange(b, G)
    BY <2>1 DEF Held
  <2>3. G \cap Viewed(term) = {}
    BY <1>1, <1>3 DEF Viewed, Views
  <2> QED BY <1>1, <2>2, <2>3 DEF HeldAs
<1>4. ASSUME NEW k \in 1 .. Len(V), V[k].index \in G
      PROVE  HeldAs(G, d)
  <2> DEFINE p == V[k].index
             z == V[k].start
             y == V[k].stop
  <2>1. V[k] \in Views(term) /\ p \in 1 .. n /\ z \in Nat /\ y \in Nat
    BY <1>1 DEF Views, SlicedOnce, BoxViews
  <2>2. G = {p}
    BY <1>4, <2>1
  <2>3. Scale(b.shape, G, p) = 1
    BY <2>1, <2>2, ScaleSingle
  <2>4. Max(G) = p
    BY <1>1, <2>2, GroupOk
  <2>5. Shift(term, p) = z /\ shapeOf(term)[p] = y - z /\ p \in Viewed(term)
    BY <1>1, OnceShift
  <2>6. Shift(matrix, d) = z
    <3>1. Shift(matrix, d) = 1 * z
      BY <1>2, <2>3, <2>4, <2>5
    <3> HIDE DEF z
    <3> QED BY <2>1, <3>1
  <2>7. d \in Viewed(matrix)
    BY <1>2, <1>4
  <2>8. PICK w \in Views(matrix) : w.index = d /\ shapeOf(matrix)[d] = w.stop - w.start
    BY <1>1, <2>7, ViewedSize
  <2>9. PICK l \in 1 .. Len(V) : /\ V[l].index \in G
                                /\ w.start = V[l].start * Scale(b.shape, G, V[l].index)
                                /\ w.stop = V[l].stop * Scale(b.shape, G, V[l].index)
    BY <1>2, <2>8
  <2>10. V[l].index = p /\ l = k
    BY <2>2, <2>9 DEF SlicedOnce, BoxViews
  <2>11. w.start = z /\ w.stop = y
    <3>1. w.start = z * 1 /\ w.stop = y * 1
      BY <2>3, <2>9, <2>10
    <3> HIDE DEF z, y
    <3> QED BY <2>1, <3>1
  <2>12. shapeOf(matrix)[d] = shapeOf(term)[p]
    BY <2>5, <2>8, <2>11
  <2>13. matrix.base.bbox[d] = Interval(b.bbox[p].start, b.bbox[p].stop)
    BY <1>1, <2>1, <2>2, SubRangeSingle
  <2>14. Held(matrix, d) = Held(term, p)
    BY <2>5, <2>6, <2>7, <2>12, <2>13 DEF Held, Interval
  <2> HIDE DEF p
  <2> QED BY <2>1, <2>2, <2>14 DEF HeldAs
<1> QED BY <1>3, <1>4

\* The groups as dimensions of the matrix.
LEMMA GroupsOk ==
  ASSUME TermInv, phase # "Node"
  PROVE  /\ First \in FusedVariants /\ Second \in FusedVariants /\ First \cap Second = {}
         /\ Looped = (1 .. Len(term.base.shape)) \ (First \cup Second)
         /\ First \subseteq 1 .. Len(term.base.shape) /\ Second \subseteq 1 .. Len(term.base.shape)
<1>1. PICK I \in FusedVariants, J \in FusedVariants : I \cap J = {} /\ groups = <<I, J>>
  BY DEF TermInv, MatrixInv
<1>2. LayoutOk(term) /\ Dims = 1 .. Len(term.base.shape)
  BY DimsOk DEF TermInv
<1>3. {First, Second} = {I, J}
  BY <1>1, <1>2, GroupOrder
<1>4. Looped = (1 .. Len(term.base.shape)) \ (I \cup J)
  BY <1>1, <1>2 DEF Looped
<1>5. I \subseteq 1 .. Len(term.base.shape) /\ J \subseteq 1 .. Len(term.base.shape)
  BY <1>2 DEF FusedVariants
<1>6. (First = I /\ Second = J) \/ (First = J /\ Second = I)
  BY <1>3
<1> QED BY <1>1, <1>4, <1>5, <1>6

LEMMA HeldGroups ==
  ASSUME TermInv, phase # "Node", ~ term.base.csc, SimpleSlices, SlicesKeepPlace
  PROVE  HeldAs(First, 1) /\ HeldAs(Second, 2)
<1>1. LayoutOk(term)
  BY DEF TermInv
<1>2. PICK I \in FusedVariants, J \in FusedVariants :
        I \cap J = {} /\ HasMethod(I, J) /\ groups = <<I, J>> /\ matrix = MatrixOf(I, J)
  BY DEF TermInv, MatrixInv
<1>3. /\ {First, Second} = {I, J}
      /\ I = {} => First = J /\ Second = {}
      /\ J = {} => First = I /\ Second = {}
      /\ I # {} /\ J # {} =>
           /\ Min(I) \in Int /\ Min(J) \in Int /\ Min(I) # Min(J)
           /\ First = IF Min(I) < Min(J) THEN I ELSE J
           /\ Second = IF Min(I) < Min(J) THEN J ELSE I
  BY <1>1, <1>2, GroupOrder
<1>4. CASE I = {} /\ J = {}
  <2> DEFINE r == Interval(0, 1)
             s == <<1, 1>>
             box == <<r, r>>
             base == DenseLayout(s, box, FALSE)
  <2>1. matrix.views = <<>> /\ matrix.base = base
    BY <1>2, <1>4 DEF MatrixOf, Layout
  <2>2. base.bbox = box
    BY DEF DenseLayout, WithStride
  <2>3. Viewed(matrix) = {}
    BY <2>1 DEF Viewed, Views
  <2>4. Held(matrix, 1) = r /\ Held(matrix, 2) = r
    <3> HIDE DEF base, r
    <3> QED BY <2>1, <2>2, <2>3 DEF Held
  <2> QED BY <1>3, <1>4, <2>4 DEF HeldAs
<1>5. CASE (I = {}) # (J = {})
  <2> DEFINE G == I \cup J
             b == term.base
             r1 == subRange(b, G)
             r2 == Interval(0, 1)
             s1 == firstStride(b, G)
             s2 == size(r1) * s1
  <2>1. G # {} /\ First = G /\ Second = {}
    BY <1>3, <1>5
  <2>2. matrix = Layout(withDummyDimension(vec(b, G))) /\ term.views = <<>>
    BY <1>2, <1>5 DEF MatrixOf, HasMethod
  <2>3. matrix.views = <<>> /\ PairBase(matrix.base, r1, r2, s1, s2)
    BY <2>2, VectorBase DEF Layout
  <2>4. Viewed(matrix) = {} /\ Viewed(term) = {}
    BY <2>2, <2>3 DEF Viewed, Views
  <2>5. Held(matrix, 1) = r1 /\ Held(matrix, 2) = r2
    <3> HIDE DEF r1, r2, s1, s2
    <3> QED BY <2>3, <2>4 DEF Held, PairBase
  <2> HIDE DEF G
  <2> QED BY <2>1, <2>4, <2>5 DEF HeldAs
<1>6. CASE I # {} /\ J # {} /\ Cardinality(Dims) = 2
  <2>1. matrix = term
    BY <1>2, <1>6 DEF MatrixOf
  <2>2. /\ Len(term.base.shape) = 2
        /\ (I = {1} /\ J = {2}) \/ (I = {2} /\ J = {1})
    BY <1>1, <1>2, <1>6, TwoDims
  <2>3. First = {1} /\ Second = {2}
    <3>1. Min(I) \in I /\ Min(J) \in J
      BY <1>1, <1>2, <1>6, GroupOk
    <3>2. CASE I = {1} /\ J = {2}
      <4>1. Min(I) = 1 /\ Min(J) = 2
        BY <3>1, <3>2
      <4> QED BY <1>3, <1>6, <3>2, <4>1
    <3>3. CASE I = {2} /\ J = {1}
      <4>1. Min(I) = 2 /\ Min(J) = 1
        BY <3>1, <3>3
      <4> QED BY <1>3, <1>6, <3>3, <4>1
    <3> QED BY <2>2, <3>2, <3>3
  <2> QED BY <2>1, <2>2, <2>3 DEF HeldAs
<1>7. CASE I # {} /\ J # {} /\ Cardinality(Dims) # 2
  <2> DEFINE b == term.base
  <2>1. matrix = unfold(term, I, J)
    BY <1>2, <1>7 DEF MatrixOf
  <2>2. matrix.base = unfoldBase(b, First, Second)
    <3> DEFINE S == IF Min(I) < Min(J) THEN I ELSE J
               T == IF Min(I) < Min(J) THEN J ELSE I
    <3>1. unfold(term, I, J).base = unfoldBase(b, S, T)
      BY DEF unfold
    <3>2. First = S /\ Second = T
      BY <1>3, <1>7
    <3> HIDE DEF S, T
    <3> QED BY <2>1, <3>1, <3>2
  <2>3. matrix.base.bbox = <<subRange(b, First), subRange(b, Second)>>
    BY <2>2 DEF unfoldBase, WithStride
  <2>4. matrix.base.bbox[1] = subRange(b, First) /\ matrix.base.bbox[2] = subRange(b, Second)
    BY <2>3
  <2>5. SlicedOnce(term)
    BY <1>1, SimpleOnce
  <2>6. CASE First = I
    <3>1. Second = J
      BY <1>3, <1>7, <2>6
    <3>2. \A v \in Views(term) : \A G \in {I, J} : v.index \in G => G = {v.index}
      BY <2>6, <3>1 DEF SimpleSlices
    <3>3. HeldAs(I, 1)
      <4> DEFINE one == 1
      <4>1. /\ \A v \in Views(term) : v.index \in I => I = {v.index}
            /\ matrix.base.bbox[one] = subRange(b, I) /\ one = 1
        BY <2>4, <2>6, <3>2
      <4> HIDE DEF one
      <4>2. HeldAs(I, one)
        BY <1>2, <1>7, <2>1, <2>5, <4>1, HeldUnfolded
      <4> QED BY <4>1, <4>2
    <3>4. HeldAs(J, 2)
      <4> DEFINE two == 2
      <4>1. /\ \A v \in Views(term) : v.index \in J => J = {v.index}
            /\ matrix.base.bbox[two] = subRange(b, J) /\ two = 2
        BY <2>4, <3>1, <3>2
      <4> HIDE DEF two
      <4>2. HeldAs(J, two)
        BY <1>2, <1>7, <2>1, <2>5, <4>1, HeldUnfolded
      <4> QED BY <4>1, <4>2
    <3> QED BY <2>6, <3>1, <3>3, <3>4
  <2>7. CASE First # I
    <3>1. First = J /\ Second = I
      BY <1>3, <1>7, <2>7
    <3>2. Viewed(term) \cap (I \cup J) = {}
      BY <1>2, <1>7, <2>7, <3>1 DEF SlicesKeepPlace
    <3>3. Viewed(matrix) = {}
      <4>1. IsScaled(I, J)
        BY <1>1, <1>2, <1>7, CscDims, UnfoldedViews
      <4>2. \A w : w \in ViewsOf(unfold(term, I, J).views)
                     <=> \E k \in 1 .. Len(term.views) : /\ term.views[k].index \in I \cup J
                                                      /\ w = unfoldView(term.base, I, J, term.views[k])
        BY <1>1, <4>1, UnfoldMembers
      <4>3. \A k \in 1 .. Len(term.views) : term.views[k].index \in Viewed(term)
        BY <1>1 DEF LayoutOk, Viewed, Views
      <4>4. ViewsOf(unfold(term, I, J).views) = {}
        BY <3>2, <4>2, <4>3
      <4>5. Views(matrix) = {}
        BY <2>1, <4>4 DEF Views, ViewsOf
      <4> QED BY <4>5 DEF Viewed
    <3>4. Held(matrix, 1) = subRange(b, First) /\ Held(matrix, 2) = subRange(b, Second)
      BY <2>4, <3>3 DEF Held
    <3> QED BY <1>7, <3>1, <3>2, <3>4 DEF HeldAs
  <2> QED BY <2>6, <2>7
<1> QED BY <1>4, <1>5, <1>6, <1>7

-----------------------------------------------------------------------------
(* The ranges of the GEMM and of the loops around it *)

DescribedOk(d) ==
  /\ LoopRanges(d.loops)
  /\ d.n \in Patterns(matrix, 2)
  /\ \E m \in Patterns(matrix, 1) : d.m = m \/ (d.claim /\ d.m = aligned(m))

DescribedInv == phase = "Described" => DescribedOk(descr)

LEMMA DescribedKept ==
  ASSUME UNCHANGED <<term, groups, matrix>>, DescribedOk(descr')
  PROVE  DescribedOk(descr)'
BY DEF DescribedOk, LoopRanges, Looped, Dims

LEMMA DescribedInit == TInit => DescribedInv
BY DEF TInit, DescribedInv

LEMMA DescribedNext == DescribedInv /\ [TNext]_vars => DescribedInv'
<1> SUFFICES ASSUME DescribedInv, [TNext]_vars, phase' = "Described"
             PROVE  DescribedOk(descr)'
  BY DEF DescribedInv
<1>1. ASSUME NEW m \in Patterns(matrix, 1), NEW n \in Patterns(matrix, 2),
             NEW loops \in [Looped -> UNION {Patterns(term, d) : d \in Looped}],
             \A d \in Looped : loops[d] \in Patterns(term, d),
             NEW ofProduct \in BOOLEAN, NEW other \in BOOLEAN, Describe(m, n, loops, ofProduct, other)
      PROVE  DescribedOk(descr)'
  <2> DEFINE mine == ofProduct /\ alignedStart /\ alignedStride(matrix)
  <2>1. /\ descr' = [m |-> IF mine /\ other THEN aligned(m) ELSE m, n |-> n, loops |-> loops,
                     claim |-> mine /\ (other \/ checkAlignment(m.start))]
        /\ UNCHANGED <<term, groups, matrix>>
    BY <1>1 DEF Describe
  <2> HIDE DEF mine
  <2>2. /\ descr'.m = (IF mine /\ other THEN aligned(m) ELSE m)
        /\ descr'.n = n /\ descr'.loops = loops
        /\ descr'.claim <=> mine /\ (other \/ checkAlignment(m.start))
    BY <2>1
  <2>3. descr'.m = m \/ (descr'.claim /\ descr'.m = aligned(m))
    BY <2>2
  <2>4. LoopRanges(descr'.loops)
    BY <1>1, <2>2 DEF LoopRanges
  <2>5. DescribedOk(descr')
    BY <2>2, <2>3, <2>4 DEF DescribedOk
  <2> QED BY <2>1, <2>5, DescribedKept
<1>2. CASE UNCHANGED vars
  <2>1. DescribedOk(descr')
    BY <1>2 DEF DescribedInv, vars
  <2> QED BY <1>2, <2>1, DescribedKept DEF vars
<1> QED BY <1>1, <1>2 DEF TNext, Subslice, Permute, MakeMatrix

\* A range of numbers that are held.
PartOf(r, h) == r \in [start : Nat, stop : Nat] /\ r.start < r.stop /\ Within(r, h)

LEMMA PatternPart ==
  ASSUME NEW lay, Viewable(lay), NEW d \in 1 .. Len(lay.base.shape), NEW r \in Patterns(lay, d)
  PROVE  PartOf(r, Held(lay, d))
<1>1. r.start \in Nat /\ r.stop \in Nat /\ Within(r, Held(lay, d))
  BY PatternNumbers
<1>2. \E a, b : r = [start |-> a, stop |-> b]
  BY DEF Patterns, NonEmpty, SubRanges, Interval
<1>3. r \in [start : Nat, stop : Nat]
  BY <1>1, <1>2
<1>4. size(r) > 0
  BY DEF Patterns, NonEmpty
<1>5. r.start < r.stop
  BY <1>1, <1>4 DEF size
<1> QED BY <1>1, <1>3, <1>5 DEF PartOf

\* What is written is held, rows that were added for the alignment included.
LEMMA DescribedRanges ==
  ASSUME TermInv, ClaimInv, DescribedInv, phase = "Described", descr.claim => AlignedOrigin
  PROVE  /\ PartOf(descr.m, Held(matrix, 1)) /\ PartOf(descr.n, Held(matrix, 2))
         /\ DOMAIN descr.loops = Looped
         /\ \A d \in Looped : d \in 1 .. Len(term.base.shape) => PartOf(descr.loops[d], Held(term, d))
<1>1. LayoutOk(term) /\ phase # "Node"
  BY DEF TermInv
<1>2. /\ Viewable(term) /\ Viewable(matrix)
      /\ 1 \in 1 .. Len(matrix.base.shape) /\ 2 \in 1 .. Len(matrix.base.shape)
  <2>1. Viewable(matrix) /\ Len(matrix.base.shape) = 2
    BY <1>1, MatrixOk
  <2> QED BY <1>1, <2>1, LayoutViewable
<1>3. /\ LoopRanges(descr.loops) /\ descr.n \in Patterns(matrix, 2)
  BY DEF DescribedInv, DescribedOk
<1>4. PICK m \in Patterns(matrix, 1) : descr.m = m \/ (descr.claim /\ descr.m = aligned(m))
  BY DEF DescribedInv, DescribedOk
<1>5. PartOf(m, Held(matrix, 1)) /\ PartOf(descr.n, Held(matrix, 2))
  BY <1>2, <1>3, PatternPart
<1>6. \A d \in Looped : d \in 1 .. Len(term.base.shape) => PartOf(descr.loops[d], Held(term, d))
  BY <1>2, <1>3, PatternPart DEF LoopRanges
<1>7. PartOf(descr.m, Held(matrix, 1))
  <2>1. CASE descr.m = m
    BY <1>5, <2>1
  <2>2. CASE descr.claim /\ descr.m = aligned(m)
    <3>1. Within(descr.m, Held(matrix, 1))
      BY <1>1, <2>2, ClaimedRows DEF ClaimInv
    <3>2. IsRange(m)
      BY <1>5 DEF PartOf, IsRange, Interval
    <3>3. IsRange(aligned(m))
      BY <3>2, AlignedRange
    <3>4. aligned(m) \in [start : Nat, stop : Nat] /\ aligned(m).start < aligned(m).stop
      BY <3>3 DEF IsRange, Interval
    <3> QED BY <2>2, <3>1, <3>4 DEF PartOf
  <2> QED BY <1>4, <2>1, <2>2
<1> QED BY <1>3, <1>5, <1>6, <1>7 DEF LoopRanges

LEMMA FusedSingle ==
  ASSUME LayoutOk(term), NEW p \in 1 .. Len(term.base.shape), NEW e, e[p] \in Nat
  PROVE  Fused({p}, e) = e[p]
<1> DEFINE s == term.base.shape
           t == shapeOf(term)
           S == {p}
<1>1. Positions(S) /\ Greatest(p, S) /\ p \in Int
  <2>1. IsFiniteSet(S)
    BY FS_Singleton
  <2> QED BY <2>1 DEF Positions, Greatest
<1>2. s[p] \in Nat
  BY DimsOk, ShapeLength
<1>3. Naturals(S, s) /\ (\A q \in S \ {p} : s[q] = t[q])
  BY <1>2 DEF Naturals
<1> HIDE DEF s, t
<1>4. Number(s, S, e) = Number(t, S, e)
  <2> HIDE DEF S
  <2>1. \A q \in S : e[q] = e[q]
    OBVIOUS
  <2> QED BY <1>1, <1>3, <2>1, NumberAgree
<1>5. Number(s, S, e) = e[p]
  BY <1>1, <1>2, NumberSingle
<1> QED BY <1>4, <1>5 DEF Fused, t

\* Every number of the range of a group is that of positions that are held.
LEMMA GroupFilled ==
  ASSUME LayoutOk(term), ~ term.base.csc, StorageFits(term.base), NEW G \in FusedVariants,
         NEW d, HeldAs(G, d), NEW r, PartOf(r, Held(matrix, d)), NEW k \in Numbers(r)
  PROVE  \E f : Fused(G, f) = k /\ \A p \in G : f[p] \in Numbers(Held(term, p))
<1> DEFINE h == Held(matrix, d)
<1>1. k \in Nat /\ r.start <= k /\ k < r.stop /\ h.start <= r.start /\ r.stop <= h.stop
  BY DEF PartOf, Within, Numbers
<1>2. h.start \in Int /\ h.stop \in Int => k \in Numbers(h)
  <2> HIDE DEF h
  <2> QED BY <1>1 DEF PartOf, Numbers
<1>3. CASE G = {} /\ h = Interval(0, 1)
  <2>1. h.start = 0 /\ h.stop = 1
    BY <1>3 DEF Interval
  <2>2. k \in Numbers(h)
    BY <1>2, <2>1
  <2>3. k = 0
    BY <2>1, <2>2 DEF Numbers
  <2>4. Fused({}, <<>>) = 0
    BY FusedNothing
  <2> QED BY <1>3, <2>3, <2>4
<1>4. CASE \E p \in 1 .. Len(term.base.shape) : G = {p} /\ h = Held(term, p)
  <2>1. PICK p \in 1 .. Len(term.base.shape) : G = {p} /\ h = Held(term, p)
    BY <1>4
  <2>2. h.start \in Int /\ h.stop \in Int
    BY <2>1, HeldRange, LayoutViewable
  <2>3. k \in Numbers(Held(term, p))
    BY <1>2, <2>1, <2>2
  <2> DEFINE f == [q \in {p} |-> k]
  <2>4. f[p] = k
    OBVIOUS
  <2> HIDE DEF f
  <2>5. Fused({p}, f) = k
    BY <1>1, <2>4, FusedSingle
  <2> QED BY <2>1, <2>3, <2>4, <2>5
<1>5. CASE G # {} /\ G \cap Viewed(term) = {} /\ h = subRange(term.base, G)
  <2>1. h.start \in Int /\ h.stop \in Int
    BY <1>5, SubRangeNat
  <2>2. k \in Numbers(subRange(term.base, G))
    BY <1>2, <1>5, <2>1
  <2>3. PICK f : Fused(G, f) = k /\ \A p \in G : f[p] \in Numbers(term.base.bbox[p])
    BY <1>5, <2>2, GroupReached
  <2>4. \A p \in G : Held(term, p) = term.base.bbox[p]
    BY <1>5 DEF Held
  <2> QED BY <2>3, <2>4
<1> QED BY <1>3, <1>4, <1>5 DEF HeldAs

\* The box of a group whose range is written.
LEMMA DigitRanges ==
  ASSUME LayoutOk(term), NEW G \in FusedVariants, G # {},
         NEW r, r.start \in Nat, r.stop \in Nat, r.start < r.stop, NEW p \in G
  PROVE  defuseBase(term.base, r, G)[p] \in [start : Int, stop : Int]
<1> DEFINE s == term.base.shape
           c == Scale(s, G, p)
           digit(k) == IF p = Max(G) THEN k \div c ELSE (k \div c) % s[p]
<1>1. s[p] \in Nat /\ s[p] > 0 /\ c \in Nat /\ c > 0
  <2> DEFINE L == {q \in G : q < p}
  <2>1. Positive(G, s) /\ Positions(G)
    BY GroupSizes
  <2>2. L \subseteq G
    OBVIOUS
  <2>3. IsFiniteSet(L) /\ Positive(L, s)
    <3> HIDE DEF s
    <3>1. IsFiniteSet(G)
      BY <2>1 DEF Positions
    <3>2. Positive(L, s)
      BY <2>1, <2>2 DEF Positive
    <3> HIDE DEF L
    <3> QED BY <2>2, <3>1, <3>2, FS_Subset
  <2>4. Times(s, L) \in Nat /\ Times(s, L) > 0
    <3> HIDE DEF s, L
    <3> QED BY <2>3, TimesPositive
  <2> QED BY <2>1, <2>4 DEF Scale, Positive
<1> HIDE DEF c
<1>2. ASSUME NEW k \in Nat PROVE digit(k) \in Int
  <2>1. k \div c \in Nat
    BY <1>1, Division
  <2> DEFINE q == k \div c
             z == s[p]
  <2>2. q \in Nat /\ z \in Nat /\ z > 0
    BY <1>1, <2>1
  <2> HIDE DEF q, z
  <2>3. q % z \in Nat
    BY <2>2, Division
  <2> QED BY <2>1, <2>3 DEF q, z
<1>3. defuseBase(term.base, r, G)[p] = Interval(digit(r.start), digit(r.stop - 1) + 1)
  BY DEF defuseBase, c
<1> HIDE DEF digit
<1>4. r.stop - 1 \in Nat
  OBVIOUS
<1>5. digit(r.start) \in Int /\ digit(r.stop - 1) + 1 \in Int
  BY <1>2, <1>4
<1> QED BY <1>3, <1>5 DEF Interval

\* The groups of a layout with simple slices.
LEMMA SimpleGroup ==
  ASSUME SimpleSlices, NEW G, G = First \/ G = Second, IsFiniteSet(G), Cardinality(G) # 1
  PROVE  G \cap Viewed(term) = {}
<1> SUFFICES ASSUME NEW v \in Views(term), v.index \in G PROVE FALSE
  BY DEF Viewed
<1>1. G = {v.index}
  BY DEF SimpleSlices
<1>2. Cardinality({v.index}) = 1
  BY FS_Singleton
<1> QED BY <1>1, <1>2

LEMMA GroupRange ==
  ASSUME LayoutOk(term), SimpleSlices, NEW G \in FusedVariants, G = First \/ G = Second,
         NEW r \in [start : Nat, stop : Nat], r.start < r.stop, NEW p \in G
  PROVE  /\ rangesOf(G, r)[p] \in [start : Int, stop : Int]
         /\ G = {p} => rangesOf(G, r)[p] = r
         /\ G # {p} => /\ G \cap Viewed(term) = {}
                       /\ rangesOf(G, r)[p] = defuseBase(term.base, r, G)[p]
<1>1. IsFiniteSet(G)
  BY GroupOk DEF Positions
<1>2. r.start \in Nat /\ r.stop \in Nat
  OBVIOUS
<1>3. CASE Cardinality(G) = 1
  <2>1. \E x : G = {x}
    BY <1>1, <1>3, FS_Singleton
  <2>2. G = {p} /\ rangesOf(G, r)[p] = r
    BY <1>3, <2>1 DEF rangesOf
  <2>3. r \in [start : Int, stop : Int]
    OBVIOUS
  <2> QED BY <2>2, <2>3
<1>4. CASE Cardinality(G) # 1
  <2>1. G \cap Viewed(term) = {}
    BY <1>1, <1>4, SimpleGroup
  <2>2. rangesOf(G, r)[p] = defuseBase(term.base, r, G)[p]
    BY <1>4, <2>1, DefusePlain, LayoutViewable DEF rangesOf
  <2>3. G # {p}
    BY <1>4, FS_Singleton
  <2>4. defuseBase(term.base, r, G)[p] \in [start : Int, stop : Int]
    BY <1>2, DigitRanges
  <2> QED BY <2>1, <2>2, <2>3, <2>4
<1> QED BY <1>3, <1>4

\* An entry within the box of a group has its number in the range of the group.
LEMMA GroupWritten ==
  ASSUME LayoutOk(term), ~ term.base.csc, SimpleSlices, NEW G \in FusedVariants,
         G = First \/ G = Second, NEW d, HeldAs(G, d), NEW r, PartOf(r, Held(matrix, d)),
         NEW e, \A p \in G : e[p] \in Nat /\ e[p] \in Numbers(rangesOf(G, r)[p])
  PROVE  Fused(G, e) \in Numbers(r)
<1>1. r \in [start : Nat, stop : Nat] /\ r.start < r.stop
  BY DEF PartOf
<1>2. CASE G = {}
  <2>1. Held(matrix, d) = Interval(0, 1)
    BY <1>2 DEF HeldAs
  <2>2. 0 <= r.start /\ r.stop <= 1
    BY <2>1 DEF PartOf, Within, Interval
  <2>3. 0 \in Numbers(r)
    BY <1>1, <2>2 DEF Numbers
  <2> QED BY <1>2, <2>3, FusedNothing
<1>3. ASSUME NEW p \in G, G = {p} PROVE Fused(G, e) \in Numbers(r)
  <2>1. e[p] \in Nat /\ e[p] \in Numbers(r)
    BY <1>1, <1>3, GroupRange
  <2>2. p \in 1 .. Len(term.base.shape)
    BY <1>3, GroupOk
  <2>3. Fused({p}, e) = e[p]
    BY <2>1, <2>2, FusedSingle
  <2> QED BY <1>3, <2>1, <2>3
<1>4. CASE G # {} /\ \A p \in G : G # {p}
  <2>1. \A p \in G : G \cap Viewed(term) = {} /\ e[p] \in Nat
                     /\ e[p] \in Numbers(defuseBase(term.base, r, G)[p])
    BY <1>1, <1>4, GroupRange
  <2>2. r.start \in Nat /\ r.stop \in Nat
    BY <1>1
  <2> QED BY <1>1, <1>4, <2>1, <2>2, GroupBetween
<1> QED BY <1>2, <1>3, <1>4

\* The box that is written.
LEMMA WriteBox ==
  ASSUME TermInv, ClaimInv, DescribedInv, phase = "Described", descr.claim => AlignedOrigin, SimpleSlices
  PROVE  /\ writeBB \in BoxSet(Len(term.base.shape))
         /\ \A d \in Looped : writeBB[d] = descr.loops[d]
         /\ \A d \in First : writeBB[d] = rangesOf(First, descr.m)[d]
         /\ \A d \in Second : writeBB[d] = rangesOf(Second, descr.n)[d]
<1> DEFINE n == Len(term.base.shape)
<1>1. LayoutOk(term) /\ phase # "Node" /\ Dims = 1 .. n
  BY DimsOk DEF TermInv
<1>2. /\ First \in FusedVariants /\ Second \in FusedVariants /\ First \cap Second = {}
      /\ Looped = (1 .. n) \ (First \cup Second) /\ First \subseteq 1 .. n /\ Second \subseteq 1 .. n
  BY <1>1, GroupsOk
<1>3. /\ PartOf(descr.m, Held(matrix, 1)) /\ PartOf(descr.n, Held(matrix, 2))
      /\ \A d \in Looped : d \in 1 .. n => PartOf(descr.loops[d], Held(term, d))
  BY DescribedRanges
<1>4. /\ \A d \in Looped : d \in 1 .. n /\ writeBB[d] = descr.loops[d]
      /\ \A d \in First : d \in 1 .. n /\ writeBB[d] = rangesOf(First, descr.m)[d]
      /\ \A d \in Second : d \in 1 .. n /\ writeBB[d] = rangesOf(Second, descr.n)[d]
  BY <1>1, <1>2 DEF writeBB
<1>5. ASSUME NEW d \in 1 .. n PROVE writeBB[d] \in [start : Int, stop : Int]
  <2>1. CASE d \in Looped
    BY <1>3, <1>4, <2>1 DEF PartOf
  <2>2. CASE d \in First
    BY <1>1, <1>2, <1>3, <1>4, <2>2, GroupRange DEF PartOf
  <2>3. CASE d \in Second
    BY <1>1, <1>2, <1>3, <1>4, <2>3, GroupRange DEF PartOf
  <2> QED BY <1>2, <2>1, <2>2, <2>3
<1>6. writeBB = [d \in 1 .. n |-> writeBB[d]]
  BY <1>1 DEF writeBB
<1>7. writeBB \in BoxSet(n)
  BY <1>5, <1>6 DEF BoxSet
<1> QED BY <1>4, <1>7

LEMMA LoopLike ==
  ASSUME NEW e, NEW l, \A d \in Looped : e[d] = l[d]
  PROVE  LoopAddress(e) = LoopAddress(l)
BY DEF LoopAddress

\* The loops and the GEMM write entries of the result.
LEMMA WrittenStored ==
  ASSUME TermInv, FitsInv, ClaimInv, DescribedInv, phase = "Described", ~ term.base.csc,
         SimpleSlices, SlicesKeepPlace, descr.claim => AlignedOrigin,
         NEW l \in Cells(descr.loops), NEW i \in Numbers(descr.m), NEW j \in Numbers(descr.n)
  PROVE  \E e \in StoredEntries : address(term, e) = LoopAddress(l) + address(matrix, <<i, j>>)
<1> DEFINE n == Len(term.base.shape)
<1>1. LayoutOk(term) /\ phase # "Node" /\ Dims = 1 .. n /\ StorageFits(term.base)
  BY DimsOk DEF TermInv, FitsInv
<1>2. /\ First \in FusedVariants /\ Second \in FusedVariants /\ First \cap Second = {}
      /\ Looped = (1 .. n) \ (First \cup Second) /\ First \subseteq 1 .. n /\ Second \subseteq 1 .. n
  BY <1>1, GroupsOk
<1>3. /\ PartOf(descr.m, Held(matrix, 1)) /\ PartOf(descr.n, Held(matrix, 2))
      /\ DOMAIN descr.loops = Looped
      /\ \A d \in Looped : PartOf(descr.loops[d], Held(term, d))
  BY <1>2, DescribedRanges
<1>4. HeldAs(First, 1) /\ HeldAs(Second, 2)
  BY <1>1, HeldGroups
<1>5. PICK f : Fused(First, f) = i /\ \A p \in First : f[p] \in Numbers(Held(term, p))
  <2> DEFINE one == 1
  <2>1. HeldAs(First, one) /\ PartOf(descr.m, Held(matrix, one))
    BY <1>3, <1>4
  <2> HIDE DEF one
  <2> QED BY <1>1, <1>2, <2>1, GroupFilled
<1>6. PICK g : Fused(Second, g) = j /\ \A p \in Second : g[p] \in Numbers(Held(term, p))
  <2> DEFINE two == 2
  <2>1. HeldAs(Second, two) /\ PartOf(descr.n, Held(matrix, two))
    BY <1>3, <1>4
  <2> HIDE DEF two
  <2> QED BY <1>1, <1>2, <2>1, GroupFilled
<1> DEFINE e == [d \in 1 .. n |-> IF d \in Looped THEN l[d] ELSE IF d \in First THEN f[d] ELSE g[d]]
<1>7. /\ \A d \in Looped : e[d] = l[d]
      /\ \A d \in First : e[d] = f[d]
      /\ \A d \in Second : e[d] = g[d]
  BY <1>2
<1>8. ASSUME NEW d \in Looped PROVE l[d] \in Numbers(Held(term, d))
  <2> DEFINE r == descr.loops[d]
             h == Held(term, d)
  <2>1. l[d] \in Numbers(r)
    BY <1>3 DEF Cells
  <2>2. PartOf(r, h)
    BY <1>3
  <2>3. h.start \in Int /\ h.stop \in Int
    BY <1>1, <1>2, HeldRange, LayoutViewable
  <2> HIDE DEF r, h
  <2> QED BY <2>1, <2>2, <2>3 DEF PartOf, Within, Numbers, h
<1>9. e \in StoredEntries
  <2>1. \A d \in 1 .. n : e[d] \in Numbers(Held(term, d))
    BY <1>2, <1>5, <1>6, <1>7, <1>8
  <2>2. CellOf(n, e)
    BY DEF CellOf
  <2> HIDE DEF e
  <2>3. e \in Cells([d \in 1 .. n |-> Held(term, d)])
    BY <2>1, <2>2, CellsOf
  <2> QED BY <1>1, <2>3 DEF StoredEntries
<1> HIDE DEF e
<1>10. Fused(First, e) = i /\ Fused(Second, e) = j
  BY <1>5, <1>6, <1>7, NumberLike DEF Fused
<1>11. LoopAddress(e) = LoopAddress(l)
  BY <1>7, LoopLike
<1>12. address(term, e) = LoopAddress(e) + address(matrix, MatrixEntry(e))
  BY <1>1, <1>9, EntrySplits
<1> QED BY <1>9, <1>10, <1>11, <1>12 DEF MatrixEntry

\* An entry within the box that is written is written.
LEMMA StoredWritten ==
  ASSUME TermInv, ClaimInv, DescribedInv, phase = "Described", ~ term.base.csc,
         SimpleSlices, SlicesKeepPlace, descr.claim => AlignedOrigin,
         NEW e \in StoredEntries, \A d \in 1 .. Len(term.base.shape) : e[d] \in Numbers(writeBB[d])
  PROVE  address(term, e) \in Written
<1> DEFINE n == Len(term.base.shape)
           i == Fused(First, e)
           j == Fused(Second, e)
           l == [d \in Looped |-> e[d]]
<1>1. LayoutOk(term) /\ phase # "Node"
  BY DEF TermInv
<1>2. /\ First \in FusedVariants /\ Second \in FusedVariants
      /\ Looped \subseteq 1 .. n /\ First \subseteq 1 .. n /\ Second \subseteq 1 .. n
  BY <1>1, GroupsOk
<1>3. /\ PartOf(descr.m, Held(matrix, 1)) /\ PartOf(descr.n, Held(matrix, 2))
      /\ DOMAIN descr.loops = Looped
  BY DescribedRanges
<1>4. HeldAs(First, 1) /\ HeldAs(Second, 2)
  BY <1>1, HeldGroups
<1>5. /\ \A d \in Looped : writeBB[d] = descr.loops[d]
      /\ \A d \in First : writeBB[d] = rangesOf(First, descr.m)[d]
      /\ \A d \in Second : writeBB[d] = rangesOf(Second, descr.n)[d]
  BY WriteBox
<1>6. \A p \in 1 .. n : e[p] \in Nat
  BY <1>1, EntryNat
<1>7. i \in Numbers(descr.m)
  <2> DEFINE one == 1
  <2>1. /\ HeldAs(First, one) /\ PartOf(descr.m, Held(matrix, one))
        /\ \A p \in First : e[p] \in Nat /\ e[p] \in Numbers(rangesOf(First, descr.m)[p])
    BY <1>2, <1>3, <1>4, <1>5, <1>6
  <2> HIDE DEF one
  <2> QED BY <1>1, <1>2, <2>1, GroupWritten
<1>8. j \in Numbers(descr.n)
  <2> DEFINE two == 2
  <2>1. /\ HeldAs(Second, two) /\ PartOf(descr.n, Held(matrix, two))
        /\ \A p \in Second : e[p] \in Nat /\ e[p] \in Numbers(rangesOf(Second, descr.n)[p])
    BY <1>2, <1>3, <1>4, <1>5, <1>6
  <2> HIDE DEF two
  <2> QED BY <1>1, <1>2, <2>1, GroupWritten
<1>9. l \in Cells(descr.loops)
  <2> DEFINE L == DOMAIN descr.loops
             T == UNION {Numbers(descr.loops[d]) : d \in L}
  <2>1. \A d \in L : l[d] \in Numbers(descr.loops[d])
    BY <1>2, <1>3, <1>5
  <2>2. l = [d \in L |-> l[d]]
    BY <1>3
  <2> HIDE DEF l
  <2>3. l \in [L -> T]
    BY <2>1, <2>2
  <2> QED BY <2>1, <2>3 DEF Cells
<1>10. LoopAddress(e) = LoopAddress(l)
  <2>1. \A d \in Looped : e[d] = l[d]
    OBVIOUS
  <2> HIDE DEF l
  <2> QED BY <2>1, LoopLike
<1>11. address(term, e) = LoopAddress(e) + address(matrix, <<i, j>>)
  <2>1. address(term, e) = LoopAddress(e) + address(matrix, MatrixEntry(e))
    BY <1>1, EntrySplits
  <2> QED BY <2>1 DEF MatrixEntry
<1> HIDE DEF i, j, l
<1> QED BY <1>7, <1>8, <1>9, <1>10, <1>11 DEF Written

\* Between them the clearing and the loops with the GEMM touch every real of the
\* result and none around it: for terms of any dimension, cut out by any simple
\* slices, every way to fuse positions, and all ranges of the GEMM and of the
\* loops (Generic.generate of codegen/log, notWrittenAddresses of memory.py).
THEOREM ResultIsCovered == TSpec => []ResultCovered
<1>1. TermInv /\ FitsInv /\ ClaimInv /\ DescribedInv => ResultCovered
  <2> SUFFICES ASSUME TermInv, FitsInv, ClaimInv, DescribedInv, phase = "Described",
                      ~ term.base.csc, SimpleSlices, SlicesKeepPlace, descr.claim => AlignedOrigin
               PROVE  Cleared \cup Written = Addresses
    BY DEF ResultCovered
  <2>1. LayoutOk(term)
    BY DEF TermInv
  <2>2. SlicedOnce(term)
    BY <2>1, SimpleOnce
  <2>3. writeBB \in BoxSet(Len(term.base.shape))
    BY WriteBox
  <2>4. \A a : a \in Cleared
                 <=> \E e \in StoredEntries :
                       /\ a = address(term, e)
                       /\ \E d \in 1 .. Len(term.base.shape) : e[d] \notin Numbers(writeBB[d])
    BY <2>1, <2>2, <2>3, ClearedEntries DEF Cleared
  <2>5. Written \subseteq Addresses
    <3> SUFFICES ASSUME NEW a \in Written PROVE a \in Addresses
      OBVIOUS
    <3>1. PICK l \in Cells(descr.loops), i \in Numbers(descr.m), j \in Numbers(descr.n) :
            a = LoopAddress(l) + address(matrix, <<i, j>>)
      BY DEF Written
    <3>2. \E e \in StoredEntries : address(term, e) = LoopAddress(l) + address(matrix, <<i, j>>)
      BY WrittenStored
    <3> QED BY <3>1, <3>2 DEF Addresses
  <2>6. Cleared \subseteq Addresses
    BY <2>4 DEF Addresses
  <2>7. Addresses \subseteq Cleared \cup Written
    BY <2>4, StoredWritten DEF Addresses
  <2> QED BY <2>5, <2>6, <2>7
<1>2. TInit => FitsInv /\ ClaimInv /\ DescribedInv
  BY FitsInit, ClaimInit, DescribedInit
<1>3. TermInv /\ (FitsInv /\ ClaimInv /\ DescribedInv) /\ [TNext]_vars
        => (FitsInv /\ ClaimInv /\ DescribedInv)'
  BY FitsNext, ClaimNext, DescribedNext
<1> QED BY <1>1, <1>2, <1>3, LayoutsCorrect, PTL DEF TSpec
=============================================================================
