----------------------------- MODULE Induction -----------------------------
(***************************************************************************)
(* Induction and recursion over the natural numbers and over finite sets,  *)
(* stated with sets and functions: what is to be proved of every number is *)
(* given as the set of the numbers that it holds of, and the step of a     *)
(* recursive definition as a function.  The provers can instantiate these  *)
(* statements, as they cannot instantiate those of NaturalsInduction,      *)
(* whose parameters are operators.                                         *)
(***************************************************************************)
EXTENDS Integers, FiniteSetTheorems, WellFoundedInduction, TLAPS

\* A set of numbers that is not empty has a least element.
LEMMA LeastNumber ==
  ASSUME NEW T \in SUBSET Nat, T # {}
  PROVE  \E n \in T : \A m \in T : n <= m
<1>1. \E x \in T : \A y \in T : ~ (<<y, x>> \in OpToRel(<, Nat))
  BY NatLessThanWellFounded, WFMin
<1>2. PICK x \in T : \A y \in T : ~ (<<y, x>> \in OpToRel(<, Nat))
  BY <1>1
<1>3. ASSUME NEW y \in T PROVE x <= y
  <2>1. ~ (<<y, x>> \in {ss \in Nat \X Nat : ss[1] < ss[2]})
    BY <1>2 DEF OpToRel
  <2> QED BY <2>1
<1> QED BY <1>2, <1>3

\* Induction: a set that contains 0 and with every number the next one contains
\* all numbers.
LEMMA NatSetInduction ==
  ASSUME NEW P, 0 \in P, \A n \in Nat : n \in P => n + 1 \in P
  PROVE  Nat \subseteq P
<1> SUFFICES ASSUME Nat \ P # {} PROVE FALSE
  OBVIOUS
<1>1. PICK n \in Nat \ P : \A m \in Nat \ P : n <= m
  BY LeastNumber
<1>2. n - 1 \in Nat /\ n = (n - 1) + 1
  BY <1>1
<1>3. n - 1 \in P
  BY <1>1, <1>2
<1> QED BY <1>1, <1>2, <1>3

StepFunctions(N, T) == [(1 .. N) \X T -> T]

\* A recursive definition over 0 .. N with values in T has a solution.
LEMMA RecursionExists ==
  ASSUME NEW N \in Nat, NEW T, NEW base \in T, NEW step \in StepFunctions(N, T)
  PROVE  \E f \in [0 .. N -> T] :
            f[0] = base /\ \A k \in 1 .. N : f[k] = step[<<k, f[k - 1]>>]
<1> DEFINE Is(f, n) == /\ f \in [0 .. n -> T]
                       /\ f[0] = base
                       /\ \A k \in 1 .. n : f[k] = step[<<k, f[k - 1]>>]
           P == {n \in Nat : n <= N => \E f : Is(f, n)}
<1> USE DEF StepFunctions
<1>1. 0 \in P
  <2> DEFINE f == [k \in 0 .. 0 |-> base]
  <2>1. Is(f, 0)
    OBVIOUS
  <2> QED BY <2>1
<1>2. ASSUME NEW n \in Nat, n \in P PROVE n + 1 \in P
  <2> SUFFICES ASSUME n + 1 <= N PROVE \E f : Is(f, n + 1)
    OBVIOUS
  <2>1. PICK f : Is(f, n)
    BY <1>2
  <2> DEFINE g == [k \in 0 .. n + 1 |-> IF k = n + 1 THEN step[<<n + 1, f[n]>>] ELSE f[k]]
  <2>2. step[<<n + 1, f[n]>>] \in T
    BY <2>1
  <2>3. g \in [0 .. n + 1 -> T]
    BY <2>1, <2>2
  <2>4. ASSUME NEW k \in 1 .. n + 1 PROVE  g[k] = step[<<k, g[k - 1]>>]
    <3>1. CASE k = n + 1
      <4>1. k - 1 = n /\ k \in 0 .. n + 1 /\ n \in 0 .. n + 1 /\ n # n + 1
        BY <3>1
      <4>2. g[k] = step[<<k, f[n]>>]
        BY <3>1, <4>1
      <4>3. g[n] = f[n]
        BY <4>1
      <4> HIDE DEF g
      <4> QED BY <4>1, <4>2, <4>3
    <3>2. CASE k # n + 1
      <4>1. k \in 1 .. n /\ k \in 0 .. n + 1 /\ k - 1 \in 0 .. n + 1 /\ k - 1 # n + 1
        BY <3>2
      <4>2. g[k] = f[k] /\ g[k - 1] = f[k - 1]
        BY <4>1, <3>2
      <4> QED BY <4>1, <4>2, <2>1
    <3> QED BY <3>1, <3>2
  <2>5. g[0] = base
    BY <2>1
  <2>6. Is(g, n + 1)
    BY <2>3, <2>4, <2>5
  <2> QED BY <2>6
<1>3. PICK f : Is(f, N)
  <2> HIDE DEF P
  <2>1. N \in P
    BY <1>1, <1>2, NatSetInduction
  <2> QED BY <2>1 DEF P
<1> QED BY <1>3

Solves(f, N, T, base, step) ==
  /\ f \in [0 .. N -> T]
  /\ f[0] = base
  /\ \A k \in 1 .. N : f[k] = step[<<k, f[k - 1]>>]

LEMMA RecursionSolved ==
  ASSUME NEW N \in Nat, NEW T, NEW base \in T, NEW step \in StepFunctions(N, T)
  PROVE  \E f : Solves(f, N, T, base, step)
<1>1. PICK f \in [0 .. N -> T] :
        f[0] = base /\ \A k \in 1 .. N : f[k] = step[<<k, f[k - 1]>>]
  BY RecursionExists
<1> QED BY <1>1 DEF Solves

-----------------------------------------------------------------------------
(* Finite sets, whose elements are taken one after another *)

\* Induction: a set contains all the parts of S if it contains {} and every part
\* of which it contains those that lack one of its elements.
LEMMA FiniteSetInduction ==
  ASSUME NEW S, IsFiniteSet(S), NEW P, {} \in P,
         \A s \in SUBSET S : s # {} /\ (\A x \in s : s \ {x} \in P) => s \in P
  PROVE  SUBSET S \subseteq P
<1> DEFINE Q == {n \in Nat : \A s \in SUBSET S : Cardinality(s) = n => s \in P}
<1>1. \A s \in SUBSET S : IsFiniteSet(s) /\ Cardinality(s) \in Nat
  BY FS_Subset, FS_CardinalityType
<1>2. 0 \in Q
  BY <1>1, FS_EmptySet
<1>3. ASSUME NEW n \in Nat, n \in Q PROVE n + 1 \in Q
  <2> SUFFICES ASSUME NEW s \in SUBSET S, Cardinality(s) = n + 1 PROVE s \in P
    OBVIOUS
  <2>1. s # {}
    BY <1>1, FS_EmptySet
  <2>2. ASSUME NEW x \in s PROVE s \ {x} \in P
    <3>1. Cardinality(s \ {x}) = n
      BY <1>1, FS_RemoveElement
    <3> QED BY <1>3, <3>1
  <2> QED BY <2>1, <2>2
<1> HIDE DEF Q
<1>4. Nat \subseteq Q
  BY <1>2, <1>3, NatSetInduction
<1> QED BY <1>1, <1>4 DEF Q

SetSteps(S, T) == [S \X T -> T]
Picks(S) == {g \in [(SUBSET S) \ {{}} -> S] : \A s \in (SUBSET S) \ {{}} : g[s] \in s}

SetSolves(f, S, T, base, step, pick) ==
  /\ f \in [SUBSET S -> T]
  /\ f[{}] = base
  /\ \A s \in (SUBSET S) \ {{}} : f[s] = step[<<pick[s], f[s \ {pick[s]}]>>]

\* A recursive definition over the parts of a finite set has a solution.
LEMMA SetRecursionExists ==
  ASSUME NEW S, IsFiniteSet(S), NEW T, NEW base \in T, NEW step \in SetSteps(S, T),
         NEW pick \in Picks(S)
  PROVE  \E f : SetSolves(f, S, T, base, step, pick)
<1> DEFINE Small(n) == {s \in SUBSET S : Cardinality(s) <= n}
           Is(f, n) == /\ f \in [Small(n) -> T]
                       /\ f[{}] = base
                       /\ \A s \in Small(n) \ {{}} : f[s] = step[<<pick[s], f[s \ {pick[s]}]>>]
           Q == {n \in Nat : \E f : Is(f, n)}
<1>1. /\ \A s \in SUBSET S : IsFiniteSet(s) /\ Cardinality(s) \in Nat /\ Cardinality(s) <= Cardinality(S)
      /\ Cardinality(S) \in Nat
  BY FS_Subset, FS_CardinalityType
<1>2. /\ pick \in [(SUBSET S) \ {{}} -> S] /\ \A s \in (SUBSET S) \ {{}} : pick[s] \in s
      /\ step \in [S \X T -> T]
  BY DEF Picks, SetSteps
<1>3. /\ Cardinality({}) = 0 /\ \A n \in Nat : {} \in Small(n)
      /\ \A s \in SUBSET S : Cardinality(s) = 0 => s = {}
  BY <1>1, FS_EmptySet
<1>4. ASSUME NEW s \in (SUBSET S) \ {{}}
      PROVE  /\ s \ {pick[s]} \in SUBSET S /\ Cardinality(s \ {pick[s]}) = Cardinality(s) - 1
             /\ s \ {pick[s]} # s /\ pick[s] \in S
  BY <1>1, <1>2, FS_RemoveElement
<1>5. 0 \in Q
  <2> DEFINE f == [s \in Small(0) |-> base]
  <2>1. \A s \in Small(0) : s = {}
    BY <1>1, <1>3
  <2>2. Is(f, 0)
    BY <1>3, <2>1
  <2> QED BY <2>2
<1>6. ASSUME NEW n \in Nat, n \in Q PROVE n + 1 \in Q
  <2>1. PICK f : Is(f, n)
    BY <1>6
  <2> DEFINE g == [s \in Small(n + 1) |-> IF s \in Small(n) THEN f[s]
                                         ELSE step[<<pick[s], f[s \ {pick[s]}]>>]]
  <2>2. ASSUME NEW s \in Small(n + 1), s # {}
        PROVE  /\ s \ {pick[s]} \in Small(n) /\ s \ {pick[s]} \in Small(n + 1)
               /\ f[s \ {pick[s]}] \in T /\ step[<<pick[s], f[s \ {pick[s]}]>>] \in T
    <3>1. s \ {pick[s]} \in Small(n) /\ s \ {pick[s]} \in Small(n + 1)
      BY <1>1, <1>4, <2>2
    <3>2. f[s \ {pick[s]}] \in T
      BY <2>1, <3>1
    <3>3. pick[s] \in S
      BY <1>4, <2>2
    <3> QED BY <1>2, <3>1, <3>2, <3>3
  <2>3. ASSUME NEW s \in Small(n + 1) PROVE s \in Small(n) \/ s # {}
    BY <1>3
  <2>4. g \in [Small(n + 1) -> T]
    BY <2>1, <2>2, <2>3
  <2>5. g[{}] = base
    BY <1>3, <2>1
  <2>6. ASSUME NEW s \in Small(n + 1) \ {{}} PROVE g[s] = step[<<pick[s], g[s \ {pick[s]}]>>]
    <3>1. g[s \ {pick[s]}] = f[s \ {pick[s]}]
      BY <2>2
    <3>2. g[s] = step[<<pick[s], f[s \ {pick[s]}]>>]
      BY <2>1
    <3> HIDE DEF g
    <3> QED BY <3>1, <3>2
  <2> HIDE DEF g
  <2>7. Is(g, n + 1)
    BY <2>4, <2>5, <2>6
  <2> HIDE DEF Is
  <2>8. \E h : Is(h, n + 1)
    BY <2>7
  <2> QED BY <2>8
<1>7. Cardinality(S) \in Q
  <2> HIDE DEF Q
  <2> QED BY <1>1, <1>5, <1>6, NatSetInduction
<1>8. Small(Cardinality(S)) = SUBSET S
  BY <1>1
<1>9. PICK f : Is(f, Cardinality(S))
  BY <1>7
<1> HIDE DEF Small
<1> QED BY <1>8, <1>9 DEF SetSolves

-----------------------------------------------------------------------------
(* Folds, whose result does not depend on the order of the elements *)

Commutative(op) ==
  /\ op \in [Nat \X Nat -> Nat]
  /\ \A a, b \in Nat : op[<<a, b>>] = op[<<b, a>>]
  /\ \A a, b, c \in Nat : op[<<a, op[<<b, c>>]>>] = op[<<op[<<a, b>>], c>>]

Chosen(s) == CHOOSE x \in s : TRUE

\* f[s] combines the numbers g[x] of the elements of s.
FoldedOver(f, S, g, op, base) ==
  f = [s \in SUBSET S |-> IF s = {} THEN base ELSE op[<<g[Chosen(s)], f[s \ {Chosen(s)}]>>]]

LEMMA FoldExists ==
  ASSUME NEW S, IsFiniteSet(S), NEW g \in [S -> Nat], NEW op, Commutative(op), NEW base \in Nat
  PROVE  \E f \in [SUBSET S -> Nat] : FoldedOver(f, S, g, op, base)
<1> DEFINE T == Nat
           step == [q \in S \X T |-> op[<<g[q[1]], q[2]>>]]
           pick == [s \in (SUBSET S) \ {{}} |-> Chosen(s)]
<1>1. step \in SetSteps(S, T) /\ base \in T
  BY DEF SetSteps, Commutative
<1>2. pick \in Picks(S)
  <2>1. \A s \in (SUBSET S) \ {{}} : Chosen(s) \in s /\ Chosen(s) \in S
    BY DEF Chosen
  <2> QED BY <2>1 DEF Picks
<1> HIDE DEF T, step, pick
<1>3. PICK f : SetSolves(f, S, T, base, step, pick)
  BY <1>1, <1>2, SetRecursionExists
<1>4. f \in [SUBSET S -> T] /\ f[{}] = base
  BY <1>3 DEF SetSolves
<1>5. ASSUME NEW s \in (SUBSET S) \ {{}} PROVE f[s] = op[<<g[Chosen(s)], f[s \ {Chosen(s)}]>>]
  <2>1. pick[s] = Chosen(s)
    BY DEF pick
  <2>2. Chosen(s) \in s /\ Chosen(s) \in S
    BY DEF Chosen
  <2>3. s \ {Chosen(s)} \in SUBSET S
    OBVIOUS
  <2>4. f[s \ {Chosen(s)}] \in T
    BY <1>4, <2>3
  <2>5. f[s] = step[<<Chosen(s), f[s \ {Chosen(s)}]>>]
    BY <1>3, <2>1 DEF SetSolves
  <2> QED BY <2>2, <2>4, <2>5 DEF step
<1>6. FoldedOver(f, S, g, op, base)
  BY <1>4, <1>5 DEF FoldedOver
<1> QED BY <1>4, <1>6 DEF T

LEMMA FoldNat ==
  ASSUME NEW S, IsFiniteSet(S), NEW g \in [S -> Nat], NEW op, Commutative(op), NEW base \in Nat,
         NEW f, FoldedOver(f, S, g, op, base)
  PROVE  f \in [SUBSET S -> Nat]
<1> DEFINE P == {s \in SUBSET S : f[s] \in Nat}
<1>1. /\ DOMAIN f = SUBSET S /\ f[{}] = base
      /\ \A s \in (SUBSET S) \ {{}} : f[s] = op[<<g[Chosen(s)], f[s \ {Chosen(s)}]>>]
  <2>1. {} \in SUBSET S
    OBVIOUS
  <2> QED BY <2>1 DEF FoldedOver
<1>2. {} \in P
  BY <1>1
<1>3. ASSUME NEW s \in SUBSET S, s # {}, \A x \in s : s \ {x} \in P PROVE s \in P
  <2>1. Chosen(s) \in s /\ Chosen(s) \in S
    BY <1>3 DEF Chosen
  <2>2. g[Chosen(s)] \in Nat /\ f[s \ {Chosen(s)}] \in Nat
    BY <1>3, <2>1
  <2>3. f[s] = op[<<g[Chosen(s)], f[s \ {Chosen(s)}]>>]
    BY <1>1, <1>3
  <2> QED BY <2>2, <2>3 DEF Commutative
<1> HIDE DEF P
<1>4. SUBSET S \subseteq P
  BY <1>2, <1>3, FiniteSetInduction
<1>5. f = [s \in SUBSET S |-> f[s]]
  BY DEF FoldedOver
<1> QED BY <1>4, <1>5 DEF P

\* Any of the elements may be taken first.
AnyFirst(f, S, g, op) == \A s \in SUBSET S : \A x \in s : f[s] = op[<<g[x], f[s \ {x}]>>]

LEMMA FoldAny ==
  ASSUME NEW S, IsFiniteSet(S), NEW g \in [S -> Nat], NEW op, Commutative(op), NEW base \in Nat,
         NEW f, FoldedOver(f, S, g, op, base)
  PROVE  AnyFirst(f, S, g, op)
<1> DEFINE P == {s \in SUBSET S : \A x \in s : f[s] = op[<<g[x], f[s \ {x}]>>]}
<1>1. \A s \in (SUBSET S) \ {{}} : f[s] = op[<<g[Chosen(s)], f[s \ {Chosen(s)}]>>]
  BY DEF FoldedOver
<1>2. f \in [SUBSET S -> Nat]
  BY FoldNat
<1>3. {} \in P
  OBVIOUS
<1>4. ASSUME NEW s \in SUBSET S, s # {}, \A x \in s : s \ {x} \in P PROVE s \in P
  <2> SUFFICES ASSUME NEW x \in s PROVE f[s] = op[<<g[x], f[s \ {x}]>>]
    OBVIOUS
  <2> DEFINE y == Chosen(s)
  <2>1. y \in s /\ f[s] = op[<<g[y], f[s \ {y}]>>]
    BY <1>1 DEF Chosen
  <2> HIDE DEF y
  <2>2. CASE x = y
    BY <2>1, <2>2
  <2>3. CASE x # y
    <3> DEFINE t == (s \ {y}) \ {x}
               a == g[x]
               b == g[y]
               c == f[t]
    <3>1. t = (s \ {x}) \ {y} /\ t \in SUBSET S /\ x \in s \ {y} /\ y \in s \ {x}
      BY <2>1, <2>3
    <3>2. a \in Nat /\ b \in Nat /\ c \in Nat
      BY <1>2, <2>1, <3>1
    <3>3. f[s \ {y}] = op[<<a, c>>]
      BY <1>4, <2>1, <3>1
    <3>4. f[s \ {x}] = op[<<b, c>>]
      BY <1>4, <3>1
    <3> HIDE DEF a, b, c, t
    <3>5. op[<<b, op[<<a, c>>]>>] = op[<<a, op[<<b, c>>]>>]
      <4>1. op[<<b, op[<<a, c>>]>>] = op[<<op[<<b, a>>], c>>]
        BY <3>2 DEF Commutative
      <4>2. op[<<a, op[<<b, c>>]>>] = op[<<op[<<a, b>>], c>>]
        BY <3>2 DEF Commutative
      <4>3. op[<<a, b>>] = op[<<b, a>>]
        BY <3>2 DEF Commutative
      <4> QED BY <4>1, <4>2, <4>3
    <3> QED BY <2>1, <3>3, <3>4, <3>5 DEF a, b
  <2> QED BY <2>2, <2>3
<1> HIDE DEF P
<1>5. SUBSET S \subseteq P
  BY <1>3, <1>4, FiniteSetInduction
<1> QED BY <1>5 DEF P, AnyFirst

\* The numbers 1 .. n one after the other.
LEMMA FoldInOrder ==
  ASSUME NEW n \in Nat, NEW g \in [1 .. n -> Nat], NEW op, Commutative(op), NEW base \in Nat,
         NEW f, FoldedOver(f, 1 .. n, g, op, base)
  PROVE  /\ f[{}] = base
         /\ \A k \in 0 .. n : f[1 .. k] \in Nat
         /\ \A k \in 1 .. n : f[1 .. k] = op[<<g[k], f[1 .. k - 1]>>]
<1>1. IsFiniteSet(1 .. n)
  BY FS_Interval
<1>2. f \in [SUBSET (1 .. n) -> Nat]
  BY <1>1, FoldNat
<1>3. AnyFirst(f, 1 .. n, g, op)
  BY <1>1, FoldAny
<1>4. f[{}] = base
  <2>1. {} \in SUBSET (1 .. n)
    OBVIOUS
  <2> QED BY <2>1 DEF FoldedOver
<1>5. \A k \in 0 .. n : f[1 .. k] \in Nat
  <2>1. \A k \in 0 .. n : 1 .. k \in SUBSET (1 .. n)
    OBVIOUS
  <2> QED BY <1>2, <2>1
<1>6. ASSUME NEW k \in 1 .. n PROVE f[1 .. k] = op[<<g[k], f[1 .. k - 1]>>]
  <2>1. 1 .. k \in SUBSET (1 .. n) /\ k \in 1 .. k
    OBVIOUS
  <2>2. (1 .. k) \ {k} = 1 .. k - 1
    OBVIOUS
  <2> QED BY <1>3, <2>1, <2>2 DEF AnyFirst
<1> QED BY <1>4, <1>5, <1>6

Sum == [q \in Nat \X Nat |-> q[1] + q[2]]
Product == [q \in Nat \X Nat |-> q[1] * q[2]]

LEMMA SumCommutative == Commutative(Sum)
BY DEF Commutative, Sum

LEMMA ProductCommutative == Commutative(Product)
<1>1. \A a, b \in Nat : a * b \in Nat /\ a * b = b * a
  OBVIOUS
<1>2. \A a, b, c \in Nat : a * (b * c) = (a * b) * c
  OBVIOUS
<1>3. \A a, b \in Nat : Product[<<a, b>>] = a * b
  BY DEF Product
<1>4. Product \in [Nat \X Nat -> Nat]
  BY <1>1 DEF Product
<1> QED BY <1>1, <1>2, <1>3, <1>4 DEF Commutative

\* f[s] is the sum of the numbers of the elements of s.
Summed(f, S, g) ==
  f = [s \in SUBSET S |-> IF s = {} THEN 0 ELSE g[Chosen(s)] + f[s \ {Chosen(s)}]]

LEMMA SummedExists ==
  ASSUME NEW S, IsFiniteSet(S), NEW g \in [S -> Nat]
  PROVE  \E f : Summed(f, S, g)
<1>1. PICK f \in [SUBSET S -> Nat] : FoldedOver(f, S, g, Sum, 0)
  BY SumCommutative, FoldExists
<1>2. ASSUME NEW s \in (SUBSET S) \ {{}} PROVE f[s] = g[Chosen(s)] + f[s \ {Chosen(s)}]
  <2>1. f[s] = Sum[<<g[Chosen(s)], f[s \ {Chosen(s)}]>>]
    BY <1>1 DEF FoldedOver
  <2>2. Chosen(s) \in S /\ s \ {Chosen(s)} \in SUBSET S
    BY DEF Chosen
  <2> QED BY <2>1, <2>2 DEF Sum
<1>3. f[{}] = 0
  <2>1. {} \in SUBSET S
    OBVIOUS
  <2> QED BY <1>1, <2>1 DEF FoldedOver
<1>4. Summed(f, S, g)
  BY <1>1, <1>2, <1>3 DEF Summed
<1> QED BY <1>4

LEMMA SummedFolded ==
  ASSUME NEW S, IsFiniteSet(S), NEW g \in [S -> Nat], NEW f, Summed(f, S, g)
  PROVE  FoldedOver(f, S, g, Sum, 0)
<1> DEFINE P == {s \in SUBSET S : f[s] \in Nat}
<1>1. /\ f = [s \in SUBSET S |-> f[s]] /\ f[{}] = 0
      /\ \A s \in (SUBSET S) \ {{}} : f[s] = g[Chosen(s)] + f[s \ {Chosen(s)}]
  <2>1. {} \in SUBSET S
    OBVIOUS
  <2> QED BY <2>1 DEF Summed
<1>2. {} \in P
  BY <1>1
<1>3. ASSUME NEW s \in SUBSET S, s # {}, \A x \in s : s \ {x} \in P PROVE s \in P
  <2>1. Chosen(s) \in s /\ Chosen(s) \in S
    BY <1>3 DEF Chosen
  <2> DEFINE a == g[Chosen(s)]
             b == f[s \ {Chosen(s)}]
  <2>2. a \in Nat /\ b \in Nat
    BY <1>3, <2>1
  <2>3. f[s] = a + b
    BY <1>1, <1>3
  <2> HIDE DEF a, b
  <2>4. a + b \in Nat
    BY <2>2
  <2> QED BY <2>3, <2>4
<1> HIDE DEF P
<1>4. SUBSET S \subseteq P
  BY <1>2, <1>3, FiniteSetInduction
<1>5. ASSUME NEW s \in (SUBSET S) \ {{}}
      PROVE  f[s] = Sum[<<g[Chosen(s)], f[s \ {Chosen(s)}]>>]
  <2>1. Chosen(s) \in S /\ s \ {Chosen(s)} \in SUBSET S
    BY DEF Chosen
  <2>2. f[s \ {Chosen(s)}] \in Nat
    BY <1>4, <2>1 DEF P
  <2> QED BY <1>1, <2>1, <2>2 DEF Sum
<1> QED BY <1>1, <1>5 DEF FoldedOver

LEMMA SummedInOrder ==
  ASSUME NEW n \in Nat, NEW g \in [1 .. n -> Nat], NEW f, Summed(f, 1 .. n, g)
  PROVE  /\ f[{}] = 0
         /\ \A k \in 0 .. n : f[1 .. k] \in Nat
         /\ \A k \in 1 .. n : f[1 .. k] = g[k] + f[1 .. k - 1]
<1>1. FoldedOver(f, 1 .. n, g, Sum, 0)
  <2>1. IsFiniteSet(1 .. n)
    BY FS_Interval
  <2> QED BY <2>1, SummedFolded
<1>2. /\ f[{}] = 0
      /\ \A k \in 0 .. n : f[1 .. k] \in Nat
      /\ \A k \in 1 .. n : f[1 .. k] = Sum[<<g[k], f[1 .. k - 1]>>]
  BY <1>1, SumCommutative, FoldInOrder
<1>3. ASSUME NEW k \in 1 .. n PROVE f[1 .. k] = g[k] + f[1 .. k - 1]
  <2>1. k - 1 \in 0 .. n
    OBVIOUS
  <2>2. f[1 .. k - 1] \in Nat /\ g[k] \in Nat
    BY <1>2, <2>1
  <2> QED BY <1>2, <2>2 DEF Sum
<1> QED BY <1>2, <1>3

\* f[s] is their product.
Multiplied(f, S, g) ==
  f = [s \in SUBSET S |-> IF s = {} THEN 1 ELSE g[Chosen(s)] * f[s \ {Chosen(s)}]]

LEMMA MultipliedExists ==
  ASSUME NEW S, IsFiniteSet(S), NEW g \in [S -> Nat]
  PROVE  \E f : Multiplied(f, S, g)
<1>1. PICK f \in [SUBSET S -> Nat] : FoldedOver(f, S, g, Product, 1)
  BY ProductCommutative, FoldExists
<1>2. ASSUME NEW s \in (SUBSET S) \ {{}} PROVE f[s] = g[Chosen(s)] * f[s \ {Chosen(s)}]
  <2>1. f[s] = Product[<<g[Chosen(s)], f[s \ {Chosen(s)}]>>]
    BY <1>1 DEF FoldedOver
  <2>2. Chosen(s) \in S /\ s \ {Chosen(s)} \in SUBSET S
    BY DEF Chosen
  <2> QED BY <2>1, <2>2 DEF Product
<1>3. f[{}] = 1
  <2>1. {} \in SUBSET S
    OBVIOUS
  <2> QED BY <1>1, <2>1 DEF FoldedOver
<1>4. Multiplied(f, S, g)
  BY <1>1, <1>2, <1>3 DEF Multiplied
<1> QED BY <1>4

LEMMA MultipliedFolded ==
  ASSUME NEW S, IsFiniteSet(S), NEW g \in [S -> Nat], NEW f, Multiplied(f, S, g)
  PROVE  FoldedOver(f, S, g, Product, 1)
<1> DEFINE P == {s \in SUBSET S : f[s] \in Nat}
<1>1. /\ f = [s \in SUBSET S |-> f[s]] /\ f[{}] = 1
      /\ \A s \in (SUBSET S) \ {{}} : f[s] = g[Chosen(s)] * f[s \ {Chosen(s)}]
  <2>1. {} \in SUBSET S
    OBVIOUS
  <2> QED BY <2>1 DEF Multiplied
<1>2. {} \in P
  BY <1>1
<1>3. ASSUME NEW s \in SUBSET S, s # {}, \A x \in s : s \ {x} \in P PROVE s \in P
  <2>1. Chosen(s) \in s /\ Chosen(s) \in S
    BY <1>3 DEF Chosen
  <2> DEFINE a == g[Chosen(s)]
             b == f[s \ {Chosen(s)}]
  <2>2. a \in Nat /\ b \in Nat
    BY <1>3, <2>1
  <2>3. f[s] = a * b
    BY <1>1, <1>3
  <2> HIDE DEF a, b
  <2>4. a * b \in Nat
    BY <2>2
  <2> QED BY <2>3, <2>4
<1> HIDE DEF P
<1>4. SUBSET S \subseteq P
  BY <1>2, <1>3, FiniteSetInduction
<1>5. ASSUME NEW s \in (SUBSET S) \ {{}}
      PROVE  f[s] = Product[<<g[Chosen(s)], f[s \ {Chosen(s)}]>>]
  <2>1. Chosen(s) \in S /\ s \ {Chosen(s)} \in SUBSET S
    BY DEF Chosen
  <2>2. f[s \ {Chosen(s)}] \in Nat
    BY <1>4, <2>1 DEF P
  <2> QED BY <1>1, <2>1, <2>2 DEF Product
<1> QED BY <1>1, <1>5 DEF FoldedOver

LEMMA MultipliedInOrder ==
  ASSUME NEW n \in Nat, NEW g \in [1 .. n -> Nat], NEW f, Multiplied(f, 1 .. n, g)
  PROVE  /\ f[{}] = 1
         /\ \A k \in 0 .. n : f[1 .. k] \in Nat
         /\ \A k \in 1 .. n : f[1 .. k] = g[k] * f[1 .. k - 1]
<1>1. FoldedOver(f, 1 .. n, g, Product, 1)
  <2>1. IsFiniteSet(1 .. n)
    BY FS_Interval
  <2> QED BY <2>1, MultipliedFolded
<1>2. /\ f[{}] = 1
      /\ \A k \in 0 .. n : f[1 .. k] \in Nat
      /\ \A k \in 1 .. n : f[1 .. k] = Product[<<g[k], f[1 .. k - 1]>>]
  BY <1>1, ProductCommutative, FoldInOrder
<1>3. ASSUME NEW k \in 1 .. n PROVE f[1 .. k] = g[k] * f[1 .. k - 1]
  <2>1. k - 1 \in 0 .. n
    OBVIOUS
  <2>2. f[1 .. k - 1] \in Nat /\ g[k] \in Nat
    BY <1>2, <2>1
  <2> QED BY <1>2, <2>2 DEF Product
<1> QED BY <1>2, <1>3

-----------------------------------------------------------------------------
(* Greatest elements and digits *)

\* A finite set of numbers that is not empty has a greatest element.
LEMMA GreatestNumber ==
  ASSUME NEW S, IsFiniteSet(S), S \subseteq Int, S # {}
  PROVE  \E x \in S : \A y \in S : x >= y
<1> DEFINE P == {s \in SUBSET S : s = {} \/ \E x \in s : \A y \in s : x >= y}
<1>1. {} \in P
  OBVIOUS
<1>2. ASSUME NEW s \in SUBSET S, NEW x \in s, s \ {x} \in P PROVE s \in P
  <2>1. CASE s \ {x} = {}
    <3>1. \A y \in s : x >= y
      BY <2>1
    <3> QED BY <3>1
  <2>2. CASE s \ {x} # {}
    <3>1. PICK z \in s \ {x} : \A y \in s \ {x} : z >= y
      BY <1>2, <2>2
    <3>2. CASE z >= x
      <4>1. \A y \in s : z >= y
        BY <3>1, <3>2
      <4> QED BY <4>1
    <3>3. CASE x >= z
      <4>1. \A y \in s : x >= y
        BY <3>1, <3>3
      <4> QED BY <4>1
    <3>4. x \in Int /\ z \in Int
      OBVIOUS
    <3> QED BY <3>2, <3>3, <3>4
  <2> QED BY <2>1, <2>2
<1> HIDE DEF P
<1>3. SUBSET S \subseteq P
  BY ZenonT(30), <1>1, <1>2, FiniteSetInduction
<1> QED BY <1>3 DEF P

LEMMA TimesMonotone ==
  ASSUME NEW a \in Nat, NEW b \in Nat, NEW c \in Nat, b <= c
  PROVE  a * b \in Nat /\ a * b <= a * c
<1>1. PICK d \in Nat : c = b + d
  <2>1. c - b \in Nat /\ c = b + (c - b)
    OBVIOUS
  <2> QED BY <2>1
<1>2. a * b \in Nat /\ a * d \in Nat /\ a * c = a * b + a * d
  BY <1>1
<1> QED BY <1>2

\* A digit and what is below it are determined by the number.
LEMMA DigitUnique ==
  ASSUME NEW s \in Nat, NEW a \in Nat, NEW b \in Nat, NEW x \in Nat, NEW y \in Nat,
         a < s, b < s, a + x * s = b + y * s
  PROVE  a = b /\ x = y
<1>1. ASSUME NEW u \in Nat, NEW v \in Nat, NEW c \in Nat, NEW d \in Nat,
             c < s, c + u * s = d + v * s, u < v
      PROVE  FALSE
  <2>1. s * (u + 1) <= s * v
    BY <1>1, TimesMonotone
  <2>2. s * (u + 1) = u * s + s /\ s * v = v * s /\ u * s \in Nat /\ v * s \in Nat
    OBVIOUS
  <2> QED BY <1>1, <2>1, <2>2
<1>2. ~ x < y /\ ~ y < x
  BY <1>1
<1>3. x = y
  BY <1>2
<1> QED BY <1>3
=============================================================================
