-------------------------- MODULE ControlFlowProofs --------------------------
(***************************************************************************)
(* Lemmas about programs of any length: what is exposed at a point, and    *)
(* what the passes keep when they rename, merge and remove.                *)
(***************************************************************************)
EXTENDS ControlFlow, Induction

-----------------------------------------------------------------------------
(* The reference definition of liveness satisfies the equation of the        *)
(* backward walk, and so does Liveness.                                      *)

\* Nothing is exposed at the final point.
LEMMA NothingExposedAtEnd ==
  ASSUME NEW S, NEW prog \in Seq(S)
  PROVE  UpwardExposed(prog, Len(prog) + 1) = {}
BY DEF UpwardExposed

\* What is exposed before an action is what it reads and what is exposed
\* after it and not written by it.
LEMMA ExposedStep ==
  ASSUME NEW S, NEW prog \in Seq(S), NEW k \in 1 .. Len(prog)
  PROVE  UpwardExposed(prog, k) =
           (UpwardExposed(prog, k + 1) \ {Def(prog[k])}) \cup variables(prog[k])
<1> DEFINE Read(n, from) ==
      \E j \in from .. Len(prog) : /\ n \in variables(prog[j])
                                   /\ \A m \in from .. j - 1 : Def(prog[m]) # n
<1>1. \A n : n \in variables(prog[k]) => Read(n, k)
  OBVIOUS
<1>2. ASSUME NEW n, Read(n, k + 1), n # Def(prog[k])
      PROVE  Read(n, k)
  <2>1. PICK j \in k + 1 .. Len(prog) :
          n \in variables(prog[j]) /\ \A m \in k + 1 .. j - 1 : Def(prog[m]) # n
    BY <1>2
  <2>2. \A m \in k .. j - 1 : Def(prog[m]) # n
    BY <1>2, <2>1
  <2>3. j \in k .. Len(prog)
    BY <2>1
  <2> QED
    BY <2>1, <2>2, <2>3
<1>3. ASSUME NEW n, Read(n, k), n \notin variables(prog[k])
      PROVE  n # Def(prog[k]) /\ Read(n, k + 1)
  <2>1. PICK j \in k .. Len(prog) :
          n \in variables(prog[j]) /\ \A m \in k .. j - 1 : Def(prog[m]) # n
    BY <1>3
  <2>2. j \in k + 1 .. Len(prog)
    BY <1>3, <2>1
  <2>3. k \in k .. j - 1
    BY <2>2
  <2> QED
    BY <2>1, <2>2, <2>3
<1>4. \A n, from : n \in UpwardExposed(prog, from) <=>
                     /\ n \in UNION {variables(prog[j]) : j \in DOMAIN prog}
                     /\ Read(n, from)
  BY DEF UpwardExposed
<1>5. \A n : n \in variables(prog[k]) =>
               n \in UNION {variables(prog[j]) : j \in DOMAIN prog}
  OBVIOUS
<1> HIDE DEF Read
<1> QED
  BY <1>1, <1>2, <1>3, <1>4, <1>5

\* The function that the walk computes is the reference definition.
LEMMA LivenessExact ==
  ASSUME NEW S, NEW prog \in Seq(S)
  PROVE  Liveness(prog) = [k \in 1 .. Len(prog) + 1 |-> UpwardExposed(prog, k)]
<1> DEFINE n == Len(prog)
           Eqn(b) == b = [k \in 0 .. n |->
                            IF k = 0 THEN {}
                            ELSE (b[k - 1] \ {Def(prog[n + 1 - k])}) \cup variables(prog[n + 1 - k])]
           exposed == [k \in 0 .. n |-> UpwardExposed(prog, n + 1 - k)]
           back == CHOOSE b : Eqn(b)
<1>1. n \in Nat
  OBVIOUS
<1>2. exposed[0] = {}
  BY <1>1, NothingExposedAtEnd
<1>3. ASSUME NEW k \in 1 .. n
      PROVE  exposed[k] = (exposed[k - 1] \ {Def(prog[n + 1 - k])}) \cup variables(prog[n + 1 - k])
  <2>1. n + 1 - k \in 1 .. Len(prog) /\ n + 1 - (k - 1) = (n + 1 - k) + 1
    BY <1>1
  <2>2. k \in 0 .. n /\ k - 1 \in 0 .. n
    BY <1>1
  <2> QED BY <2>1, <2>2, ExposedStep
<1>4. Eqn(exposed)
  <2>1. \A k \in 0 .. n : k = 0 \/ k \in 1 .. n
    BY <1>1
  <2> HIDE DEF n
  <2> QED BY <1>2, <1>3, <2>1
<1> HIDE DEF exposed
<1>5. Eqn(back)
  BY <1>4
<1> HIDE DEF back
<1>6. \A k \in 0 .. n : back[k] = exposed[k]
  <2> DEFINE P == {k \in Nat : k <= n => back[k] = exposed[k]}
  <2>1. 0 \in P
    BY <1>1, <1>2, <1>5
  <2>2. ASSUME NEW k \in Nat, k \in P PROVE k + 1 \in P
    <3> SUFFICES ASSUME k + 1 <= n PROVE back[k + 1] = exposed[k + 1]
      OBVIOUS
    <3>1. k + 1 \in 1 .. n /\ k + 1 \in 0 .. n /\ (k + 1) - 1 = k /\ k + 1 # 0
      BY <1>1
    <3>2. back[k] = exposed[k]
      BY <2>2, <3>1
    <3> DEFINE m == k + 1
    <3>3. back[m] = (back[m - 1] \ {Def(prog[n + 1 - m])}) \cup variables(prog[n + 1 - m])
      BY <1>5, <3>1
    <3> QED BY <1>3, <3>1, <3>2, <3>3
  <2> HIDE DEF P
  <2>3. Nat \subseteq P
    BY <2>1, <2>2, NatSetInduction
  <2> QED BY <1>1, <2>3 DEF P
<1>7. Liveness(prog) = [j \in 1 .. n + 1 |-> back[n + 1 - j]]
  BY DEF Liveness, back
<1>8. ASSUME NEW j \in 1 .. n + 1 PROVE back[n + 1 - j] = UpwardExposed(prog, j)
  <2>1. n + 1 - j \in 0 .. n /\ n + 1 - (n + 1 - j) = j
    BY <1>1
  <2> QED BY <1>6, <2>1 DEF exposed
<1> QED BY <1>7, <1>8

-----------------------------------------------------------------------------
(* How a program uses its temporaries *)

occurring(a) == variables(a) \cup {Def(a)}

\* A temporary is read wherever it occurs, but for the first time, when it is
\* only written.
LocalsFlow(prog) ==
  \A k \in 1 .. Len(prog) : \A n \in occurring(prog[k]) :
    isLocal(n) => (n \in variables(prog[k]) <=> \E j \in 1 .. k - 1 : n \in occurring(prog[j]))

\* A temporary that another variable is computed from does not occur again.
ConsumedLast(prog) ==
  \A k \in 1 .. Len(prog) : \A n \in TermNames(prog[k].term) :
    isLocal(n) /\ n # Def(prog[k]) => \A j \in k + 1 .. Len(prog) : n \notin occurring(prog[j])

\* A temporary is not added to itself.
NoSelfSum(prog) ==
  \A k \in 1 .. Len(prog) :
    isCompound(prog[k]) /\ isLocal(Def(prog[k])) => Def(prog[k]) \notin TermNames(prog[k].term)

Flow(prog) == LocalsFlow(prog) /\ ConsumedLast(prog) /\ NoSelfSum(prog)

\* A temporary that occurred before and occurs again is live in between.
LEMMA FlowExposed ==
  ASSUME NEW S, NEW prog \in Seq(S), LocalsFlow(prog),
         NEW k \in 1 .. Len(prog) + 1, NEW n, isLocal(n),
         NEW before \in 1 .. k - 1, n \in occurring(prog[before]),
         NEW after \in k .. Len(prog), n \in occurring(prog[after])
  PROVE  n \in UpwardExposed(prog, k)
<1> DEFINE T == {j \in k .. Len(prog) : n \in occurring(prog[j])}
<1>1. PICK j \in T : \A m \in T : j <= m
  <2>1. T \in SUBSET Nat /\ T # {}
    OBVIOUS
  <2> HIDE DEF T
  <2> QED BY <2>1, LeastNumber
<1>2. j \in 1 .. Len(prog) /\ before \in 1 .. j - 1 /\ n \in occurring(prog[j])
  OBVIOUS
<1>3. n \in variables(prog[j])
  BY <1>2 DEF LocalsFlow
<1>4. \A m \in k .. j - 1 : Def(prog[m]) # n
  <2> SUFFICES ASSUME NEW m \in k .. j - 1, Def(prog[m]) = n PROVE FALSE
    OBVIOUS
  <2>1. m \in T
    BY DEF occurring
  <2> QED BY <1>1, <2>1
<1> QED BY <1>2, <1>3, <1>4 DEF UpwardExposed

\* No temporary is read before it is written.
LEMMA FlowInitialised ==
  ASSUME NEW S, NEW prog \in Seq(S), LocalsFlow(prog)
  PROVE  UpwardExposed(prog, 1) \subseteq Tensor
<1> SUFFICES ASSUME NEW n \in UpwardExposed(prog, 1), isLocal(n) PROVE FALSE
  BY DEF isLocal
<1>1. PICK j \in 1 .. Len(prog) : /\ n \in variables(prog[j])
                                 /\ \A m \in 1 .. j - 1 : Def(prog[m]) # n
  BY DEF UpwardExposed
<1> DEFINE T == {m \in 1 .. Len(prog) : n \in occurring(prog[m])}
<1>2. PICK m \in T : \A l \in T : m <= l
  <2>1. T \in SUBSET Nat /\ j \in T
    BY <1>1 DEF occurring
  <2> HIDE DEF T
  <2> QED BY <2>1, LeastNumber
<1>3. \A l \in 1 .. m - 1 : n \notin occurring(prog[l])
  BY <1>2
<1>4. n \notin variables(prog[m])
  BY <1>3 DEF LocalsFlow
<1>5. Def(prog[m]) = n /\ m \in 1 .. j
  BY <1>1, <1>2, <1>4 DEF occurring
<1>6. m = j
  BY <1>1, <1>5
<1> QED BY <1>1, <1>4, <1>6

-----------------------------------------------------------------------------
(* Renaming *)

ren(n, t, x) == IF n = t THEN x ELSE n

\* b is a with t renamed to x in its operands, and in its result.
OperandsRenamed(a, b, t, x) ==
  /\ b.add = a.add
  /\ TermNames(b.term) = {ren(n, t, x) : n \in TermNames(a.term)}
Renamed(a, b, t, x) == OperandsRenamed(a, b, t, x) /\ Def(b) = ren(Def(a), t, x)

LEMMA RenamedNames ==
  ASSUME NEW a, NEW b, NEW t, NEW x, t # x, Renamed(a, b, t, x)
  PROVE  /\ t \notin occurring(b)
         /\ \A n : n # t /\ n # x =>
              /\ n \in variables(b) <=> n \in variables(a)
              /\ n \in TermNames(b.term) <=> n \in TermNames(a.term)
              /\ n \in occurring(b) <=> n \in occurring(a)
         /\ x \in variables(b) <=> x \in variables(a) \/ t \in variables(a)
         /\ x \in TermNames(b.term) <=> x \in TermNames(a.term) \/ t \in TermNames(a.term)
         /\ x \in occurring(b) <=> x \in occurring(a) \/ t \in occurring(a)
<1>1. Def(b) = ren(Def(a), t, x) /\ b.add = a.add
  BY DEF Renamed, OperandsRenamed
<1>2. \A n : n \in TermNames(b.term) <=> \E m \in TermNames(a.term) : n = ren(m, t, x)
  BY DEF Renamed, OperandsRenamed
<1>3. \A n :
        /\ n \in variables(a) <=> n \in TermNames(a.term) \/ (a.add /\ n = Def(a))
        /\ n \in variables(b) <=> n \in TermNames(b.term) \/ (b.add /\ n = Def(b))
        /\ n \in occurring(a) <=> n \in TermNames(a.term) \/ n = Def(a)
        /\ n \in occurring(b) <=> n \in TermNames(b.term) \/ n = Def(b)
  BY DEF occurring, variables, Def
<1>4. /\ t \notin TermNames(b.term)
      /\ \A n : n # t /\ n # x => (n \in TermNames(b.term) <=> n \in TermNames(a.term))
      /\ x \in TermNames(b.term) <=> x \in TermNames(a.term) \/ t \in TermNames(a.term)
  BY <1>2 DEF ren
<1>5. /\ Def(b) # t
      /\ \A n : n # t /\ n # x => (n = Def(b) <=> n = Def(a))
      /\ x = Def(b) <=> x = Def(a) \/ t = Def(a)
  BY <1>1 DEF ren
<1> QED BY <1>1, <1>3, <1>4, <1>5

\* t = x: x takes the place of t from here on.
LEMMA FlowForward ==
  ASSUME NEW S, NEW prog \in Seq(S), NEW new \in Seq(S), Len(new) = Len(prog), Flow(prog),
         NEW k \in 1 .. Len(prog), NEW t, NEW x, t # x, isLocal(t),
         Def(prog[k]) = t, ~ isCompound(prog[k]), TermNames(prog[k].term) = {x},
         isLocal(x) => \A j \in k + 1 .. Len(prog) : x \notin occurring(prog[j]),
         \A j \in 1 .. k - 1 : new[j] = prog[j],
         \A j \in k .. Len(prog) : Renamed(prog[j], new[j], t, x)
  PROVE  Flow(new)
<1> USE DEF isCompound
<1>1. x \in variables(prog[k]) /\ t \in occurring(prog[k]) /\ variables(prog[k]) = {x}
  BY DEF occurring, variables
<1>2. \A j \in k + 1 .. Len(prog) : t \in occurring(prog[j]) => t \in variables(prog[j])
  BY <1>1 DEF Flow, LocalsFlow
<1>3. \A j \in 1 .. k - 1 : t \notin occurring(prog[j])
  BY <1>1 DEF Flow, LocalsFlow
<1>4. isLocal(x) => \E j \in 1 .. k - 1 : x \in occurring(prog[j])
  BY <1>1 DEF Flow, LocalsFlow, occurring
<1>5. \A j \in k .. Len(prog) :
        /\ t \notin occurring(new[j])
        /\ \A n : n # t /\ n # x =>
             /\ n \in variables(new[j]) <=> n \in variables(prog[j])
             /\ n \in TermNames(new[j].term) <=> n \in TermNames(prog[j].term)
             /\ n \in occurring(new[j]) <=> n \in occurring(prog[j])
        /\ x \in variables(new[j]) <=> x \in variables(prog[j]) \/ t \in variables(prog[j])
        /\ x \in TermNames(new[j].term) <=> x \in TermNames(prog[j].term) \/ t \in TermNames(prog[j].term)
        /\ x \in occurring(new[j]) <=> x \in occurring(prog[j]) \/ t \in occurring(prog[j])
        /\ new[j].add = prog[j].add
        /\ Def(new[j]) = IF Def(prog[j]) = t THEN x ELSE Def(prog[j])
  <2> TAKE j \in k .. Len(prog)
  <2>1. Renamed(prog[j], new[j], t, x)
    OBVIOUS
  <2>2. /\ new[j].add = prog[j].add
        /\ Def(new[j]) = IF Def(prog[j]) = t THEN x ELSE Def(prog[j])
    BY <2>1 DEF Renamed, OperandsRenamed, ren
  <2> QED BY <2>1, <2>2, RenamedNames
<1>6. \A j \in 1 .. Len(prog) : j \in 1 .. k - 1 \/ j \in k .. Len(prog)
  OBVIOUS
<1>7. LocalsFlow(new)
  <2> SUFFICES ASSUME NEW j \in 1 .. Len(prog), NEW n \in occurring(new[j]), isLocal(n)
               PROVE  n \in variables(new[j]) <=> \E l \in 1 .. j - 1 : n \in occurring(new[l])
    BY DEF LocalsFlow
  <2>1. CASE j \in 1 .. k - 1
    <3>1. new[j] = prog[j] /\ \A l \in 1 .. j - 1 : new[l] = prog[l]
      BY <2>1
    <3> QED BY <3>1 DEF Flow, LocalsFlow
  <2>2. CASE j \in k .. Len(prog) /\ n # x
    <3>1. n # t /\ (n \in variables(new[j]) <=> n \in variables(prog[j])) /\ n \in occurring(prog[j])
      BY <1>5, <2>2
    <3>2. \A l \in 1 .. j - 1 : n \in occurring(new[l]) <=> n \in occurring(prog[l])
      <4> TAKE l \in 1 .. j - 1
      <4>1. l \in 1 .. k - 1 \/ l \in k .. Len(prog)
        OBVIOUS
      <4> QED BY <1>5, <2>2, <3>1, <4>1
    <3> QED BY <3>1, <3>2 DEF Flow, LocalsFlow
  <2>3. CASE j \in k .. Len(prog) /\ n = x
    <3>1. PICK l \in 1 .. k - 1 : x \in occurring(new[l])
      BY <1>4, <2>3
    <3>2. l \in 1 .. j - 1
      BY <2>3
    <3>3. x \in variables(new[j])
      BY <1>1, <1>2, <1>5, <2>3
    <3> QED BY <2>3, <3>1, <3>2, <3>3
  <2> QED BY <1>6, <2>1, <2>2, <2>3
<1>8. ConsumedLast(new)
  <2> SUFFICES ASSUME NEW j \in 1 .. Len(prog), NEW n \in TermNames(new[j].term),
                      isLocal(n), n # Def(new[j]), NEW l \in j + 1 .. Len(prog)
               PROVE  n \notin occurring(new[l])
    BY DEF ConsumedLast
  <2>1. l \in 1 .. Len(prog)
    OBVIOUS
  <2>2. CASE n # x
    <3>1. n \in TermNames(prog[j].term) /\ n # Def(prog[j]) /\ (n # t \/ j \in 1 .. k - 1)
      <4>1. CASE j \in 1 .. k - 1
        BY <4>1
      <4>2. CASE j \in k .. Len(prog)
        <5>1. n # t
          BY <1>5, <4>2 DEF occurring, variables
        <5> QED BY <1>5, <2>2, <4>2, <5>1
      <4> QED BY <1>6, <4>1, <4>2
    <3>2. n \notin occurring(prog[l])
      BY <3>1 DEF Flow, ConsumedLast
    <3>3. n # t
      BY <1>3, <3>1 DEF occurring, variables
    <3> QED BY <1>5, <1>6, <2>1, <2>2, <3>2, <3>3
  <2>3. CASE n = x
    <3>1. j \in k + 1 .. Len(prog)
      <4>1. j # k
        BY <1>5, <2>3
      <4>2. ASSUME j \in 1 .. k - 1 PROVE FALSE
        <5>1. x \in TermNames(prog[j].term) /\ x # Def(prog[j]) /\ k \in j + 1 .. Len(prog)
          BY <2>3, <4>2
        <5>2. x \notin occurring(prog[k])
          BY <2>3, <5>1 DEF Flow, ConsumedLast
        <5> QED BY <1>1, <5>2 DEF occurring
      <4> QED BY <4>1, <4>2
    <3>2. x \notin occurring(prog[j]) /\ x \notin occurring(prog[l])
      BY <2>3, <3>1
    <3>3. t \in TermNames(prog[j].term) /\ Def(prog[j]) # t
      BY <1>5, <2>3, <3>1, <3>2 DEF occurring, variables
    <3>4. t \notin occurring(prog[l])
      BY <3>3 DEF Flow, ConsumedLast
    <3> QED BY <1>5, <2>3, <3>1, <3>2, <3>4
  <2> QED BY <2>2, <2>3
<1>9. NoSelfSum(new)
  <2> SUFFICES ASSUME NEW j \in 1 .. Len(prog), new[j].add, isLocal(Def(new[j])),
                      Def(new[j]) \in TermNames(new[j].term)
               PROVE  FALSE
    BY DEF NoSelfSum
  <2>1. CASE j \in 1 .. k - 1
    BY <2>1 DEF Flow, NoSelfSum
  <2>2. CASE j \in k .. Len(prog) /\ Def(new[j]) # x
    BY <1>5, <2>2 DEF Flow, NoSelfSum
  <2>3. CASE j \in k .. Len(prog) /\ Def(new[j]) = x
    <3>1. j \in k + 1 .. Len(prog)
      BY <1>5, <2>3
    <3>2. x \notin occurring(prog[j])
      BY <2>3, <3>1
    <3>3. Def(prog[j]) = t /\ t \in TermNames(prog[j].term)
      BY <1>5, <2>3, <3>2 DEF occurring, variables
    <3> QED BY <1>5, <2>3, <3>3 DEF Flow, NoSelfSum
  <2> QED BY <1>6, <2>1, <2>2, <2>3
<1> QED BY <1>7, <1>8, <1>9 DEF Flow

\* Flow is about names only.
LEMMA FlowSame ==
  ASSUME NEW S, NEW prog \in Seq(S), NEW new \in Seq(S), Len(new) = Len(prog), Flow(prog),
         \A j \in 1 .. Len(prog) : /\ new[j].add = prog[j].add
                                   /\ TermNames(new[j].term) = TermNames(prog[j].term)
                                   /\ Def(new[j]) = Def(prog[j])
  PROVE  Flow(new)
<1>1. \A j \in 1 .. Len(prog) : /\ variables(new[j]) = variables(prog[j])
                                /\ occurring(new[j]) = occurring(prog[j])
  BY DEF occurring, variables, Def
<1>2. LocalsFlow(new)
  BY <1>1 DEF Flow, LocalsFlow
<1>3. ConsumedLast(new)
  BY <1>1 DEF Flow, ConsumedLast
<1>4. NoSelfSum(new)
  BY DEF Flow, NoSelfSum, isCompound
<1> QED BY <1>2, <1>3, <1>4 DEF Flow

\* x = t: t is computed in x from its definition found on.
LEMMA FlowBackward ==
  ASSUME NEW S, NEW prog \in Seq(S), NEW new \in Seq(S), Len(new) = Len(prog), Flow(prog),
         NEW k \in 1 .. Len(prog), NEW t, NEW x, t # x, isLocal(t),
         Def(prog[k]) = x, ~ isCompound(prog[k]), TermNames(prog[k].term) = {t},
         NEW found \in 1 .. k - 1, Def(prog[found]) = t, ~ isCompound(prog[found]),
         x \notin UpwardExposed(prog, found),
         \A j \in 1 .. found - 1 : new[j] = prog[j],
         \A j \in k + 1 .. Len(prog) : new[j] = prog[j],
         new[found].add = prog[found].add,
         TermNames(new[found].term) = TermNames(prog[found].term),
         Def(new[found]) = x,
         \A j \in found + 1 .. k : Renamed(prog[j], new[j], t, x)
  PROVE  Flow(new)
<1> USE DEF isCompound
<1>1. /\ variables(prog[k]) = {t} /\ t \in occurring(prog[k]) /\ x \in occurring(prog[k])
      /\ found \in 1 .. Len(prog) /\ k \in found + 1 .. Len(prog)
      /\ variables(prog[found]) = TermNames(prog[found].term)
      /\ variables(new[found]) = TermNames(prog[found].term)
      /\ occurring(prog[found]) = TermNames(prog[found].term) \cup {t}
      /\ occurring(new[found]) = TermNames(prog[found].term) \cup {x}
  BY DEF occurring, variables, Def
<1>2. \A j \in k + 1 .. Len(prog) : t \notin occurring(prog[j])
  BY <1>1 DEF Flow, ConsumedLast
<1>3. x \notin TermNames(prog[found].term)
  <2> SUFFICES ASSUME x \in TermNames(prog[found].term) PROVE FALSE
    OBVIOUS
  <2>1. x \in variables(prog[found])
    BY <1>1
  <2>2. x \in UNION {variables(prog[j]) : j \in DOMAIN prog}
    BY <1>1, <2>1
  <2> QED BY <1>1, <2>1, <2>2 DEF UpwardExposed
<1>4. isLocal(x) => \A j \in 1 .. k - 1 : x \notin occurring(prog[j])
  <2> SUFFICES ASSUME isLocal(x), NEW j \in 1 .. k - 1, x \in occurring(prog[j])
               PROVE  FALSE
    OBVIOUS
  <2>1. x \in variables(prog[k])
    BY DEF Flow, LocalsFlow, occurring
  <2> QED BY <1>1, <2>1
<1>5. \A j \in found + 1 .. k :
        /\ t \notin occurring(new[j])
        /\ \A n : n # t /\ n # x =>
             /\ n \in variables(new[j]) <=> n \in variables(prog[j])
             /\ n \in TermNames(new[j].term) <=> n \in TermNames(prog[j].term)
             /\ n \in occurring(new[j]) <=> n \in occurring(prog[j])
        /\ x \in variables(new[j]) <=> x \in variables(prog[j]) \/ t \in variables(prog[j])
        /\ x \in TermNames(new[j].term) <=> x \in TermNames(prog[j].term) \/ t \in TermNames(prog[j].term)
        /\ x \in occurring(new[j]) <=> x \in occurring(prog[j]) \/ t \in occurring(prog[j])
        /\ new[j].add = prog[j].add
        /\ Def(new[j]) = IF Def(prog[j]) = t THEN x ELSE Def(prog[j])
  <2> TAKE j \in found + 1 .. k
  <2>1. Renamed(prog[j], new[j], t, x)
    OBVIOUS
  <2>2. /\ new[j].add = prog[j].add
        /\ Def(new[j]) = IF Def(prog[j]) = t THEN x ELSE Def(prog[j])
    BY <2>1 DEF Renamed, OperandsRenamed, ren
  <2> QED BY <2>1, <2>2, RenamedNames
<1>6. \A j \in 1 .. Len(prog) : \/ j \in 1 .. found - 1 \/ j = found
                                \/ j \in found + 1 .. k \/ j \in k + 1 .. Len(prog)
  OBVIOUS
<1>7. \A j \in 1 .. Len(prog) : \A n : n # t /\ n # x =>
        /\ n \in variables(new[j]) <=> n \in variables(prog[j])
        /\ n \in TermNames(new[j].term) <=> n \in TermNames(prog[j].term)
        /\ n \in occurring(new[j]) <=> n \in occurring(prog[j])
  <2> TAKE j \in 1 .. Len(prog)
  <2> TAKE n
  <2>1. CASE j \in 1 .. found - 1 \/ j \in k + 1 .. Len(prog)
    BY <2>1
  <2>2. CASE j = found
    BY <1>1, <2>2
  <2>3. CASE j \in found + 1 .. k
    BY <1>5, <2>3
  <2> QED BY <1>6, <2>1, <2>2, <2>3
<1>8. \A j \in 1 .. Len(prog) : t \in occurring(new[j]) =>
        j \in 1 .. found /\ t \in occurring(prog[j])
  <2> TAKE j \in 1 .. Len(prog)
  <2>1. CASE j \in 1 .. found - 1
    BY <2>1
  <2>2. CASE j = found
    BY <1>1, <2>2
  <2>3. CASE j \in found + 1 .. k
    BY <1>5, <2>3
  <2>4. CASE j \in k + 1 .. Len(prog)
    BY <1>2, <2>4
  <2> QED BY <1>6, <2>1, <2>2, <2>3, <2>4
<1>9. LocalsFlow(new)
  <2> SUFFICES ASSUME NEW j \in 1 .. Len(prog), NEW n \in occurring(new[j]), isLocal(n)
               PROVE  n \in variables(new[j]) <=> \E l \in 1 .. j - 1 : n \in occurring(new[l])
    BY DEF LocalsFlow
  <2>1. CASE n # x /\ n # t
    <3>1. n \in occurring(prog[j]) /\ (n \in variables(new[j]) <=> n \in variables(prog[j]))
      BY <1>7, <2>1
    <3>2. \A l \in 1 .. j - 1 : n \in occurring(new[l]) <=> n \in occurring(prog[l])
      BY <1>7, <2>1
    <3> QED BY <3>1, <3>2 DEF Flow, LocalsFlow
  <2>2. CASE n = t
    <3>1. j \in 1 .. found /\ t \in occurring(prog[j])
      BY <1>8, <2>2
    <3>2. \A l \in 1 .. j - 1 : new[l] = prog[l]
      BY <3>1
    <3>3. n \in variables(new[j]) <=> n \in variables(prog[j])
      <4>1. CASE j = found
        BY <1>1, <4>1
      <4>2. CASE j \in 1 .. found - 1
        BY <4>2
      <4> QED BY <3>1, <4>1, <4>2
    <3> QED BY <2>2, <3>1, <3>2, <3>3 DEF Flow, LocalsFlow
  <2>3. CASE n = x
    <3>1. \A l \in 1 .. found - 1 : x \notin occurring(new[l])
      BY <1>4, <2>3
    <3>2. CASE j \in 1 .. found - 1
      BY <2>3, <3>1, <3>2
    <3>3. CASE j = found
      BY <1>1, <1>3, <2>3, <3>1, <3>3
    <3>4. CASE j \in found + 1 .. Len(prog)
      <4>1. found \in 1 .. j - 1 /\ x \in occurring(new[found])
        BY <1>1, <3>4
      <4>2. CASE j \in found + 1 .. k
        <5>1. t \in occurring(prog[j])
          <6>1. CASE j = k
            BY <1>1, <6>1
          <6>2. CASE j \in found + 1 .. k - 1
            BY <1>4, <1>5, <2>3, <4>2, <6>2
          <6> QED BY <4>2, <6>1, <6>2
        <5>2. t \in variables(prog[j])
          BY <1>1, <4>1, <5>1 DEF Flow, LocalsFlow
        <5> QED BY <1>5, <2>3, <4>1, <4>2, <5>2
      <4>3. CASE j \in k + 1 .. Len(prog)
        <5>1. k \in 1 .. j - 1 /\ new[j] = prog[j]
          BY <4>3
        <5> QED BY <1>1, <2>3, <4>1, <5>1 DEF Flow, LocalsFlow
      <4> QED BY <3>4, <4>2, <4>3
    <3> QED BY <3>2, <3>3, <3>4
  <2> QED BY <2>1, <2>2, <2>3
<1>10. ConsumedLast(new)
  <2> SUFFICES ASSUME NEW j \in 1 .. Len(prog), NEW n \in TermNames(new[j].term),
                      isLocal(n), n # Def(new[j]), NEW l \in j + 1 .. Len(prog),
                      n \in occurring(new[l])
               PROVE  FALSE
    BY DEF ConsumedLast
  <2>1. l \in 1 .. Len(prog) /\ n \in occurring(new[j])
    BY DEF occurring, variables
  <2>2. CASE n # x /\ n # t
    <3>1. n \in TermNames(prog[j].term) /\ n \in occurring(prog[l])
      BY <1>7, <2>1, <2>2
    <3>2. n # Def(prog[j])
      <4>1. CASE j = found
        BY <2>2, <4>1
      <4>2. CASE j \in found + 1 .. k
        BY <1>5, <2>2, <4>2
      <4>3. CASE j \in 1 .. found - 1 \/ j \in k + 1 .. Len(prog)
        BY <4>3
      <4> QED BY <1>6, <4>1, <4>2, <4>3
    <3> QED BY <3>1, <3>2 DEF Flow, ConsumedLast
  <2>3. CASE n = t
    <3>1. l \in 1 .. found /\ t \in occurring(prog[l])
      BY <1>8, <2>1, <2>3
    <3>2. j \in 1 .. found - 1
      BY <3>1
    <3> QED BY <2>3, <3>1, <3>2 DEF Flow, ConsumedLast
  <2>4. CASE n = x
    <3>1. CASE j \in 1 .. found - 1
      <4>1. new[j] = prog[j]
        BY <3>1
      <4> QED BY <1>4, <2>1, <2>4, <3>1, <4>1
    <3>2. CASE j = found
      BY <2>4, <3>2
    <3>3. CASE j \in found + 1 .. k
      <4>1. j # k
        BY <1>5, <2>4, <3>3
      <4>2. x \notin occurring(prog[j])
        BY <1>4, <2>4, <3>3, <4>1
      <4>3. t \in TermNames(prog[j].term) /\ t # Def(prog[j])
        BY <1>5, <2>4, <3>3, <4>2 DEF occurring, variables
      <4>4. k \in j + 1 .. Len(prog)
        BY <3>3, <4>1
      <4> QED BY <1>1, <4>3, <4>4 DEF Flow, ConsumedLast
    <3>4. CASE j \in k + 1 .. Len(prog)
      <4>1. new[j] = prog[j] /\ new[l] = prog[l]
        BY <3>4
      <4> QED BY <4>1 DEF Flow, ConsumedLast
    <3> QED BY <1>6, <3>1, <3>2, <3>3, <3>4
  <2> QED BY <2>2, <2>3, <2>4
<1>11. NoSelfSum(new)
  <2> SUFFICES ASSUME NEW j \in 1 .. Len(prog), new[j].add, isLocal(Def(new[j])),
                      Def(new[j]) \in TermNames(new[j].term)
               PROVE  FALSE
    BY DEF NoSelfSum
  <2>1. CASE j \in 1 .. found - 1 \/ j \in k + 1 .. Len(prog)
    BY <2>1 DEF Flow, NoSelfSum
  <2>2. CASE j = found
    BY <2>2
  <2>3. CASE j \in found + 1 .. k
    <3>1. prog[j].add /\ j # k
      BY <1>5, <2>3
    <3>2. CASE Def(prog[j]) = t
      <4>1. isLocal(x) /\ x \notin occurring(prog[j]) /\ x \in TermNames(new[j].term)
        BY <1>4, <1>5, <2>3, <3>1, <3>2
      <4>2. t \in TermNames(prog[j].term)
        BY <1>5, <2>3, <4>1 DEF occurring, variables
      <4> QED BY <3>1, <3>2, <4>2 DEF Flow, NoSelfSum
    <3>3. CASE Def(prog[j]) # t
      <4>1. Def(new[j]) = Def(prog[j])
        BY <1>5, <2>3, <3>3
      <4>2. Def(prog[j]) # x
        BY <1>4, <2>3, <3>1, <4>1 DEF occurring
      <4>3. Def(prog[j]) \in TermNames(prog[j].term)
        BY <1>7, <3>3, <4>1, <4>2
      <4> QED BY <3>1, <4>1, <4>3 DEF Flow, NoSelfSum
    <3> QED BY <3>2, <3>3
  <2> QED BY <1>6, <2>1, <2>2, <2>3
<1> QED BY <1>9, <1>10, <1>11 DEF Flow

\* x = x is deleted.
LEMMA FlowRemove ==
  ASSUME NEW S, NEW prog \in Seq(S), NEW new \in Seq(S), Len(new) = Len(prog) - 1, Flow(prog),
         NEW k \in 1 .. Len(prog), NEW x, Def(prog[k]) = x,
         ~ isCompound(prog[k]), TermNames(prog[k].term) = {x},
         \A j \in 1 .. k - 1 : new[j] = prog[j],
         \A j \in k .. Len(prog) - 1 : new[j] = prog[j + 1]
  PROVE  Flow(new)
<1> USE DEF isCompound
<1> DEFINE at(j) == IF j < k THEN j ELSE j + 1
<1>1. /\ occurring(prog[k]) = {x}
      /\ isLocal(x) => \E l \in 1 .. k - 1 : x \in occurring(prog[l])
  <2>1. occurring(prog[k]) = {x} /\ x \in variables(prog[k])
    BY DEF occurring, variables, Def
  <2> QED BY <2>1 DEF Flow, LocalsFlow
<1>2. \A j \in 1 .. Len(new) : new[j] = prog[at(j)] /\ at(j) \in 1 .. Len(prog)
  OBVIOUS
<1>3. \A j \in 1 .. Len(new) : \A l \in 1 .. j - 1 : at(l) \in 1 .. at(j) - 1
  OBVIOUS
<1>4. \A m \in 1 .. Len(prog) : m # k => \E j \in 1 .. Len(new) : m = at(j)
  <2> TAKE m \in 1 .. Len(prog)
  <2>1. CASE m < k
    <3>1. m \in 1 .. Len(new) /\ m = at(m)
      BY <2>1
    <3> QED BY <3>1
  <2>2. CASE m > k
    <3>1. m - 1 \in 1 .. Len(new) /\ m = at(m - 1)
      BY <2>2
    <3> QED BY <3>1
  <2> QED BY <2>1, <2>2
<1>5. \A j \in 1 .. Len(new), m \in 1 .. Len(new) : at(m) < at(j) => m \in 1 .. j - 1
  OBVIOUS
<1> HIDE DEF at
<1>6. LocalsFlow(new)
  <2> SUFFICES ASSUME NEW j \in 1 .. Len(new), NEW n \in occurring(new[j]), isLocal(n)
               PROVE  n \in variables(new[j]) <=> \E l \in 1 .. j - 1 : n \in occurring(new[l])
    BY DEF LocalsFlow
  <2>1. n \in variables(new[j]) <=> \E m \in 1 .. at(j) - 1 : n \in occurring(prog[m])
    BY <1>2 DEF Flow, LocalsFlow
  <2>2. ASSUME NEW l \in 1 .. j - 1, n \in occurring(new[l])
        PROVE  at(l) \in 1 .. at(j) - 1 /\ n \in occurring(prog[at(l)])
    <3>1. l \in 1 .. Len(new)
      OBVIOUS
    <3> QED BY <1>2, <1>3, <2>2, <3>1
  <2>3. ASSUME NEW m \in 1 .. at(j) - 1, n \in occurring(prog[m])
        PROVE  \E l \in 1 .. j - 1 : n \in occurring(new[l])
    <3>1. PICK q \in 1 .. at(j) - 1 : q # k /\ n \in occurring(prog[q])
      <4>1. CASE m # k
        BY <2>3, <4>1
      <4>2. CASE m = k
        <5>1. PICK l \in 1 .. k - 1 : n \in occurring(prog[l])
          BY <1>1, <2>3, <4>2
        <5>2. at(j) \in 1 .. Len(prog)
          BY <1>2
        <5>3. l # k /\ l \in 1 .. at(j) - 1
          BY <4>2, <5>2
        <5> QED BY <5>1, <5>3
      <4> QED BY <4>1, <4>2
    <3>2. q \in 1 .. Len(prog) /\ q < at(j)
      BY <1>2
    <3>3. PICK l \in 1 .. Len(new) : q = at(l)
      BY <1>4, <3>1, <3>2
    <3>4. l \in 1 .. j - 1
      BY <1>5, <3>2, <3>3
    <3> QED BY <1>2, <3>1, <3>3, <3>4
  <2> QED BY <2>1, <2>2, <2>3
<1>7. ConsumedLast(new)
  <2> SUFFICES ASSUME NEW j \in 1 .. Len(new), NEW n \in TermNames(new[j].term),
                      isLocal(n), n # Def(new[j]), NEW l \in j + 1 .. Len(new)
               PROVE  n \notin occurring(new[l])
    BY DEF ConsumedLast
  <2>1. l \in 1 .. Len(new) /\ j \in 1 .. l - 1
    OBVIOUS
  <2>2. at(j) \in 1 .. Len(prog) /\ at(l) \in at(j) + 1 .. Len(prog)
    BY <1>2, <1>3, <2>1
  <2> QED BY <1>2, <2>1, <2>2 DEF Flow, ConsumedLast
<1>8. NoSelfSum(new)
  BY <1>2 DEF Flow, NoSelfSum
<1> QED BY <1>6, <1>7, <1>8 DEF Flow

\* t = term at k; x [+]= t at found: x takes its value at k, and nothing
\* between them touches x or t.
LEMMA FlowMerge ==
  ASSUME NEW S, NEW prog \in Seq(S), NEW new \in Seq(S), Len(new) = Len(prog) - 1, Flow(prog),
         NEW k \in 1 .. Len(prog), NEW found \in k + 1 .. Len(prog), NEW t, NEW x,
         Def(prog[k]) = t, ~ isCompound(prog[k]),
         Def(prog[found]) = x, TermNames(prog[found].term) = {t},
         x \notin variables(prog[k]),
         \A j \in k + 1 .. found - 1 : x \notin occurring(prog[j]) /\ t \notin occurring(prog[j]),
         \A j \in 1 .. found - 1 : j # k => new[j] = prog[j],
         \A j \in found .. Len(prog) - 1 : new[j] = prog[j + 1],
         new[k].add = prog[found].add,
         TermNames(new[k].term) = TermNames(prog[k].term),
         Def(new[k]) = x
  PROVE  Flow(new)
<1> USE DEF isCompound
<1> DEFINE at(j) == IF j < found THEN j ELSE j + 1
<1>1. /\ found \in 1 .. Len(prog)
      /\ variables(prog[k]) = TermNames(prog[k].term)
      /\ occurring(prog[k]) = TermNames(prog[k].term) \cup {t}
      /\ occurring(new[k]) = TermNames(prog[k].term) \cup {x}
      /\ occurring(prog[found]) = {t, x}
      /\ x \notin TermNames(prog[k].term)
      /\ \A n : /\ n \in variables(new[k]) <=> n \in TermNames(prog[k].term) \/ (prog[found].add /\ n = x)
                /\ n \in variables(prog[found]) <=> n = t \/ (prog[found].add /\ n = x)
  BY DEF occurring, variables, Def
<1>2. \A j \in 1 .. Len(new) : /\ at(j) \in 1 .. Len(prog) /\ at(j) # found
                               /\ j # k => new[j] = prog[at(j)] /\ at(j) # k
                               /\ j = k => at(j) = k
  <2> TAKE j \in 1 .. Len(new)
  <2>1. CASE j < found
    BY <2>1
  <2>2. CASE j >= found
    <3>1. j \in found .. Len(prog) - 1 /\ at(j) = j + 1 /\ j # k
      BY <2>2
    <3> QED BY <3>1
  <2> QED BY <2>1, <2>2
<1>3. \A j \in 1 .. Len(new) : \A l \in 1 .. j - 1 : at(l) \in 1 .. at(j) - 1
  OBVIOUS
<1>4. \A m \in 1 .. Len(prog) : m # found => \E j \in 1 .. Len(new) : m = at(j)
  <2> TAKE m \in 1 .. Len(prog)
  <2>1. CASE m < found
    <3>1. m \in 1 .. Len(new) /\ m = at(m)
      BY <2>1
    <3> QED BY <3>1
  <2>2. CASE m > found
    <3>1. m - 1 \in 1 .. Len(new) /\ m = at(m - 1)
      BY <2>2
    <3> QED BY <3>1
  <2> QED BY <2>1, <2>2
<1>5. \A j \in 1 .. Len(new), m \in 1 .. Len(new) : at(m) < at(j) => m \in 1 .. j - 1
  OBVIOUS
<1>6. \A j \in 1 .. Len(new) : TermNames(new[j].term) = TermNames(prog[at(j)].term)
  BY <1>2
<1>7. k \in 1 .. Len(new) /\ at(k) = k /\ \A j \in 1 .. Len(new) : at(j) < k <=> j < k
  OBVIOUS
<1>8. \A j \in 1 .. Len(new) : at(j) > k => at(j) \in k + 1 .. found - 1 \/ at(j) \in found + 1 .. Len(prog)
  OBVIOUS
<1> HIDE DEF at
<1>9. \A n : isLocal(n) => \A j \in 1 .. Len(new) :
        n \in occurring(new[j]) => n \in occurring(prog[at(j)]) \/ (j = k /\ n = x)
  BY <1>1, <1>2
<1>10. isLocal(t) /\ t # x => \A j \in found + 1 .. Len(prog) : t \notin occurring(prog[j])
  BY <1>1 DEF Flow, ConsumedLast
<1>11. ASSUME t = x, isLocal(x)
       PROVE  ~ prog[found].add /\ \A j \in 1 .. k - 1 : x \notin occurring(prog[j])
  <2>1. ~ prog[found].add
    BY <1>1, <1>11 DEF Flow, NoSelfSum
  <2>2. x \in occurring(prog[k]) /\ x \notin variables(prog[k])
    BY <1>1, <1>11
  <2> QED BY <1>11, <2>1, <2>2 DEF Flow, LocalsFlow
<1>12. ASSUME t # x, isLocal(x)
       PROVE  prog[found].add <=> \E j \in 1 .. k - 1 : x \in occurring(prog[j])
  <2>1. x \in variables(prog[found]) <=> prog[found].add
    BY <1>1, <1>12
  <2>2. x \in occurring(prog[found])
    BY <1>1
  <2>3. x \in variables(prog[found]) <=> \E j \in 1 .. found - 1 : x \in occurring(prog[j])
    BY <1>1, <1>12, <2>2 DEF Flow, LocalsFlow
  <2>4. \A j \in 1 .. found - 1 : x \in occurring(prog[j]) => j \in 1 .. k - 1
    <3> TAKE j \in 1 .. found - 1
    <3>1. j \in 1 .. k - 1 \/ j = k \/ j \in k + 1 .. found - 1
      OBVIOUS
    <3> QED BY <1>1, <1>12, <3>1
  <2>5. \A j \in 1 .. k - 1 : j \in 1 .. found - 1
    OBVIOUS
  <2> QED BY <2>1, <2>3, <2>4, <2>5
<1>13. LocalsFlow(new)
  <2> SUFFICES ASSUME NEW j \in 1 .. Len(new), NEW n \in occurring(new[j]), isLocal(n)
               PROVE  n \in variables(new[j]) <=> \E l \in 1 .. j - 1 : n \in occurring(new[l])
    BY DEF LocalsFlow
  <2>1. CASE j = k
    <3>1. \A l \in 1 .. k - 1 : new[l] = prog[l]
      OBVIOUS
    <3>2. CASE n # x
      <4>1. n \in variables(new[j]) /\ n \in variables(prog[k]) /\ n \in occurring(prog[k])
        BY <1>1, <2>1, <3>2
      <4>2. \E l \in 1 .. k - 1 : n \in occurring(prog[l])
        BY <4>1 DEF Flow, LocalsFlow
      <4> QED BY <2>1, <3>1, <4>1, <4>2
    <3>3. CASE n = x
      <4>1. n \in variables(new[j]) <=> prog[found].add
        BY <1>1, <2>1, <3>3
      <4>2. prog[found].add <=> \E l \in 1 .. k - 1 : x \in occurring(prog[l])
        BY <1>11, <1>12, <3>3
      <4> QED BY <2>1, <3>1, <3>3, <4>1, <4>2
    <3> QED BY <3>2, <3>3
  <2>2. CASE j # k
    <3>1. new[j] = prog[at(j)] /\ at(j) \in 1 .. Len(prog)
      BY <1>2, <2>2
    <3>2. n \in variables(new[j]) <=> \E m \in 1 .. at(j) - 1 : n \in occurring(prog[m])
      BY <3>1 DEF Flow, LocalsFlow
    <3>3. ASSUME NEW l \in 1 .. j - 1, n \in occurring(new[l])
          PROVE  \E m \in 1 .. at(j) - 1 : n \in occurring(prog[m])
      <4>1. l \in 1 .. Len(new) /\ at(l) \in 1 .. at(j) - 1
        BY <1>3
      <4>2. CASE n \in occurring(prog[at(l)])
        BY <4>1, <4>2
      <4>3. CASE l = k /\ n = x
        <5>1. k < at(j)
          BY <1>7, <3>1, <4>1, <4>3
        <5>2. at(j) \notin k + 1 .. found - 1
          BY <3>1, <4>3
        <5>3. found \in 1 .. at(j) - 1
          BY <1>1, <1>8, <5>1, <5>2
        <5> QED BY <1>1, <4>3, <5>3
      <4> QED BY <1>9, <3>3, <4>1, <4>2, <4>3
    <3>4. ASSUME NEW m \in 1 .. at(j) - 1, n \in occurring(prog[m])
          PROVE  \E l \in 1 .. j - 1 : n \in occurring(new[l])
      <4>1. m \in 1 .. Len(prog)
        BY <3>1
      <4>2. CASE m # found /\ (m # k \/ n # t)
        <5>1. PICK l \in 1 .. Len(new) : m = at(l)
          BY <1>4, <4>1, <4>2
        <5>2. l \in 1 .. j - 1
          BY <1>5, <3>1, <5>1
        <5>3. n \in occurring(new[l])
          BY <1>1, <1>2, <3>4, <4>2, <5>1
        <5> QED BY <5>2, <5>3
      <4>3. CASE m = found \/ (m = k /\ n = t)
        <5>1. k < at(j)
          BY <3>1, <4>3
        <5>2. n = x \/ n = t
          BY <1>1, <3>4, <4>3
        <5>3. at(j) \in found + 1 .. Len(prog)
          BY <1>8, <3>1, <5>1, <5>2
        <5>4. n = x
          BY <1>10, <3>1, <5>2, <5>3
        <5>5. k \in 1 .. j - 1
          BY <1>5, <1>7, <5>1
        <5> QED BY <1>1, <5>4, <5>5
      <4> QED BY <4>2, <4>3
    <3> QED BY <3>2, <3>3, <3>4
  <2> QED BY <2>1, <2>2
<1>14. ConsumedLast(new)
  <2> SUFFICES ASSUME NEW j \in 1 .. Len(new), NEW n \in TermNames(new[j].term),
                      isLocal(n), n # Def(new[j]), NEW l \in j + 1 .. Len(new),
                      n \in occurring(new[l])
               PROVE  FALSE
    BY DEF ConsumedLast
  <2>1. l \in 1 .. Len(new) /\ j \in 1 .. l - 1
    OBVIOUS
  <2>2. /\ at(j) \in 1 .. Len(prog) /\ at(l) \in at(j) + 1 .. Len(prog)
        /\ n \in TermNames(prog[at(j)].term)
    BY SMTT(30), <1>2, <1>3, <1>6, <2>1
  <2>3. CASE n # Def(prog[at(j)])
    <3>1. n \notin occurring(prog[at(l)])
      BY <2>2, <2>3 DEF Flow, ConsumedLast
    <3>2. l = k /\ n = x
      BY SMTT(30), <1>9, <2>1, <3>1
    <3>3. found \in at(j) + 1 .. Len(prog)
      BY <1>1, <1>7, <2>2, <3>2
    <3>4. n \notin occurring(prog[found])
      BY <2>2, <2>3, <3>3 DEF Flow, ConsumedLast
    <3> QED BY <1>1, <3>2, <3>4
  <2>4. CASE n = Def(prog[at(j)])
    <3>1. j = k /\ n = t /\ t # x
      BY <1>2, <2>4
    <3>2. at(l) > k /\ l # k
      BY <1>7, <2>2, <3>1
    <3>3. n \in occurring(prog[at(l)])
      BY <1>2, <2>1, <3>2
    <3>4. at(l) \in found + 1 .. Len(prog)
      BY <1>8, <2>1, <3>1, <3>2, <3>3
    <3> QED BY <1>10, <3>1, <3>3, <3>4
  <2> QED BY <2>3, <2>4
<1>15. NoSelfSum(new)
  <2> SUFFICES ASSUME NEW j \in 1 .. Len(new), new[j].add, isLocal(Def(new[j])),
                      Def(new[j]) \in TermNames(new[j].term)
               PROVE  FALSE
    BY DEF NoSelfSum
  <2>1. CASE j = k
    BY <1>1, <2>1
  <2>2. CASE j # k
    BY <1>2, <2>2 DEF Flow, NoSelfSum
  <2> QED BY <2>1, <2>2
<1> QED BY <1>13, <1>14, <1>15 DEF Flow

-----------------------------------------------------------------------------
(* What the statements of a program compute *)

LEMMA ModOk ==
  /\ Modulus \in Nat /\ Modulus >= 2
  /\ \A a \in Int : a % Modulus \in 0 .. Modulus - 1
  /\ \A a \in 0 .. Modulus - 1 : a % Modulus = a
<1>1. Modulus \in Nat /\ Modulus >= 2
  BY ValuesAssumption
<1>2. \A a \in Int : a % Modulus \in 0 .. Modulus - 1
  BY <1>1
<1>3. \A a \in 0 .. Modulus - 1 : a % Modulus = a
  BY <1>1
<1> QED BY <1>1, <1>2, <1>3

LEMMA CellOk ==
  ASSUME NEW v \in Values, NEW c \in Cells
  PROVE  v[c] \in 0 .. Modulus - 1 /\ v[c] \in Int
BY ModOk DEF Values

LEMMA ScaleOk ==
  ASSUME NEW v \in Values, NEW s \in Nat
  PROVE  /\ ScaleValue(s, v) \in Values
         /\ ScaleValue(1, v) = v
         /\ \A c \in Cells : v[c] = 0 => ScaleValue(s, v)[c] = 0
<1>1. ASSUME NEW c \in Cells
      PROVE  /\ (s * v[c]) % Modulus \in 0 .. Modulus - 1
             /\ (1 * v[c]) % Modulus = v[c]
             /\ v[c] = 0 => (s * v[c]) % Modulus = 0
  <2>1. v[c] \in 0 .. Modulus - 1 /\ v[c] \in Int /\ 1 * v[c] = v[c] /\ s * v[c] \in Int
    BY CellOk
  <2>2. v[c] = 0 => s * v[c] = 0
    OBVIOUS
  <2>3. 0 % Modulus = 0
    BY ModOk
  <2> QED BY <2>1, <2>2, <2>3, ModOk
<1>2. v = [c \in Cells |-> v[c]]
  BY DEF Values
<1> QED BY <1>1, <1>2 DEF ScaleValue, Values

LEMMA AddOk ==
  ASSUME NEW v \in Values, NEW w \in Values
  PROVE  /\ AddValue(v, w) \in Values
         /\ \A c \in Cells : v[c] = 0 /\ w[c] = 0 => AddValue(v, w)[c] = 0
<1>1. ASSUME NEW c \in Cells
      PROVE  /\ (v[c] + w[c]) % Modulus \in 0 .. Modulus - 1
             /\ v[c] = 0 /\ w[c] = 0 => (v[c] + w[c]) % Modulus = 0
  <2>1. v[c] \in Int /\ w[c] \in Int
    BY CellOk
  <2>2. 0 % Modulus = 0
    BY ModOk
  <2> QED BY <2>1, <2>2, ModOk
<1> QED BY <1>1 DEF AddValue, Values

LEMMA StoredOk ==
  ASSUME NEW v \in Values, NEW lay
  PROVE  /\ Stored(lay, v) \in Values
         /\ \A c \in Cells : c \notin lay.cells => Stored(lay, v)[c] = 0
         /\ (\A c \in Cells : c \notin lay.cells => v[c] = 0) <=> Stored(lay, v) = v
<1>1. v = [c \in Cells |-> v[c]] /\ \A c \in Cells : v[c] \in 0 .. Modulus - 1
  BY DEF Values
<1>2. 0 \in 0 .. Modulus - 1
  BY ModOk
<1> QED BY <1>1, <1>2 DEF Stored, Values

LEMMA PermuteOk ==
  ASSUME NEW v \in Values
  PROVE  /\ PermuteValue(v) \in Values
         /\ \A spp \in SUBSET Cells : (\A c \in Cells : c \notin spp => v[c] = 0) =>
              \A c \in Cells : c \notin PermuteSpp(spp) => PermuteValue(v)[c] = 0
<1>1. \A c \in Cells : 3 - c \in Cells /\ 3 - (3 - c) = c
  BY DEF Cells
<1>2. PermuteValue(v) \in Values
  BY <1>1 DEF PermuteValue, Values
<1>3. ASSUME NEW spp \in SUBSET Cells, \A c \in Cells : c \notin spp => v[c] = 0,
             NEW c \in Cells, c \notin PermuteSpp(spp)
      PROVE  PermuteValue(v)[c] = 0
  <2>1. 3 - c \notin spp
    BY <1>1, <1>3 DEF PermuteSpp
  <2> QED BY <1>1, <1>3, <2>1 DEF PermuteValue
<1> QED BY <1>2, <1>3

LEMMA BroadcastOk ==
  ASSUME NEW v \in Values
  PROVE  /\ BroadcastValue(v) \in Values
         /\ \A spp \in SUBSET Cells : (\A c \in Cells : c \notin spp => v[c] = 0) =>
              \A c \in Cells : c \notin BroadcastSpp(spp) => BroadcastValue(v)[c] = 0
<1>1. 1 \in Cells /\ 2 \in Cells
  BY DEF Cells
<1>2. v[1] \in Int /\ v[2] \in Int /\ v[1] + 2 * v[2] \in Int
  BY <1>1, CellOk
<1>3. BroadcastValue(v) \in Values
  BY <1>2, ModOk DEF BroadcastValue, Values
<1>4. ASSUME NEW spp \in SUBSET Cells, \A c \in Cells : c \notin spp => v[c] = 0,
             NEW c \in Cells, c \notin BroadcastSpp(spp)
      PROVE  BroadcastValue(v)[c] = 0
  <2>1. spp = {}
    BY <1>4 DEF BroadcastSpp
  <2>2. v[1] = 0 /\ v[2] = 0
    BY <1>1, <1>4, <2>1
  <2>3. 0 % Modulus = 0
    BY ModOk
  <2> QED BY <2>2, <2>3 DEF BroadcastValue
<1> QED BY <1>3, <1>4

LEMMA OpValueOk ==
  ASSUME NEW n \in Nat, NEW vals \in [1 .. n -> Values]
  PROVE  /\ OpValue(vals) \in Values
         /\ \A c \in Cells : (\E k \in 1 .. n : vals[k][c] = 0) => OpValue(vals)[c] = 0
<1> DEFINE Eqn(p) == p = [k \in 0 .. n |->
                            IF k = 0 THEN [c \in Cells |-> 1]
                            ELSE [c \in Cells |->
                              (p[k - 1][c] * vals[k][c] * (vals[k][c] + k)) % Modulus]]
           prod == CHOOSE p : Eqn(p)
           base == [c \in Cells |-> 1]
           step == [q \in (1 .. n) \X Values |->
                     [c \in Cells |-> (q[2][c] * vals[q[1]][c] * (vals[q[1]][c] + q[1])) % Modulus]]
           W == Values
<1>1. Len(vals) = n
  OBVIOUS
<1>2. base \in W
  BY ModOk DEF Values
<1>3. ASSUME NEW v \in Values, NEW k \in 1 .. n, NEW c \in Cells
      PROVE  /\ (v[c] * vals[k][c] * (vals[k][c] + k)) % Modulus \in 0 .. Modulus - 1
             /\ v[c] = 0 \/ vals[k][c] = 0 => (v[c] * vals[k][c] * (vals[k][c] + k)) % Modulus = 0
  <2> DEFINE a == v[c]
             b == vals[k][c]
             d == b + k
  <2>1. a \in Int /\ b \in Int /\ d \in Int
    <3>1. vals[k] \in Values
      OBVIOUS
    <3> QED BY <3>1, CellOk
  <2> HIDE DEF a, b, d
  <2>2. a * b \in Int
    BY <2>1
  <2>3. a * b * d \in Int
    BY <2>1, <2>2
  <2>4. a = 0 \/ b = 0 => a * b * d = 0
    <3>1. a = 0 \/ b = 0 => a * b = 0
      BY <2>1
    <3>2. 0 * d = 0
      BY <2>1
    <3> QED BY <3>1, <3>2
  <2>5. 0 % Modulus = 0
    BY ModOk
  <2>6. (a * b * d) % Modulus \in 0 .. Modulus - 1
    BY <2>3, ModOk
  <2> QED BY <2>4, <2>5, <2>6 DEF a, b, d
<1>4. step \in StepFunctions(n, W)
  <2>1. ASSUME NEW q \in (1 .. n) \X Values PROVE step[q] \in Values
    <3>1. q[1] \in 1 .. n /\ q[2] \in Values
      OBVIOUS
    <3> QED BY <1>3, <3>1 DEF Values
  <2>2. step = [q \in (1 .. n) \X W |-> step[q]]
    OBVIOUS
  <2> HIDE DEF step
  <2> QED BY <2>1, <2>2 DEF StepFunctions
<1> HIDE DEF base, W
<1>5. PICK f : Solves(f, n, W, base, step)
  BY <1>2, <1>4, RecursionSolved
<1>6. f = [k \in 0 .. n |-> f[k]] /\ (\A k \in 0 .. n : f[k] \in Values) /\ f[0] = [c \in Cells |-> 1]
  BY <1>5 DEF Solves, W, base
<1>7. ASSUME NEW k \in 1 .. n
      PROVE  f[k] = [c \in Cells |-> (f[k - 1][c] * vals[k][c] * (vals[k][c] + k)) % Modulus]
  <2>1. k - 1 \in 0 .. n
    OBVIOUS
  <2>2. f[k - 1] \in Values
    BY <1>6, <2>1
  <2>3. f[k] = step[<<k, f[k - 1]>>]
    BY <1>5 DEF Solves
  <2> QED BY <2>2, <2>3
<1>8. Eqn(f)
  <2>1. \A k \in 0 .. n : k = 0 \/ k \in 1 .. n
    OBVIOUS
  <2> HIDE DEF step
  <2> QED BY <1>6, <1>7, <2>1
<1>9. Eqn(prod)
  BY <1>8
<1>10. OpValue(vals) = prod[n]
  BY <1>1 DEF OpValue
<1> HIDE DEF prod, step
<1>11. prod[0] = [c \in Cells |-> 1] /\ \A k \in 1 .. n :
         prod[k] = [c \in Cells |-> (prod[k - 1][c] * vals[k][c] * (vals[k][c] + k)) % Modulus]
  <2>1. \A k \in 1 .. n : k \in 0 .. n /\ k # 0
    OBVIOUS
  <2>2. 0 \in 0 .. n
    OBVIOUS
  <2> QED BY <1>9, <2>1, <2>2
<1> HIDE DEF Eqn
<1> DEFINE P == {k \in Nat : k <= n =>
                   /\ prod[k] \in Values
                   /\ \A c \in Cells : (\E l \in 1 .. k : vals[l][c] = 0) => prod[k][c] = 0}
<1>12. 0 \in P
  BY <1>2, <1>11 DEF base, W
<1>13. ASSUME NEW k \in Nat, k \in P PROVE k + 1 \in P
  <2> SUFFICES ASSUME k + 1 <= n
               PROVE  /\ prod[k + 1] \in Values
                      /\ \A c \in Cells : (\E l \in 1 .. k + 1 : vals[l][c] = 0) => prod[k + 1][c] = 0
    OBVIOUS
  <2> DEFINE m == k + 1
  <2>1. m \in 1 .. n /\ m - 1 = k /\ prod[k] \in Values
    BY <1>13
  <2>2. prod[m] = [c \in Cells |-> (prod[k][c] * vals[m][c] * (vals[m][c] + m)) % Modulus]
    BY <1>11, <2>1
  <2> HIDE DEF m
  <2>3. prod[m] \in Values
    <3>1. \A c \in Cells :
            (prod[k][c] * vals[m][c] * (vals[m][c] + m)) % Modulus \in 0 .. Modulus - 1
      BY <1>3, <2>1
    <3> QED BY <2>2, <3>1 DEF Values
  <2>4. ASSUME NEW c \in Cells, NEW l \in 1 .. m, vals[l][c] = 0 PROVE prod[m][c] = 0
    <3>1. prod[k][c] = 0 \/ vals[m][c] = 0
      <4>1. CASE l = m
        BY <2>4, <4>1
      <4>2. CASE l # m
        <5>1. l \in 1 .. k
          BY <2>1, <4>2
        <5>2. k <= n
          BY <2>1
        <5> QED BY <1>13, <2>4, <5>1, <5>2
      <4> QED BY <4>1, <4>2
    <3> QED BY <1>3, <2>1, <2>2, <3>1
  <2> QED BY <2>3, <2>4 DEF m
<1> HIDE DEF P
<1>14. Nat \subseteq P
  BY <1>12, <1>13, NatSetInduction
<1>15. n \in P
  BY <1>14
<1> QED BY <1>10, <1>15 DEF P

-----------------------------------------------------------------------------
(* The execution of a program *)

\* What a statement computes, before its result's layout drops what it does not
\* store.
Computed(a, mem) ==
  LET alpha == IF a.scalar = NoScalar THEN 1 ELSE a.scalar
      value == ScaleValue(alpha, TermValue(a.term, mem))
  IN  IF a.add THEN AddValue(mem[a.result.name], value) ELSE value

\* f[k] is the memory after the first k statements.
Executes(prog, tensors, f) ==
  /\ f \in [0 .. Len(prog) -> [Tensor \cup Temporaries(prog) -> Values]]
  /\ f[0] = Loaded(prog, tensors)
  /\ \A k \in 1 .. Len(prog) : f[k] = Emitted(prog[k], f[k - 1])
  /\ Run(prog, tensors) = f[Len(prog)]

SuppOn(v, cells) == \A c \in Cells : c \notin cells => v[c] = 0

\* The term of an action reads memory of values.
LEMMA TermValueOk ==
  ASSUME NEW t \in Terms, t.op # "Op" => Len(t.args) = 1,
         NEW mem, \A k \in DOMAIN t.args : mem[t.args[k].name] \in Values
  PROVE  TermValue(t, mem) \in Values
<1> DEFINE n == Len(t.args)
           vals == [k \in DOMAIN t.args |-> mem[t.args[k].name]]
<1>1. t.args \in Seq(Variables) /\ t.op \in {"Op", "Permute", "Broadcast", "Variable"}
  BY DEF Terms, NodeOps
<1>2. n \in Nat /\ DOMAIN t.args = 1 .. n
  BY <1>1
<1>3. vals \in [1 .. n -> Values]
  BY <1>2
<1>4. t.op # "Op" => vals[1] \in Values
  BY <1>2, <1>3
<1> HIDE DEF vals
<1>5. OpValue(vals) \in Values
  BY <1>2, <1>3, OpValueOk
<1>6. t.op # "Op" => PermuteValue(vals[1]) \in Values /\ BroadcastValue(vals[1]) \in Values
  BY <1>4, PermuteOk, BroadcastOk
<1> QED BY <1>1, <1>4, <1>5, <1>6 DEF TermValue, vals

Unary(prog) == \A k \in 1 .. Len(prog) : prog[k].term.op # "Op" => Len(prog[k].term.args) = 1

LEMMA ComputedOk ==
  ASSUME NEW a \in Actions, a.term.op # "Op" => Len(a.term.args) = 1,
         NEW mem, \A n \in variables(a) : mem[n] \in Values
  PROVE  /\ TermValue(a.term, mem) \in Values
         /\ Computed(a, mem) \in Values
<1>1. /\ a.term \in Terms /\ a.scalar \in Nat /\ a.add \in BOOLEAN
      /\ a.term.args \in Seq(Variables)
  BY DEF Actions, Scalars, Terms
<1>2. \A k \in DOMAIN a.term.args : a.term.args[k].name \in variables(a)
  BY DEF variables, TermNames
<1>3. TermValue(a.term, mem) \in Values
  <2>1. \A k \in DOMAIN a.term.args : mem[a.term.args[k].name] \in Values
    BY <1>2
  <2> QED BY <1>1, <2>1, TermValueOk
<1> DEFINE alpha == IF a.scalar = NoScalar THEN 1 ELSE a.scalar
           v == TermValue(a.term, mem)
<1>4. alpha \in Nat
  BY <1>1 DEF NoScalar
<1>5. v \in Values
  BY <1>3
<1> HIDE DEF v, alpha
<1>6. ScaleValue(alpha, v) \in Values
  BY <1>4, <1>5, ScaleOk
<1>7. a.add => a.result.name \in variables(a)
  BY DEF variables
<1>8. a.add => AddValue(mem[a.result.name], ScaleValue(alpha, v)) \in Values
  <2> DEFINE w == ScaleValue(alpha, v)
  <2>1. w \in Values
    BY <1>6
  <2> HIDE DEF w
  <2>2. a.add => AddValue(mem[a.result.name], w) \in Values
    BY <1>7, <2>1, AddOk
  <2> QED BY <2>2 DEF w
<1>9. Computed(a, mem) = IF a.add THEN AddValue(mem[a.result.name], ScaleValue(alpha, v))
                         ELSE ScaleValue(alpha, v)
  BY DEF Computed, alpha, v
<1> QED BY <1>3, <1>6, <1>8, <1>9

LEMMA EmittedComputed ==
  ASSUME NEW a, NEW mem
  PROVE  Emitted(a, mem) = [mem EXCEPT ![Def(a)] = Stored(a.result.lay, Computed(a, mem))]
BY DEF Emitted, Computed, Def

LEMMA MemoryNames ==
  ASSUME NEW prog \in Seq(Actions), NEW k \in 1 .. Len(prog)
  PROVE  /\ variables(prog[k]) \subseteq Tensor \cup Temporaries(prog)
         /\ Def(prog[k]) \in Tensor \cup Temporaries(prog)
<1>1. k \in DOMAIN prog
  OBVIOUS
<1> QED BY <1>1 DEF Temporaries

LEMMA LoadedOk ==
  ASSUME NEW prog, NEW tensors \in [Tensor -> Values]
  PROVE  /\ Loaded(prog, tensors) \in [Tensor \cup Temporaries(prog) -> Values]
         /\ \A n \in Tensor : Loaded(prog, tensors)[n] = tensors[n]
<1>1. Uninitialised \in Values
  <2>1. \A c \in Cells : Modulus - c \in 0 .. Modulus - 1
    BY ModOk DEF Cells
  <2> QED BY <2>1 DEF Uninitialised, Values
<1> QED BY <1>1 DEF Loaded

LEMMA ExecutionExists ==
  ASSUME NEW prog \in Seq(Actions), Unary(prog), NEW tensors \in [Tensor -> Values]
  PROVE  \E f : Executes(prog, tensors, f)
<1> DEFINE n == Len(prog)
           M == [Tensor \cup Temporaries(prog) -> Values]
           Eqn(r) == r = [k \in 0 .. n |->
                            IF k = 0 THEN Loaded(prog, tensors) ELSE Emitted(prog[k], r[k - 1])]
           run == CHOOSE r : Eqn(r)
           step == [q \in (1 .. n) \X M |-> Emitted(prog[q[1]], q[2])]
           base == Loaded(prog, tensors)
<1>1. n \in Nat /\ base \in M
  <2>1. base \in M
    BY LoadedOk
  <2> QED BY <2>1
<1>2. ASSUME NEW k \in 1 .. n, NEW m \in M PROVE Emitted(prog[k], m) \in M
  <2>1. prog[k] \in Actions /\ (prog[k].term.op # "Op" => Len(prog[k].term.args) = 1)
    BY DEF Unary
  <2>2. \A x \in variables(prog[k]) : m[x] \in Values
    BY MemoryNames
  <2>3. Computed(prog[k], m) \in Values
    BY <2>1, <2>2, ComputedOk
  <2>4. Stored(prog[k].result.lay, Computed(prog[k], m)) \in Values
    BY <2>3, StoredOk
  <2> QED BY <2>4, EmittedComputed
<1>3. step \in StepFunctions(n, M)
  <2> HIDE DEF M, n
  <2> QED BY <1>2 DEF StepFunctions
<1> HIDE DEF M, base, step
<1>4. PICK f : Solves(f, n, M, base, step)
  BY <1>1, <1>3, RecursionSolved
<1>5. f \in [0 .. n -> M] /\ f[0] = base
  BY <1>4 DEF Solves
<1>6. ASSUME NEW k \in 1 .. n PROVE f[k] = Emitted(prog[k], f[k - 1])
  <2>1. k - 1 \in 0 .. n
    OBVIOUS
  <2>2. f[k - 1] \in M
    BY <1>5, <2>1
  <2>3. f[k] = step[<<k, f[k - 1]>>]
    BY <1>4 DEF Solves
  <2> QED BY <2>2, <2>3 DEF step
<1>7. Eqn(f)
  <2>1. \A k \in 0 .. n : k = 0 \/ k \in 1 .. n
    OBVIOUS
  <2> HIDE DEF n
  <2> QED BY <1>5, <1>6, <2>1 DEF base
<1>8. Eqn(run)
  BY <1>7
<1>9. Run(prog, tensors) = run[n]
  BY DEF Run
<1> HIDE DEF run
<1>10. run = [k \in 0 .. n |-> run[k]] /\ run[0] = base /\ \A k \in 1 .. n : run[k] = Emitted(prog[k], run[k - 1])
  <2>1. \A k \in 1 .. n : k \in 0 .. n /\ k # 0
    OBVIOUS
  <2>2. 0 \in 0 .. n
    OBVIOUS
  <2> HIDE DEF n
  <2> QED BY <1>8, <2>1, <2>2 DEF base
<1> HIDE DEF Eqn
<1> DEFINE P == {k \in Nat : k <= n => run[k] \in M}
<1>11. 0 \in P
  BY <1>1, <1>10
<1>12. ASSUME NEW k \in Nat, k \in P PROVE k + 1 \in P
  <2> SUFFICES ASSUME k + 1 <= n PROVE run[k + 1] \in M
    OBVIOUS
  <2>1. k + 1 \in 1 .. n /\ (k + 1) - 1 = k /\ run[k] \in M
    BY <1>12
  <2>2. run[k + 1] = Emitted(prog[k + 1], run[k])
    BY <1>10, <2>1
  <2> QED BY <1>2, <2>1, <2>2
<1> HIDE DEF P
<1>13. Nat \subseteq P
  BY <1>11, <1>12, NatSetInduction
<1>14. \A k \in 0 .. n : run[k] \in M
  BY <1>13 DEF P
<1>15. run \in [0 .. n -> M]
  BY <1>10, <1>14
<1>16. Executes(prog, tensors, run)
  BY <1>9, <1>10, <1>15 DEF Executes, base, M
<1> QED BY <1>16

\* The layout of the result stores all that is computed.
Keeps(a, mem) == Stored(a.result.lay, Computed(a, mem)) = Computed(a, mem)

\* An execution in which no statement drops what it computes.
Clean(prog, tensors, f) ==
  /\ Executes(prog, tensors, f)
  /\ \A k \in 1 .. Len(prog) : Keeps(prog[k], f[k - 1])

\* b is a with t renamed to x, and its result stores what that of a does.
Moved(a, b, t, x) ==
  /\ b.add = a.add /\ b.scalar = a.scalar /\ b.term.op = a.term.op
  /\ Len(b.term.args) = Len(a.term.args)
  /\ \A l \in DOMAIN a.term.args : b.term.args[l].name = ren(a.term.args[l].name, t, x)
  /\ Def(b) = ren(Def(a), t, x)
  /\ a.result.lay.cells \subseteq b.result.lay.cells

\* The memories w and m agree on what a reads in m.
SameReads(a, m, w, t, x) == \A n \in variables(a) : w[ren(n, t, x)] = m[n]

LEMMA NotMoved ==
  ASSUME NEW a, NEW z
  PROVE  Moved(a, a, z, z)
BY DEF Moved, ren

LEMMA MovedComputes ==
  ASSUME NEW a \in Actions, NEW b \in Actions, NEW t, NEW x, Moved(a, b, t, x),
         NEW m, NEW w, SameReads(a, m, w, t, x),
         Computed(a, m) \in Values, Keeps(a, m)
  PROVE  Computed(b, w) = Computed(a, m) /\ Keeps(b, w)
<1>1. a.term.args \in Seq(Variables) /\ b.term.args \in Seq(Variables)
  BY DEF Actions, Terms
<1>2. DOMAIN b.term.args = DOMAIN a.term.args
  <2>1. Len(b.term.args) = Len(a.term.args)
    BY DEF Moved
  <2>2. DOMAIN b.term.args = 1 .. Len(b.term.args) /\ DOMAIN a.term.args = 1 .. Len(a.term.args)
    BY <1>1
  <2> QED BY <2>1, <2>2
<1>3. ASSUME NEW l \in DOMAIN a.term.args
      PROVE  w[b.term.args[l].name] = m[a.term.args[l].name]
  <2>1. a.term.args[l].name \in variables(a)
    BY DEF variables, TermNames
  <2> QED BY <2>1 DEF SameReads, Moved
<1>4. [k \in DOMAIN b.term.args |-> w[b.term.args[k].name]]
        = [k \in DOMAIN a.term.args |-> m[a.term.args[k].name]]
  BY <1>2, <1>3
<1>5. TermValue(b.term, w) = TermValue(a.term, m)
  <2> DEFINE vb == [k \in DOMAIN b.term.args |-> w[b.term.args[k].name]]
             va == [k \in DOMAIN a.term.args |-> m[a.term.args[k].name]]
  <2>1. vb = va
    BY <1>4
  <2>2. b.term.op = a.term.op
    BY DEF Moved
  <2>3. TermValue(b.term, w) = CASE b.term.op = "Variable"  -> vb[1]
                                 [] b.term.op = "Op"        -> OpValue(vb)
                                 [] b.term.op = "Permute"   -> PermuteValue(vb[1])
                                 [] b.term.op = "Broadcast" -> BroadcastValue(vb[1])
    BY DEF TermValue
  <2>4. TermValue(a.term, m) = CASE a.term.op = "Variable"  -> va[1]
                                 [] a.term.op = "Op"        -> OpValue(va)
                                 [] a.term.op = "Permute"   -> PermuteValue(va[1])
                                 [] a.term.op = "Broadcast" -> BroadcastValue(va[1])
    BY DEF TermValue
  <2> HIDE DEF va, vb
  <2> QED BY <2>1, <2>2, <2>3, <2>4
<1>6. a.add => w[b.result.name] = m[a.result.name]
  BY DEF SameReads, Moved, variables, Def
<1>7. Computed(b, w) = Computed(a, m)
  BY <1>5, <1>6 DEF Computed, Moved
<1>8. \A c \in Cells : c \notin b.result.lay.cells => Computed(a, m)[c] = 0
  <2>1. \A c \in Cells : c \notin a.result.lay.cells => Computed(a, m)[c] = 0
    BY StoredOk DEF Keeps
  <2> QED BY <2>1 DEF Moved
<1>9. Stored(b.result.lay, Computed(a, m)) = Computed(a, m)
  BY <1>8, StoredOk
<1> QED BY <1>7, <1>9 DEF Keeps

\* One statement of an execution.
StepOf(prog, f, k) ==
  /\ f[k - 1] \in [Tensor \cup Temporaries(prog) -> Values]
  /\ f[k] \in [Tensor \cup Temporaries(prog) -> Values]
  /\ \A n \in variables(prog[k]) : f[k - 1][n] \in Values
  /\ TermValue(prog[k].term, f[k - 1]) \in Values
  /\ Computed(prog[k], f[k - 1]) \in Values
  /\ Keeps(prog[k], f[k - 1]) =>
       /\ f[k][Def(prog[k])] = Computed(prog[k], f[k - 1])
       /\ \A n \in Tensor \cup Temporaries(prog) :
            n # Def(prog[k]) => f[k][n] = f[k - 1][n]

LEMMA ExecutedStep ==
  ASSUME NEW prog \in Seq(Actions), Unary(prog), NEW tensors, NEW f, Executes(prog, tensors, f),
         NEW k \in 1 .. Len(prog)
  PROVE  StepOf(prog, f, k)
<1>1. k - 1 \in 0 .. Len(prog) /\ k \in 0 .. Len(prog)
  OBVIOUS
<1>2. /\ f[k - 1] \in [Tensor \cup Temporaries(prog) -> Values]
      /\ f[k] \in [Tensor \cup Temporaries(prog) -> Values]
  BY <1>1 DEF Executes
<1>3. variables(prog[k]) \subseteq Tensor \cup Temporaries(prog) /\ Def(prog[k]) \in Tensor \cup Temporaries(prog)
  BY MemoryNames
<1>4. \A n \in variables(prog[k]) : f[k - 1][n] \in Values
  BY <1>2, <1>3
<1>5. prog[k] \in Actions /\ (prog[k].term.op # "Op" => Len(prog[k].term.args) = 1)
  BY DEF Unary
<1>6. TermValue(prog[k].term, f[k - 1]) \in Values /\ Computed(prog[k], f[k - 1]) \in Values
  BY <1>4, <1>5, ComputedOk
<1>7. f[k] = [f[k - 1] EXCEPT ![Def(prog[k])] =
                Stored(prog[k].result.lay, Computed(prog[k], f[k - 1]))]
  BY EmittedComputed DEF Executes
<1> QED BY <1>2, <1>3, <1>4, <1>6, <1>7 DEF Keeps, StepOf

\* Two executions agree on the names of F, those of the second renamed.
Agree(F, m, w, t, x) == \A n \in F : w[ren(n, t, x)] = m[n]

\* Statement j of new does what statement j + s of prog does, where F[j] are the names
\* on which the two executions are to agree after it.
InStep(prog, new, s, F, j, t, x) ==
  LET a == prog[j + s]
  IN  /\ j + s \in 1 .. Len(prog) /\ j \in 1 .. Len(new)
      /\ Moved(a, new[j], t, x)
      /\ variables(a) \subseteq F[j - 1]
      /\ \A n \in F[j] : \/ n = Def(a)
                         \/ n \in F[j - 1] /\ ren(n, t, x) # ren(Def(a), t, x)
      /\ F[j] \subseteq Tensor \cup Temporaries(prog)
      /\ \A n \in F[j] : ren(n, t, x) \in Tensor \cup Temporaries(new)

LEMMA StepsTogether ==
  ASSUME NEW prog \in Seq(Actions), NEW new \in Seq(Actions), Unary(prog), Unary(new),
         NEW tensors, NEW f, Clean(prog, tensors, f), NEW g, Executes(new, tensors, g),
         NEW p \in Nat, NEW q \in Nat, p <= q, NEW s \in Nat, NEW t, NEW x, NEW F,
         Agree(F[p], f[p + s], g[p], t, x),
         \A j \in p + 1 .. q : InStep(prog, new, s, F, j, t, x)
  PROVE  /\ \A j \in p .. q : Agree(F[j], f[j + s], g[j], t, x)
         /\ \A j \in p + 1 .. q : Keeps(new[j], g[j - 1])
<1>1. ASSUME NEW j \in p + 1 .. q, Agree(F[j - 1], f[(j - 1) + s], g[j - 1], t, x)
      PROVE  Keeps(new[j], g[j - 1]) /\ Agree(F[j], f[j + s], g[j], t, x)
  <2> DEFINE a == prog[j + s]
             b == new[j]
             l == j + s
  <2>1. InStep(prog, new, s, F, j, t, x)
    OBVIOUS
  <2>2. l \in 1 .. Len(prog) /\ j \in 1 .. Len(new) /\ l - 1 = (j - 1) + s
    BY <2>1 DEF InStep
  <2>3. a \in Actions /\ b \in Actions /\ Moved(a, b, t, x)
    <3>1. a \in Actions /\ b \in Actions
      BY <2>2
    <3> QED BY <2>1, <3>1 DEF InStep
  <2>4. Executes(prog, tensors, f) /\ Keeps(a, f[l - 1])
    BY <2>2 DEF Clean
  <2>5. SameReads(a, f[l - 1], g[j - 1], t, x)
    BY <1>1, <2>1, <2>2 DEF SameReads, Agree, InStep
  <2>6. /\ Computed(a, f[l - 1]) \in Values
        /\ f[l][Def(a)] = Computed(a, f[l - 1])
        /\ \A n \in Tensor \cup Temporaries(prog) : n # Def(a) => f[l][n] = f[l - 1][n]
    <3>1. StepOf(prog, f, l)
      BY <2>2, <2>4, ExecutedStep
    <3> QED BY <2>4, <3>1 DEF StepOf
  <2>7. Computed(b, g[j - 1]) = Computed(a, f[l - 1]) /\ Keeps(b, g[j - 1])
    <3> HIDE DEF a, b, l
    <3> QED BY <2>3, <2>4, <2>5, <2>6, MovedComputes
  <2>8. /\ g[j][Def(b)] = Computed(b, g[j - 1])
        /\ \A n \in Tensor \cup Temporaries(new) : n # Def(b) => g[j][n] = g[j - 1][n]
    <3>1. StepOf(new, g, j)
      BY <2>2, ExecutedStep
    <3> QED BY <2>7, <3>1 DEF StepOf
  <2>9. Def(b) = ren(Def(a), t, x)
    BY <2>3 DEF Moved
  <2>10. ASSUME NEW n \in F[j] PROVE g[j][ren(n, t, x)] = f[l][n]
    <3>1. CASE n = Def(a)
      BY <2>6, <2>7, <2>8, <2>9, <3>1
    <3>2. CASE n # Def(a)
      <4>1. /\ n \in F[j - 1] /\ ren(n, t, x) # Def(b)
            /\ n \in Tensor \cup Temporaries(prog)
            /\ ren(n, t, x) \in Tensor \cup Temporaries(new)
        BY <2>1, <2>9, <3>2 DEF InStep
      <4>2. f[l][n] = f[l - 1][n] /\ g[j][ren(n, t, x)] = g[j - 1][ren(n, t, x)]
        BY <2>6, <2>8, <3>2, <4>1
      <4>3. g[j - 1][ren(n, t, x)] = f[l - 1][n]
        BY <1>1, <2>2, <4>1 DEF Agree
      <4> QED BY <4>2, <4>3
    <3> QED BY <3>1, <3>2
  <2> QED BY <2>7, <2>10 DEF Agree
<1> DEFINE P == {d \in Nat : p + d <= q => Agree(F[p + d], f[(p + d) + s], g[p + d], t, x)}
<1>2. 0 \in P
  OBVIOUS
<1>3. ASSUME NEW d \in Nat, d \in P PROVE d + 1 \in P
  <2> SUFFICES ASSUME p + (d + 1) <= q
               PROVE  Agree(F[p + (d + 1)], f[(p + (d + 1)) + s], g[p + (d + 1)], t, x)
    OBVIOUS
  <2> DEFINE j == p + (d + 1)
  <2>1. j \in p + 1 .. q /\ j - 1 = p + d /\ p + d <= q
    OBVIOUS
  <2>2. Agree(F[p + d], f[(p + d) + s], g[p + d], t, x)
    BY <1>3, <2>1
  <2> HIDE DEF j
  <2>3. Agree(F[j], f[j + s], g[j], t, x)
    BY <1>1, <2>1, <2>2
  <2> QED BY <2>3 DEF j
<1> HIDE DEF P
<1>4. Nat \subseteq P
  BY <1>2, <1>3, NatSetInduction
<1>5. ASSUME NEW j \in p .. q PROVE Agree(F[j], f[j + s], g[j], t, x)
  <2>1. j - p \in Nat /\ p + (j - p) = j /\ j <= q
    OBVIOUS
  <2>2. j - p \in P
    BY <1>4, <2>1
  <2> QED BY <2>1, <2>2 DEF P
<1>6. ASSUME NEW j \in p + 1 .. q PROVE Keeps(new[j], g[j - 1])
  <2>1. j - 1 \in p .. q
    OBVIOUS
  <2>2. Agree(F[j - 1], f[(j - 1) + s], g[j - 1], t, x)
    BY <1>5, <2>1
  <2> QED BY <1>1, <2>2
<1> QED BY <1>5, <1>6

InMemory(prog) == Tensor \cup Temporaries(prog)

LEMMA MemoryIs ==
  ASSUME NEW prog \in Seq(Actions), NEW n
  PROVE  n \in InMemory(prog) <=>
           n \in Tensor \/ \E k \in 1 .. Len(prog) : n \in occurring(prog[k])
<1>1. DOMAIN prog = 1 .. Len(prog)
  OBVIOUS
<1> QED BY <1>1 DEF InMemory, Temporaries, occurring

\* One more statement.
LEMMA AppendRuns ==
  ASSUME NEW prog \in Seq(Actions), Unary(prog),
         NEW a \in Actions, a.term.op # "Op" => Len(a.term.args) = 1,
         NEW tensors \in [Tensor -> Values], NEW f, Clean(prog, tensors, f),
         variables(a) \subseteq InMemory(prog), Keeps(a, Run(prog, tensors))
  PROVE  LET new == Append(prog, a)
         IN  /\ new \in Seq(Actions) /\ Unary(new)
             /\ \E g : Clean(new, tensors, g)
             /\ \A n : n \in InMemory(new) <=> n \in InMemory(prog) \/ n = Def(a)
             /\ Run(new, tensors)[Def(a)] = Computed(a, Run(prog, tensors))
             /\ \A n \in InMemory(prog) :
                  n # Def(a) => Run(new, tensors)[n] = Run(prog, tensors)[n]
<1> DEFINE new == Append(prog, a)
           m == Len(prog)
           F == [j \in Nat |-> InMemory(prog)]
<1>1. /\ m \in Nat /\ new \in Seq(Actions) /\ Len(new) = m + 1 /\ new[m + 1] = a
      /\ \A j \in 1 .. m : new[j] = prog[j] /\ j \in 1 .. m + 1
      /\ \A j \in 1 .. m + 1 : j \in 1 .. m \/ j = m + 1
      /\ m + 1 \in 1 .. m + 1 /\ (m + 1) - 1 = m
  OBVIOUS
<1> HIDE DEF new, m
<1>2. Unary(new)
  BY <1>1 DEF Unary, m
<1>3. PICK g : Executes(new, tensors, g)
  BY <1>1, <1>2, ExecutionExists
<1>4. \A n : n \in InMemory(new) <=> n \in InMemory(prog) \/ n = Def(a)
  <2>1. \A n : n \in InMemory(prog) <=> n \in Tensor \/ \E k \in 1 .. m : n \in occurring(prog[k])
    BY MemoryIs DEF m
  <2>2. \A n : n \in InMemory(new) <=> n \in Tensor \/ \E k \in 1 .. m + 1 : n \in occurring(new[k])
    BY <1>1, MemoryIs
  <2>3. occurring(a) = variables(a) \cup {Def(a)}
    BY DEF occurring
  <2> QED BY <1>1, <2>1, <2>2, <2>3
<1>5. Executes(prog, tensors, f) /\ f[m] = Run(prog, tensors)
  BY DEF Clean, Executes, m
<1>6. Agree(F[0], f[0 + 0], g[0], 0, 0)
  <2>1. f[0] = Loaded(prog, tensors) /\ g[0] = Loaded(new, tensors)
    BY <1>3, <1>5 DEF Executes
  <2>2. \A n \in InMemory(prog) : g[0][n] = f[0][n]
    BY <1>4, <2>1 DEF Loaded, InMemory
  <2> QED BY <2>2 DEF Agree, ren
<1>7. ASSUME NEW j \in 0 + 1 .. m PROVE InStep(prog, new, 0, F, j, 0, 0)
  <2>1. /\ j + 0 = j /\ j \in 1 .. Len(prog) /\ j \in 1 .. Len(new) /\ new[j] = prog[j]
        /\ j - 1 \in Nat /\ j \in Nat
    BY <1>1 DEF m
  <2>2. Moved(prog[j], new[j], 0, 0)
    BY <2>1, NotMoved
  <2>3. variables(prog[j]) \subseteq InMemory(prog)
    BY <2>1, MemoryNames DEF InMemory
  <2>4. F[j] = InMemory(prog) /\ F[j - 1] = InMemory(prog)
    BY <2>1
  <2>5. \A n, z : ren(n, z, z) = n
    BY DEF ren
  <2> HIDE DEF F
  <2> QED BY <1>4, <2>1, <2>2, <2>3, <2>4, <2>5 DEF InStep, InMemory
<1>8. /\ \A n \in InMemory(prog) : g[m][n] = f[m][n]
      /\ \A j \in 0 + 1 .. m : Keeps(new[j], g[j - 1])
  <2>1. m \in 0 .. m /\ m + 0 = m /\ F[m] = InMemory(prog) /\ 0 \in Nat /\ 0 <= m
    BY <1>1
  <2> HIDE DEF F
  <2>2. /\ \A j \in 0 .. m : Agree(F[j], f[j + 0], g[j], 0, 0)
        /\ \A j \in 0 + 1 .. m : Keeps(new[j], g[j - 1])
    BY ZenonT(30), <1>1, <1>2, <1>3, <1>6, <1>7, <2>1, StepsTogether
  <2>3. Agree(InMemory(prog), f[m], g[m], 0, 0)
    BY <2>1, <2>2
  <2> QED BY <2>2, <2>3 DEF Agree, ren
<1>9. Computed(a, g[m]) = Computed(a, f[m]) /\ Keeps(a, g[m])
  <2>1. SameReads(a, f[m], g[m], 0, 0) /\ Moved(a, a, 0, 0)
    BY <1>8, NotMoved DEF SameReads, ren
  <2>2. Computed(a, f[m]) \in Values
    <3>1. \A n \in variables(a) : f[m][n] \in Values
      <4>1. m \in 0 .. Len(prog)
        BY <1>1 DEF m
      <4>2. f[m] \in [InMemory(prog) -> Values]
        BY <1>5, <4>1 DEF Executes, InMemory
      <4> QED BY <4>2
    <3> QED BY <3>1, ComputedOk
  <2> QED BY <1>5, <2>1, <2>2, MovedComputes
<1>10. /\ g[m + 1][Def(a)] = Computed(a, f[m])
       /\ \A n \in InMemory(prog) : n # Def(a) => g[m + 1][n] = f[m][n]
  <2>1. StepOf(new, g, m + 1)
    BY <1>1, <1>2, <1>3, ExecutedStep
  <2> QED BY <1>1, <1>4, <1>8, <1>9, <2>1 DEF StepOf, InMemory
<1>11. Run(new, tensors) = g[m + 1]
  BY <1>1, <1>3 DEF Executes
<1>12. Clean(new, tensors, g)
  <2>1. ASSUME NEW j \in 1 .. m + 1 PROVE Keeps(new[j], g[j - 1])
    BY <1>1, <1>8, <1>9, <2>1
  <2> QED BY <1>1, <1>3, <2>1 DEF Clean
<1> QED BY <1>1, <1>2, <1>4, <1>5, <1>10, <1>11, <1>12 DEF new

\* A variable keeps its value until it is assigned.
LEMMA ValueKept ==
  ASSUME NEW prog \in Seq(Actions), Unary(prog), NEW tensors, NEW f, Executes(prog, tensors, f),
         NEW p \in 0 .. Len(prog), NEW q \in p .. Len(prog),
         \A j \in p + 1 .. q : Keeps(prog[j], f[j - 1]),
         NEW n \in Tensor \cup Temporaries(prog), \A j \in p + 1 .. q : Def(prog[j]) # n
  PROVE  f[q][n] = f[p][n]
<1> DEFINE P == {d \in Nat : p + d <= q => f[p + d][n] = f[p][n]}
<1>1. 0 \in P
  OBVIOUS
<1>2. ASSUME NEW d \in Nat, d \in P PROVE d + 1 \in P
  <2> SUFFICES ASSUME p + (d + 1) <= q PROVE f[p + (d + 1)][n] = f[p][n]
    OBVIOUS
  <2> DEFINE j == p + (d + 1)
  <2>1. j \in p + 1 .. q /\ j \in 1 .. Len(prog) /\ j - 1 = p + d /\ p + d <= q
    OBVIOUS
  <2>2. f[p + d][n] = f[p][n]
    BY <1>2, <2>1
  <2> HIDE DEF j
  <2>3. Keeps(prog[j], f[j - 1])
    BY <2>1
  <2>4. f[j][n] = f[j - 1][n]
    <3>1. StepOf(prog, f, j)
      BY <2>1, ExecutedStep
    <3>2. Def(prog[j]) # n
      BY <2>1
    <3> QED BY <2>3, <3>1, <3>2 DEF StepOf
  <2> QED BY <2>1, <2>2, <2>4 DEF j
<1> HIDE DEF P
<1>3. Nat \subseteq P
  BY <1>1, <1>2, NatSetInduction
<1>4. q - p \in Nat /\ p + (q - p) = q
  OBVIOUS
<1>5. q - p \in P
  BY <1>3, <1>4
<1> QED BY <1>4, <1>5 DEF P
\* new leaves the global tensors as prog does.
SameResults(prog, new, tensors) == \A n \in Global : Run(new, tensors)[n] = Run(prog, tensors)[n]
KeepsResults(prog, new, tensors) ==
  /\ \E g : Clean(new, tensors, g)
  /\ SameResults(prog, new, tensors)

\* All that new reads or writes is written or read by prog.
Familiar(prog, new) == InMemory(new) \subseteq InMemory(prog)

\* Both programs start with the same statements.
LEMMA SameStart ==
  ASSUME NEW prog \in Seq(Actions), NEW new \in Seq(Actions), Unary(prog), Unary(new),
         Familiar(prog, new), NEW tensors \in [Tensor -> Values],
         NEW f, Clean(prog, tensors, f), NEW g, Executes(new, tensors, g),
         NEW q \in Nat, q <= Len(prog), q <= Len(new),
         \A j \in 1 .. q : new[j] = prog[j]
  PROVE  /\ \A n \in InMemory(new) : g[q][n] = f[q][n]
         /\ \A j \in 1 .. q : Keeps(new[j], g[j - 1])
<1> DEFINE F == [j \in Nat |-> InMemory(new)]
<1>1. \A n, z : ren(n, z, z) = n
  BY DEF ren
<1>2. Agree(F[0], f[0 + 0], g[0], 0, 0)
  <2>1. \A n \in InMemory(new) : g[0][n] = f[0][n]
    <3>1. f[0] = Loaded(prog, tensors) /\ g[0] = Loaded(new, tensors)
      BY DEF Clean, Executes
    <3>2. \A n \in InMemory(new) : n \in InMemory(prog)
      BY DEF Familiar
    <3> QED BY <3>1, <3>2 DEF Loaded, InMemory
  <2> QED BY <1>1, <2>1 DEF Agree
<1>3. ASSUME NEW j \in 1 .. q PROVE InStep(prog, new, 0, F, j, 0, 0)
  <2>1. /\ j + 0 = j /\ j \in 1 .. Len(prog) /\ j \in 1 .. Len(new) /\ new[j] = prog[j]
        /\ j - 1 \in Nat /\ j \in Nat
    OBVIOUS
  <2>2. Moved(prog[j], new[j], 0, 0)
    BY <2>1, NotMoved
  <2>3. variables(prog[j]) \subseteq InMemory(new)
    BY <2>1, MemoryNames DEF InMemory
  <2>4. F[j] = InMemory(new) /\ F[j - 1] = InMemory(new)
    BY <2>1
  <2> HIDE DEF F
  <2> QED BY <1>1, <2>1, <2>2, <2>3, <2>4 DEF InStep, Familiar, InMemory
<1> HIDE DEF F
<1>4. /\ \A j \in 0 .. q : Agree(F[j], f[j + 0], g[j], 0, 0)
      /\ \A j \in 0 + 1 .. q : Keeps(new[j], g[j - 1])
  <2>1. \A j \in 0 + 1 .. q : InStep(prog, new, 0, F, j, 0, 0)
    BY <1>3
  <2>2. 0 \in Nat /\ 0 <= q
    OBVIOUS
  <2> QED BY <1>2, <2>1, <2>2, StepsTogether
<1>5. Agree(F[q], f[q + 0], g[q], 0, 0)
  BY <1>4
<1> QED BY <1>1, <1>4, <1>5 DEF Agree, F


\* What statement l of prog reads, or leaves to the user of the kernel.
Needed(prog, n, l) == IF l \in 1 .. Len(prog) THEN n \in variables(prog[l]) ELSE n \in Global

\* The value that n has after statement k is not used.
Dead(prog, n, k) ==
  \A l \in k + 1 .. Len(prog) + 1 :
    Needed(prog, n, l) => \E d \in k + 1 .. l - 1 : Def(prog[d]) = n

LEMMA DeadMeans ==
  ASSUME NEW prog \in Seq(Actions), NEW n, NEW k \in 0 .. Len(prog)
  PROVE  Dead(prog, n, k) <=>
           /\ \A l \in k + 1 .. Len(prog) :
                n \in variables(prog[l]) => \E d \in k + 1 .. l - 1 : Def(prog[d]) = n
           /\ n \in Global => \E d \in k + 1 .. Len(prog) : Def(prog[d]) = n
<1> DEFINE m == Len(prog)
<1>1. /\ m \in Nat /\ (m + 1) - 1 = m /\ m + 1 \in k + 1 .. m + 1 /\ m + 1 \notin 1 .. m
      /\ \A l \in k + 1 .. m : l \in k + 1 .. m + 1 /\ l \in 1 .. m
      /\ \A l \in k + 1 .. m + 1 : l = m + 1 \/ l \in k + 1 .. m
  OBVIOUS
<1> HIDE DEF m
<1>2. /\ \A l \in k + 1 .. m : Needed(prog, n, l) <=> n \in variables(prog[l])
      /\ Needed(prog, n, m + 1) <=> n \in Global
  BY <1>1 DEF Needed, m
<1>3. Dead(prog, n, k) <=> \A l \in k + 1 .. m + 1 :
        Needed(prog, n, l) => \E d \in k + 1 .. l - 1 : Def(prog[d]) = n
  BY DEF Dead, m
<1> QED BY <1>1, <1>2, <1>3 DEF m

\* From statement p of new on, which is statement p + s of prog, the programs are
\* the same, and so are their memories but for the names of T, whose values are
\* not used.
EndsAlike(prog, new, f, g, p, s, T) ==
  /\ p \in 0 .. Len(new) /\ s \in Nat /\ Len(prog) = Len(new) + s
  /\ \A j \in p + 1 .. Len(new) : new[j] = prog[j + s]
  /\ \A j \in 1 .. p : Keeps(new[j], g[j - 1])
  /\ \A n \in T : Dead(prog, n, p + s)
  /\ \A n \in InMemory(new) : n \notin T => g[p][n] = f[p + s][n]

\* The programs end with the same statements, and up to variables whose values
\* are not used agree on the memory before them.
LEMMA SameEnd ==
  ASSUME NEW prog \in Seq(Actions), NEW new \in Seq(Actions), Unary(prog), Unary(new),
         Familiar(prog, new), NEW tensors \in [Tensor -> Values],
         NEW f, Clean(prog, tensors, f), NEW g, Executes(new, tensors, g),
         NEW p, NEW s, NEW T, EndsAlike(prog, new, f, g, p, s, T)
  PROVE  KeepsResults(prog, new, tensors)
<1> DEFINE m == Len(new)
           Assigned(n, j) == \E d \in p + 1 .. j : Def(new[d]) = n
           F == [j \in Nat |-> {n \in InMemory(new) : n \in T => Assigned(n, j)}]
<1>0. /\ p \in 0 .. Len(new) /\ s \in Nat /\ Len(prog) = Len(new) + s
      /\ \A j \in p + 1 .. Len(new) : new[j] = prog[j + s]
      /\ \A j \in 1 .. p : Keeps(new[j], g[j - 1])
      /\ \A n \in T : Dead(prog, n, p + s)
      /\ \A n \in InMemory(new) : n \notin T => g[p][n] = f[p + s][n]
  BY DEF EndsAlike
<1>00. p \in 0 .. Len(new) /\ s \in Nat /\ Len(prog) = Len(new) + s
  BY <1>0
<1>1. /\ m \in Nat /\ p \in Nat /\ p <= m /\ p \in p .. m /\ m \in p .. m /\ s \in Nat
      /\ \A j \in p + 1 .. m : /\ j \in Nat /\ j - 1 \in Nat /\ j \in 1 .. m /\ j + s \in 1 .. Len(prog)
                               /\ j + s \in (p + s) + 1 .. Len(prog)
      /\ \A j \in 1 .. m : j \in 1 .. p \/ j \in p + 1 .. m
      /\ p + s \in 0 .. Len(prog) /\ Len(prog) = m + s
  BY <1>00
<1>2. \A j \in Nat : F[j] = {n \in InMemory(new) : n \in T => Assigned(n, j)}
  OBVIOUS
<1> HIDE DEF m, F
<1>3. ASSUME NEW n \in T PROVE
        /\ \A j \in p + 1 .. m : n \in variables(new[j]) => Assigned(n, j - 1)
        /\ n \in Global => Assigned(n, m)
  <2>1. /\ \A l \in (p + s) + 1 .. Len(prog) :
             n \in variables(prog[l]) => \E d \in (p + s) + 1 .. l - 1 : Def(prog[d]) = n
        /\ n \in Global => \E d \in (p + s) + 1 .. Len(prog) : Def(prog[d]) = n
    <3> DEFINE e == p + s
    <3>1. Dead(prog, n, e) /\ e \in 0 .. Len(prog)
      BY <1>0, <1>1, <1>3
    <3> HIDE DEF e
    <3>2. /\ \A l \in e + 1 .. Len(prog) :
               n \in variables(prog[l]) => \E d \in e + 1 .. l - 1 : Def(prog[d]) = n
          /\ n \in Global => \E d \in e + 1 .. Len(prog) : Def(prog[d]) = n
      BY <3>1, DeadMeans
    <3> QED BY <3>2 DEF e
  <2>2. ASSUME NEW d \in (p + s) + 1 .. Len(prog), Def(prog[d]) = n
        PROVE  d - s \in p + 1 .. m /\ Def(new[d - s]) = n
    <3>1. d - s \in p + 1 .. m /\ (d - s) + s = d
      BY <1>0, <1>1 DEF m
    <3> QED BY <1>0, <2>2, <3>1 DEF m
  <2>3. n \in Global => Assigned(n, m)
    BY <2>1, <2>2
  <2>4. ASSUME NEW j \in p + 1 .. m, n \in variables(new[j]) PROVE Assigned(n, j - 1)
    <3>1. n \in variables(prog[j + s]) /\ j + s \in (p + s) + 1 .. Len(prog)
      BY <1>0, <1>1, <2>4 DEF m
    <3>2. PICK d \in (p + s) + 1 .. (j + s) - 1 : Def(prog[d]) = n
      BY <2>1, <3>1
    <3>3. d \in (p + s) + 1 .. Len(prog) /\ d - s \in p + 1 .. j - 1
      BY <1>1, <3>1, <3>2
    <3> QED BY <2>2, <3>2, <3>3
  <2> QED BY <2>3, <2>4
<1>4. ASSUME NEW j \in p + 1 .. m PROVE InStep(prog, new, s, F, j, 0, 0)
  <2>1. /\ j + s \in 1 .. Len(prog) /\ j \in 1 .. Len(new) /\ new[j] = prog[j + s]
        /\ j - 1 \in Nat /\ j \in Nat
    BY <1>0, <1>1 DEF m
  <2>2. Moved(prog[j + s], new[j], 0, 0)
    BY <2>1, NotMoved
  <2>3. variables(new[j]) \subseteq InMemory(new)
    BY <2>1, MemoryNames DEF InMemory
  <2>4. /\ F[j] = {n \in InMemory(new) : n \in T => Assigned(n, j)}
        /\ F[j - 1] = {n \in InMemory(new) : n \in T => Assigned(n, j - 1)}
    BY <1>2, <2>1
  <2>5. \A n : Assigned(n, j) <=> Assigned(n, j - 1) \/ Def(new[j]) = n
    <3>1. \A d : d \in p + 1 .. j <=> d \in p + 1 .. j - 1 \/ d = j
      BY <1>1
    <3> QED BY <3>1
  <2>6. variables(new[j]) \subseteq F[j - 1]
    BY <1>3, <2>3, <2>4
  <2> HIDE DEF Assigned
  <2>7. \A n, z : ren(n, z, z) = n
    BY DEF ren
  <2>8. \A n \in F[j] : n = Def(new[j]) \/ (n \in F[j - 1] /\ n # Def(new[j]))
    BY <2>4, <2>5
  <2>9. F[j] \subseteq InMemory(new) /\ F[j] \subseteq InMemory(prog)
    BY <2>4 DEF Familiar
  <2> QED BY <2>1, <2>2, <2>6, <2>7, <2>8, <2>9 DEF InStep, InMemory
<1>5. Agree(F[p], f[p + s], g[p], 0, 0)
  <2>1. \A n \in F[p] : n \in InMemory(new) /\ n \notin T
    <3>1. p + 1 .. p = {}
      BY <1>1
    <3> QED BY <1>1, <1>2, <3>1
  <2> QED BY <1>0, <2>1 DEF Agree, ren
<1>6. /\ \A j \in p .. m : Agree(F[j], f[j + s], g[j], 0, 0)
      /\ \A j \in p + 1 .. m : Keeps(new[j], g[j - 1])
  <2>1. \A j \in p + 1 .. m : InStep(prog, new, s, F, j, 0, 0)
    BY <1>4
  <2>2. p \in Nat /\ m \in Nat /\ p <= m /\ s \in Nat
    BY <1>1
  <2> HIDE DEF Assigned
  <2> QED BY <1>5, <2>1, <2>2, StepsTogether
<1>7. Clean(new, tensors, g)
  BY <1>0, <1>1, <1>6 DEF Clean, m
<1>8. SameResults(prog, new, tensors)
  <2> SUFFICES ASSUME NEW n \in Global PROVE Run(new, tensors)[n] = Run(prog, tensors)[n]
    BY DEF SameResults
  <2>1. Run(new, tensors) = g[m] /\ Run(prog, tensors) = f[m + s]
    <3>1. Run(new, tensors) = g[Len(new)] /\ Run(prog, tensors) = f[Len(prog)]
      BY DEF Executes, Clean
    <3>2. Len(prog) = m + s /\ Len(new) = m
      BY <1>00 DEF m
    <3> QED BY <3>1, <3>2
  <2>2. n \in InMemory(new)
    BY DEF InMemory, Tensor
  <2>3. n \in F[m]
    BY <1>1, <1>2, <1>3, <2>2
  <2>4. Agree(F[m], f[m + s], g[m], 0, 0)
    BY <1>1, <1>6
  <2> QED BY <2>1, <2>3, <2>4 DEF Agree, ren
<1> QED BY <1>7, <1>8 DEF KeepsResults

\* x is used in the place of t from statement k on, which computes t from x.
LEMMA ForwardRuns ==
  ASSUME NEW prog \in Seq(Actions), NEW new \in Seq(Actions), Unary(prog), Unary(new),
         Len(new) = Len(prog), NEW tensors \in [Tensor -> Values],
         NEW f, Clean(prog, tensors, f),
         NEW k \in 1 .. Len(prog), NEW t, NEW x, t # x, isLocal(t),
         Def(prog[k]) = t, variables(prog[k]) = {x},
         \A j \in 1 .. k - 1 : new[j] = prog[j],
         \A j \in k .. Len(prog) : Moved(prog[j], new[j], t, x),
         Dead(prog, x, k),
         \A d \in k + 1 .. Len(prog) : Def(prog[d]) = x =>
           \A j \in d + 1 .. Len(prog) : t \notin occurring(prog[j]),
         \A j \in k .. Len(prog) : \A n \in occurring(prog[j]) :
           ren(n, t, x) \in occurring(new[j]),
         Familiar(prog, new)
  PROVE  KeepsResults(prog, new, tensors)
<1> DEFINE n == Len(prog)
           Assigned(j) == \E d \in k + 1 .. j : Def(prog[d]) = x
           G == [j \in Nat |-> IF j < k THEN InMemory(new) \ {t}
                               ELSE (InMemory(new) \ {x, t}) \cup {IF Assigned(j) THEN x ELSE t}]
<1>1. n \in Nat /\ k \in 1 .. n /\ k - 1 \in Nat /\ k - 1 <= n /\ Len(new) = n
  OBVIOUS
<1>0. /\ \A j \in k + 1 .. Len(prog) :
           x \in variables(prog[j]) => \E d \in k + 1 .. j - 1 : Def(prog[d]) = x
      /\ x \in Global => \E d \in k + 1 .. Len(prog) : Def(prog[d]) = x
  BY <1>1, DeadMeans
<1>2. PICK g : Executes(new, tensors, g)
  BY ExecutionExists
<1>3. /\ \A m \in InMemory(new) : g[k - 1][m] = f[k - 1][m]
      /\ \A j \in 1 .. k - 1 : Keeps(new[j], g[j - 1])
  BY <1>1, <1>2, SameStart
<1>4. Agree(G[k - 1], f[(k - 1) + 0], g[k - 1], t, x)
  <2>1. G[k - 1] = InMemory(new) \ {t} /\ (k - 1) + 0 = k - 1
    BY <1>1
  <2> HIDE DEF G
  <2> QED BY <1>3, <2>1 DEF Agree, ren
<1>5. x \in InMemory(new) /\ x \in InMemory(prog) /\ t \in InMemory(prog) /\ t \notin Tensor
  <2>1. x \in occurring(new[k]) /\ x \in occurring(prog[k]) /\ t \in occurring(prog[k])
    <3>1. x \in occurring(prog[k]) /\ t \in occurring(prog[k]) /\ ren(x, t, x) = x
      BY DEF occurring, ren
    <3> QED BY <1>1, <3>1
  <2> QED BY <1>1, <2>1, MemoryIs DEF isLocal
<1>6. ASSUME NEW j \in k .. n PROVE InStep(prog, new, 0, G, j, t, x)
  <2> DEFINE a == prog[j]
  <2>1. /\ j + 0 = j /\ j \in 1 .. n /\ j - 1 \in Nat /\ j \in Nat /\ ~ (j < k)
        /\ (j = k => j - 1 < k) /\ (j # k => ~ (j - 1 < k) /\ j \in k + 1 .. n)
    BY <1>1
  <2>2. G[j] = (InMemory(new) \ {x, t}) \cup {IF Assigned(j) THEN x ELSE t}
    BY <2>1
  <2>3. G[j - 1] = IF j = k THEN InMemory(new) \ {t}
                   ELSE (InMemory(new) \ {x, t}) \cup {IF Assigned(j - 1) THEN x ELSE t}
    BY <2>1
  <2> HIDE DEF G
  <2>4. /\ Assigned(j) <=> (j # k /\ (Assigned(j - 1) \/ Def(a) = x))
        /\ ~ Assigned(k)
    <3>1. ~ Assigned(k)
      BY <1>1
    <3>2. ASSUME j # k PROVE Assigned(j) <=> Assigned(j - 1) \/ Def(a) = x
      <4>1. \A d : d \in k + 1 .. j <=> d \in k + 1 .. j - 1 \/ d = j
        BY <1>1, <2>1, <3>2
      <4> QED BY <4>1
    <3> QED BY <3>1, <3>2
  <2>5. j # k => /\ x \in variables(a) => Assigned(j - 1)
                 /\ t \in occurring(a) => ~ Assigned(j - 1)
    <3> SUFFICES ASSUME j # k
                 PROVE  /\ x \in variables(a) => Assigned(j - 1)
                        /\ t \in occurring(a) => ~ Assigned(j - 1)
      OBVIOUS
    <3>1. x \in variables(a) => Assigned(j - 1)
      BY <1>0, <2>1
    <3>2. ASSUME NEW d \in k + 1 .. j - 1, Def(prog[d]) = x PROVE t \notin occurring(a)
      <4>1. d \in k + 1 .. n /\ j \in d + 1 .. n
        BY <1>1, <2>1
      <4> QED BY <3>2, <4>1
    <3> QED BY <3>1, <3>2
  <2>6. \A m \in occurring(a) : ren(m, t, x) \in InMemory(new) /\ m \in InMemory(prog)
    <3>1. j \in k .. Len(prog) /\ j \in 1 .. Len(new) /\ j \in 1 .. Len(prog)
      BY <1>1, <2>1
    <3> QED BY <3>1, MemoryIs
  <2>7. variables(a) \subseteq G[j - 1]
    <3> SUFFICES ASSUME NEW m \in variables(a) PROVE m \in G[j - 1]
      OBVIOUS
    <3>1. m \in occurring(a)
      BY DEF occurring
    <3>2. m # t /\ m # x => m \in InMemory(new)
      BY <2>6, <3>1 DEF ren
    <3>3. CASE j = k
      BY <1>5, <2>3, <3>3
    <3>4. CASE j # k
      BY <2>3, <2>5, <3>1, <3>2, <3>4
    <3> QED BY <3>3, <3>4
  <2>8. ASSUME NEW m \in G[j]
        PROVE  \/ m = Def(a)
               \/ m \in G[j - 1] /\ ren(m, t, x) # ren(Def(a), t, x)
    <3> SUFFICES ASSUME m # Def(a)
                 PROVE  m \in G[j - 1] /\ ren(m, t, x) # ren(Def(a), t, x)
      OBVIOUS
    <3>1. CASE j = k
      <4>1. m \in InMemory(new) \ {x, t}
        BY <2>2, <2>4, <2>8, <3>1
      <4> QED BY <2>3, <3>1, <4>1 DEF ren
    <3>2. CASE j # k
      <4>1. CASE m \notin {x, t}
        <5>1. m \in G[j - 1]
          BY <2>2, <2>3, <2>8, <3>2, <4>1
        <5> QED BY <4>1, <5>1 DEF ren
      <4>2. CASE m = x
        <5>1. Assigned(j - 1)
          BY <2>2, <2>4, <2>8, <3>2, <4>2
        <5>2. Def(a) # t
          BY <2>5, <3>2, <5>1 DEF occurring
        <5> QED BY <2>3, <3>2, <4>2, <5>1, <5>2 DEF ren
      <4>3. CASE m = t
        <5>1. ~ Assigned(j)
          BY <2>2, <2>8, <4>3
        <5>2. ~ Assigned(j - 1) /\ Def(a) # x
          BY <2>4, <3>2, <5>1
        <5> QED BY <2>3, <3>2, <4>3, <5>2 DEF ren
      <4> QED BY <4>1, <4>2, <4>3
    <3> QED BY <3>1, <3>2
  <2>9. \A m \in G[j] : m \in InMemory(prog) /\ ren(m, t, x) \in InMemory(new)
    <3>1. \A m \in InMemory(new) : m \in InMemory(prog)
      BY DEF Familiar
    <3> HIDE DEF Assigned
    <3> QED BY <1>5, <2>2, <3>1 DEF ren
  <2>10. Moved(prog[j], new[j], t, x) /\ j \in 1 .. Len(prog) /\ j \in 1 .. Len(new)
    BY <1>1, <2>1
  <2> QED BY <2>1, <2>7, <2>8, <2>9, <2>10 DEF InStep, InMemory
<1> HIDE DEF G
<1>7. /\ \A j \in k - 1 .. n : Agree(G[j], f[j + 0], g[j], t, x)
      /\ \A j \in (k - 1) + 1 .. n : Keeps(new[j], g[j - 1])
  <2>1. \A j \in (k - 1) + 1 .. n : InStep(prog, new, 0, G, j, t, x)
    BY <1>1, <1>6
  <2> QED BY <1>1, <1>2, <1>4, <2>1, StepsTogether
<1>8. Clean(new, tensors, g)
  <2>1. \A j \in 1 .. n : j \in 1 .. k - 1 \/ j \in (k - 1) + 1 .. n
    BY <1>1
  <2> QED BY <1>1, <1>2, <1>3, <1>7, <2>1 DEF Clean
<1>9. SameResults(prog, new, tensors)
  <2> SUFFICES ASSUME NEW m \in Global PROVE g[n][m] = f[n][m]
    BY <1>1, <1>2 DEF SameResults, Executes, Clean
  <2>1. Agree(G[n], f[n], g[n], t, x)
    <3>1. n \in k - 1 .. n /\ n + 0 = n
      BY <1>1
    <3> QED BY <1>7, <3>1
  <2>2. m \in InMemory(new) /\ m # t
    BY <1>5 DEF InMemory, Tensor
  <2>3. m = x => Assigned(n)
    BY <1>0
  <2>4. G[n] = (InMemory(new) \ {x, t}) \cup {IF Assigned(n) THEN x ELSE t}
    BY <1>1 DEF G
  <2>5. m \in G[n]
    BY <2>2, <2>3, <2>4
  <2> QED BY <2>1, <2>2, <2>5 DEF Agree, ren
<1> QED BY <1>8, <1>9 DEF KeepsResults

Scaled(s, v) == ScaleValue(IF s = NoScalar THEN 1 ELSE s, v)

LEMMA ComputedIs ==
  ASSUME NEW a, NEW mem
  PROVE  Computed(a, mem) = IF a.add THEN AddValue(mem[Def(a)], Scaled(a.scalar, TermValue(a.term, mem)))
                            ELSE Scaled(a.scalar, TermValue(a.term, mem))
BY DEF Computed, Scaled, Def

\* What a term computes depends on the values of its variables.
LEMMA SameTermValue ==
  ASSUME NEW t, NEW m, NEW w, \A n \in TermNames(t) : w[n] = m[n]
  PROVE  TermValue(t, w) = TermValue(t, m)
<1> DEFINE vm == [k \in DOMAIN t.args |-> m[t.args[k].name]]
           vw == [k \in DOMAIN t.args |-> w[t.args[k].name]]
<1>1. vm = vw
  BY DEF TermNames
<1>2. /\ TermValue(t, m) = CASE t.op = "Variable"  -> vm[1]
                             [] t.op = "Op"        -> OpValue(vm)
                             [] t.op = "Permute"   -> PermuteValue(vm[1])
                             [] t.op = "Broadcast" -> BroadcastValue(vm[1])
      /\ TermValue(t, w) = CASE t.op = "Variable"  -> vw[1]
                             [] t.op = "Op"        -> OpValue(vw)
                             [] t.op = "Permute"   -> PermuteValue(vw[1])
                             [] t.op = "Broadcast" -> BroadcastValue(vw[1])
  BY DEF TermValue
<1> HIDE DEF vm, vw
<1> QED BY <1>1, <1>2

LEMMA CopyValue ==
  ASSUME NEW a \in Actions, isRHSVariable(a), Len(a.term.args) = 1, NEW mem
  PROVE  /\ TermNames(a.term) = {rhs(a).name}
         /\ TermValue(a.term, mem) = mem[rhs(a).name]
<1>1. a.term.args \in Seq(Variables)
  BY DEF Actions, Terms
<1>2. DOMAIN a.term.args = {1}
  <2>1. DOMAIN a.term.args = 1 .. 1
    BY <1>1
  <2> QED BY <2>1
<1> DEFINE vals == [k \in DOMAIN a.term.args |-> mem[a.term.args[k].name]]
<1>3. vals[1] = mem[rhs(a).name]
  BY <1>2 DEF rhs
<1>4. TermValue(a.term, mem) = CASE a.term.op = "Variable"  -> vals[1]
                                 [] a.term.op = "Op"        -> OpValue(vals)
                                 [] a.term.op = "Permute"   -> PermuteValue(vals[1])
                                 [] a.term.op = "Broadcast" -> BroadcastValue(vals[1])
  BY DEF TermValue
<1> HIDE DEF vals
<1>5. TermValue(a.term, mem) = mem[rhs(a).name]
  BY <1>3, <1>4 DEF isRHSVariable
<1>6. TermNames(a.term) = {rhs(a).name}
  BY <1>2 DEF TermNames, rhs
<1> QED BY <1>5, <1>6

\* What is stored of a value is stored by a layout with more cells.
LEMMA StillKept ==
  ASSUME NEW a, NEW b, NEW m, NEW w, Keeps(a, m), Computed(b, w) = Computed(a, m),
         Computed(a, m) \in Values, a.result.lay.cells \subseteq b.result.lay.cells
  PROVE  Keeps(b, w)
<1>1. \A c \in Cells : c \notin b.result.lay.cells => Computed(a, m)[c] = 0
  BY StoredOk DEF Keeps
<1>2. Stored(b.result.lay, Computed(a, m)) = Computed(a, m)
  BY <1>1, StoredOk
<1> QED BY <1>2 DEF Keeps

\* x = x is removed.
LEMMA RemoveRuns ==
  ASSUME NEW prog \in Seq(Actions), NEW new \in Seq(Actions), Unary(prog), Unary(new),
         Len(new) = Len(prog) - 1, Familiar(prog, new), NEW tensors \in [Tensor -> Values],
         NEW f, Clean(prog, tensors, f),
         NEW k \in 1 .. Len(prog), isRHSVariable(prog[k]), ~ isCompound(prog[k]),
         rhs(prog[k]).name = Def(prog[k]), hasTrivialScalar(prog[k]),
         \A j \in 1 .. k - 1 : new[j] = prog[j],
         \A j \in k .. Len(prog) - 1 : new[j] = prog[j + 1]
  PROVE  KeepsResults(prog, new, tensors)
<1> DEFINE a == prog[k]
           p == k - 1
<1>1. /\ p \in Nat /\ p \in 0 .. Len(new) /\ p + 1 = k /\ Len(prog) = Len(new) + 1 /\ p <= Len(prog)
      /\ p <= Len(new)
      /\ a \in Actions
      /\ \A j \in p + 1 .. Len(new) : new[j] = prog[j + 1]
  OBVIOUS
<1>2. PICK g : Executes(new, tensors, g)
  BY ExecutionExists
<1>3. StepOf(prog, f, k) /\ Keeps(a, f[k - 1])
  BY ExecutedStep DEF Clean
<1>4. TermValue(a.term, f[k - 1]) = f[k - 1][Def(a)] /\ f[k - 1][Def(a)] \in Values
  <2>1. Len(a.term.args) = 1
    BY DEF Unary, isRHSVariable
  <2>2. TermValue(a.term, f[k - 1]) = f[k - 1][rhs(a).name]
    BY <1>1, <2>1, CopyValue
  <2>3. TermValue(a.term, f[k - 1]) \in Values
    BY <1>3 DEF StepOf
  <2> QED BY <2>2, <2>3
<1>5. Computed(a, f[k - 1]) = f[k - 1][Def(a)]
  <2>1. ~ a.add /\ (a.scalar = NoScalar \/ a.scalar = 1)
    BY DEF isCompound, hasTrivialScalar
  <2>2. ScaleValue(1, f[k - 1][Def(a)]) = f[k - 1][Def(a)]
    BY <1>4, ScaleOk
  <2> QED BY <1>4, <2>1, <2>2, ComputedIs DEF Scaled
<1>6. \A n \in InMemory(prog) : f[k][n] = f[k - 1][n]
  BY <1>3, <1>5 DEF StepOf, InMemory
<1>7. /\ \A n \in InMemory(new) : g[p][n] = f[p][n]
      /\ \A j \in 1 .. p : Keeps(new[j], g[j - 1])
  <2>1. \A j \in 1 .. p : new[j] = prog[j]
    OBVIOUS
  <2> HIDE DEF p
  <2> QED BY <1>1, <1>2, <2>1, SameStart
<1>8. \A n \in InMemory(new) : g[p][n] = f[p + 1][n]
  BY <1>1, <1>6, <1>7 DEF Familiar
<1> DEFINE s == 1
           T == {}
<1>9. EndsAlike(prog, new, f, g, p, s, T)
  BY <1>1, <1>7, <1>8 DEF EndsAlike
<1> HIDE DEF s, T, p, a
<1> QED BY <1>2, <1>9, SameEnd

\* x is computed in the place of t from statement l on, until k copies t to it.
LEMMA BackwardRuns ==
  ASSUME NEW prog \in Seq(Actions), NEW new \in Seq(Actions), Unary(prog), Unary(new),
         Len(new) = Len(prog), Familiar(prog, new), NEW tensors \in [Tensor -> Values],
         NEW f, Clean(prog, tensors, f),
         NEW k \in 1 .. Len(prog), NEW l \in 1 .. k - 1, NEW t, NEW x, t # x, isLocal(t),
         Def(prog[k]) = x, variables(prog[k]) = {t}, Moved(prog[k], new[k], t, x),
         Def(prog[l]) = t, ~ isCompound(prog[l]), ~ isCompound(new[l]),
         new[l].term = prog[l].term, new[l].scalar = prog[l].scalar, Def(new[l]) = x,
         prog[l].result.lay.cells \subseteq new[l].result.lay.cells,
         \A j \in 1 .. l - 1 : new[j] = prog[j],
         \A j \in k + 1 .. Len(prog) : new[j] = prog[j] /\ t \notin occurring(prog[j]),
         \A j \in l + 1 .. k - 1 : /\ x \notin occurring(prog[j])
                                   /\ Moved(prog[j], new[j], t, x)
                                   /\ \A n \in occurring(prog[j]) : ren(n, t, x) \in occurring(new[j])
  PROVE  KeepsResults(prog, new, tensors)
<1> DEFINE m == Len(prog)
           q == l - 1
           IM == InMemory(new)
           F == [j \in Nat |-> IF j = k THEN IM \ {t} ELSE (IM \ {x, t}) \cup {t}]
<1>1. /\ m \in Nat /\ q \in Nat /\ q + 1 = l /\ q <= Len(prog) /\ q <= Len(new) /\ q <= m /\ k <= m
      /\ l \in Nat /\ k \in Nat /\ l <= k /\ l # k /\ k - 1 \in Nat /\ Len(new) = m
      /\ l \in 1 .. Len(prog) /\ l \in 1 .. Len(new) /\ k \in 1 .. Len(new) /\ k \in 1 .. m
      /\ \A j \in 1 .. q : new[j] = prog[j]
      /\ \A j \in 1 .. m : j \in 1 .. q \/ j = l \/ j \in l + 1 .. k - 1 \/ j = k \/ j \in k + 1 .. m
      /\ \A j \in l + 1 .. k : j \in l + 1 .. k - 1 \/ j = k
  OBVIOUS
<1>2. PICK g : Executes(new, tensors, g)
  BY ExecutionExists
<1> HIDE DEF q, m, F, IM
<1>3. /\ \A n \in IM : g[q][n] = f[q][n]
      /\ \A j \in 1 .. q : Keeps(new[j], g[j - 1])
  <2>1. /\ \A n \in InMemory(new) : g[q][n] = f[q][n]
        /\ \A j \in 1 .. q : Keeps(new[j], g[j - 1])
    BY <1>1, <1>2, SameStart
  <2> QED BY <2>1 DEF IM
<1>4. prog[l] \in Actions /\ new[l] \in Actions /\ prog[k] \in Actions /\ new[k] \in Actions
  <2>1. l \in 1 .. Len(prog) /\ l \in 1 .. Len(new) /\ k \in 1 .. Len(prog) /\ k \in 1 .. Len(new)
    BY <1>1
  <2>2. /\ \A j \in 1 .. Len(prog) : prog[j] \in Actions
        /\ \A j \in 1 .. Len(new) : new[j] \in Actions
    OBVIOUS
  <2> QED BY <2>1, <2>2
<1>5. /\ StepOf(prog, f, l) /\ Keeps(prog[l], f[q]) /\ StepOf(new, g, l) /\ l - 1 = q
  <2>1. StepOf(prog, f, l) /\ Keeps(prog[l], f[l - 1]) /\ StepOf(new, g, l)
    BY <1>1, <1>2, ExecutedStep DEF Clean
  <2> QED BY <2>1 DEF q
<1>6. Computed(new[l], g[q]) = Computed(prog[l], f[q]) /\ Keeps(new[l], g[q])
  <2>1. TermNames(prog[l].term) \subseteq IM
    <3>1. variables(new[l]) \subseteq InMemory(new)
      BY <1>1, MemoryNames DEF InMemory
    <3> QED BY <3>1 DEF IM, variables
  <2>2. TermValue(new[l].term, g[q]) = TermValue(prog[l].term, f[q])
    BY <1>3, <2>1, SameTermValue
  <2>3. Computed(new[l], g[q]) = Computed(prog[l], f[q])
    BY <2>2, ComputedIs DEF isCompound
  <2>4. Computed(prog[l], f[q]) \in Values
    BY <1>5 DEF StepOf
  <2> QED BY <1>5, <2>3, <2>4, StillKept
<1>7. /\ \A n \in IM : n \in InMemory(prog)
      /\ x \in IM /\ t \in InMemory(prog) /\ t \notin Tensor
  <2>1. x \in InMemory(new)
    BY <1>1, MemoryNames DEF InMemory
  <2>2. t \in InMemory(prog)
    BY <1>1, MemoryNames DEF InMemory
  <2> QED BY <2>1, <2>2 DEF IM, Familiar, isLocal
<1>8. Agree(F[l], f[l + 0], g[l], t, x)
  <2>1. F[l] = (IM \ {x, t}) \cup {t}
    BY <1>1 DEF F
  <2>2. g[l][x] = f[l][t]
    BY <1>5, <1>6 DEF StepOf
  <2>3. ASSUME NEW n \in IM \ {x, t} PROVE g[l][n] = f[l][n]
    <3>1. g[l][n] = g[q][n]
      BY <1>5, <1>6, <2>3 DEF StepOf, IM, InMemory
    <3>2. f[l][n] = f[q][n]
      BY <1>5, <1>7, <2>3 DEF StepOf, InMemory
    <3> QED BY <1>3, <2>3, <3>1, <3>2
  <2>4. l + 0 = l
    BY <1>1
  <2> QED BY <2>1, <2>2, <2>3, <2>4 DEF Agree, ren
<1>9. ASSUME NEW j \in l + 1 .. k PROVE InStep(prog, new, 0, F, j, t, x)
  <2> DEFINE a == prog[j]
  <2>1. /\ j + 0 = j /\ j \in 1 .. Len(prog) /\ j \in 1 .. Len(new) /\ j - 1 \in Nat /\ j \in Nat
        /\ j - 1 # k /\ (j # k => j \in l + 1 .. k - 1)
    BY <1>1
  <2>2. /\ F[j] = IF j = k THEN IM \ {t} ELSE (IM \ {x, t}) \cup {t}
        /\ F[j - 1] = (IM \ {x, t}) \cup {t}
    BY <2>1 DEF F
  <2>3. Moved(a, new[j], t, x)
    BY <2>1
  <2>4. variables(a) \subseteq F[j - 1]
    <3>1. CASE j = k
      BY <2>2, <3>1
    <3>2. CASE j # k
      <4>1. ASSUME NEW n \in variables(a), n # t PROVE n \in IM \ {x, t}
        <5>1. n \in occurring(a) /\ n # x
          BY <2>1, <3>2, <4>1 DEF occurring
        <5>2. n \in occurring(new[j])
          BY <2>1, <3>2, <4>1, <5>1 DEF ren
        <5>3. n \in InMemory(new)
          BY <2>1, <5>2, MemoryIs
        <5> QED BY <4>1, <5>1, <5>3 DEF IM
      <4> QED BY <2>2, <4>1
    <3> QED BY <3>1, <3>2
  <2>5. ASSUME NEW n \in F[j], n # Def(a)
        PROVE  n \in F[j - 1] /\ ren(n, t, x) # ren(Def(a), t, x)
    <3>1. CASE j = k
      BY <2>2, <2>5, <3>1 DEF ren
    <3>2. CASE j # k
      <4>1. Def(a) # x
        BY <2>1, <3>2 DEF occurring
      <4> QED BY <2>2, <2>5, <3>2, <4>1 DEF ren
    <3> QED BY <3>1, <3>2
  <2>6. \A n \in F[j] : n \in InMemory(prog) /\ ren(n, t, x) \in IM
    BY <1>7, <2>2 DEF ren
  <2> QED BY <2>1, <2>3, <2>4, <2>5, <2>6 DEF InStep, InMemory, IM
<1>10. /\ \A j \in l .. k : Agree(F[j], f[j + 0], g[j], t, x)
       /\ \A j \in l + 1 .. k : Keeps(new[j], g[j - 1])
  <2>1. \A j \in l + 1 .. k : InStep(prog, new, 0, F, j, t, x)
    BY <1>9
  <2>2. l \in Nat /\ k \in Nat /\ l <= k /\ 0 \in Nat
    BY <1>1
  <2> QED BY ZenonT(30), <1>2, <1>8, <2>1, <2>2, StepsTogether
<1>11. \A n \in IM : n # t => g[k][n] = f[k][n]
  <2>1. k \in l .. k /\ k + 0 = k /\ F[k] = IM \ {t}
    BY <1>1 DEF F
  <2>2. Agree(F[k], f[k + 0], g[k], t, x)
    BY <1>10, <2>1
  <2> QED BY <2>1, <2>2 DEF Agree, ren
<1>12. Dead(prog, t, k)
  <2>1. t \notin Global
    BY <1>7 DEF Tensor
  <2>2. \A j \in k + 1 .. Len(prog) : t \notin variables(prog[j])
    BY DEF occurring
  <2>3. k \in 0 .. Len(prog)
    OBVIOUS
  <2> QED BY <2>1, <2>2, <2>3, DeadMeans
<1> DEFINE s == 0
           T == {t}
<1>13. EndsAlike(prog, new, f, g, k, s, T)
  <2>1. k \in 0 .. Len(new) /\ s \in Nat /\ Len(prog) = Len(new) + s /\ k + s = k
    OBVIOUS
  <2>2. \A j \in k + 1 .. Len(new) : new[j] = prog[j + s]
    OBVIOUS
  <2>3. ASSUME NEW j \in 1 .. k PROVE Keeps(new[j], g[j - 1])
    <3>1. j \in 1 .. q \/ j = l \/ j \in l + 1 .. k
      BY <1>1
    <3> QED BY <1>3, <1>5, <1>6, <1>10, <3>1
  <2>4. /\ \A n \in T : Dead(prog, n, k + s)
        /\ \A n \in InMemory(new) : n \notin T => g[k][n] = f[k + s][n]
    BY <1>11, <1>12, <2>1 DEF IM
  <2> QED BY <2>1, <2>2, <2>3, <2>4 DEF EndsAlike
<1> HIDE DEF s, T
<1> QED BY <1>2, <1>13, SameEnd

\* No statement after p up to q assigns n.
Undisturbed(prog, f, n, p, q) ==
  /\ p \in 0 .. Len(prog) /\ q \in p .. Len(prog) /\ n \in InMemory(prog)
  /\ \A j \in p + 1 .. q : Keeps(prog[j], f[j - 1]) /\ Def(prog[j]) # n

LEMMA UndisturbedKept ==
  ASSUME NEW prog \in Seq(Actions), Unary(prog), NEW tensors, NEW f, Executes(prog, tensors, f),
         NEW p, NEW q, NEW n, Undisturbed(prog, f, n, p, q)
  PROVE  f[q][n] = f[p][n]
<1>1. /\ p \in 0 .. Len(prog) /\ q \in p .. Len(prog) /\ n \in Tensor \cup Temporaries(prog)
      /\ \A j \in p + 1 .. q : Keeps(prog[j], f[j - 1])
      /\ \A j \in p + 1 .. q : Def(prog[j]) # n
  BY DEF Undisturbed, InMemory
<1> QED BY <1>1, ValueKept

\* Statements p + 1 to q of both programs are the same and read memories that agree.
Alike(prog, new, f, g, F, p, q) ==
  /\ p \in Nat /\ q \in Nat /\ p <= q /\ Agree(F[p], f[p + 0], g[p], 0, 0)
  /\ \A j \in p + 1 .. q : InStep(prog, new, 0, F, j, 0, 0)

LEMMA AlikeTogether ==
  ASSUME NEW prog \in Seq(Actions), NEW new \in Seq(Actions), Unary(prog), Unary(new),
         NEW tensors, NEW f, Clean(prog, tensors, f), NEW g, Executes(new, tensors, g),
         NEW p, NEW q, NEW F, Alike(prog, new, f, g, F, p, q)
  PROVE  /\ Agree(F[q], f[q], g[q], 0, 0)
         /\ \A j \in p + 1 .. q : Keeps(new[j], g[j - 1])
<1>1. /\ p \in Nat /\ q \in Nat /\ p <= q /\ Agree(F[p], f[p + 0], g[p], 0, 0) /\ 0 \in Nat
      /\ \A j \in p + 1 .. q : InStep(prog, new, 0, F, j, 0, 0)
  BY DEF Alike
<1>2. /\ \A j \in p .. q : Agree(F[j], f[j + 0], g[j], 0, 0)
      /\ \A j \in p + 1 .. q : Keeps(new[j], g[j - 1])
  BY <1>1, StepsTogether
<1>3. q \in p .. q /\ q + 0 = q
  BY <1>1
<1> QED BY <1>2, <1>3

\* t = term at k is merged into x [+]= t at l; neither occurs between them.
LEMMA MergeRuns ==
  ASSUME NEW prog \in Seq(Actions), NEW new \in Seq(Actions), Unary(prog), Unary(new),
         Len(new) = Len(prog) - 1, Familiar(prog, new), NEW tensors \in [Tensor -> Values],
         NEW f, Clean(prog, tensors, f),
         NEW k \in 1 .. Len(prog), NEW l \in k + 1 .. Len(prog), NEW t, NEW x,
         Def(prog[k]) = t, ~ isCompound(prog[k]),
         isRHSVariable(prog[l]), rhs(prog[l]).name = t, Def(prog[l]) = x,
         isCompound(prog[l]) => x # t,
         \A j \in k + 1 .. l - 1 : x \notin occurring(prog[j]) /\ t \notin occurring(prog[j]),
         x # t => Dead(prog, t, l),
         new[k].result = prog[l].result, new[k].term = prog[k].term, new[k].add = prog[l].add,
         \A v \in Values : Scaled(new[k].scalar, v) = Scaled(prog[l].scalar, Scaled(prog[k].scalar, v)),
         \A j \in 1 .. l - 1 : j # k => new[j] = prog[j],
         \A j \in l .. Len(prog) - 1 : new[j] = prog[j + 1]
  PROVE  KeepsResults(prog, new, tensors)
<1> DEFINE m == Len(prog)
           q == k - 1
           p == l - 1
           IM == InMemory(new)
           F == [j \in Nat |-> IM \ {x, t}]
           a == prog[k]
           c == prog[l]
           b == new[k]
<1>1. /\ m \in Nat /\ q \in Nat /\ p \in Nat /\ q + 1 = k /\ p + 1 = l
      /\ q <= Len(prog) /\ q <= Len(new) /\ k <= p /\ p \in 0 .. Len(new) /\ k \in Nat
      /\ k \in 1 .. Len(prog) /\ k \in 1 .. Len(new) /\ l \in 1 .. Len(prog) /\ Len(prog) = Len(new) + 1
      /\ \A j \in 1 .. q : j \in 1 .. l - 1 /\ j # k
      /\ \A j \in k + 1 .. p : /\ j \in 1 .. l - 1 /\ j # k /\ j \in k + 1 .. l - 1
                               /\ j \in 1 .. Len(prog) /\ j \in 1 .. Len(new) /\ j - 1 \in Nat /\ j \in Nat
      /\ \A j \in 1 .. p : j \in 1 .. q \/ j = k \/ j \in k + 1 .. p
  OBVIOUS
<1>2. a \in Actions /\ c \in Actions /\ b \in Actions
  <2>1. /\ \A j \in 1 .. Len(prog) : prog[j] \in Actions
        /\ \A j \in 1 .. Len(new) : new[j] \in Actions
    OBVIOUS
  <2> QED BY <1>1, <2>1
<1>3. PICK g : Executes(new, tensors, g)
  BY ExecutionExists
<1>4. /\ \A j \in 1 .. q : new[j] = prog[j]
      /\ \A j \in k + 1 .. p : /\ new[j] = prog[j] /\ x \notin occurring(prog[j])
                               /\ t \notin occurring(prog[j])
      /\ \A j \in p + 1 .. Len(new) : new[j] = prog[j + 1]
  <2>1. \A j \in p + 1 .. Len(new) : new[j] = prog[j + 1]
    OBVIOUS
  <2>2. \A j \in 1 .. l - 1 : j # k => new[j] = prog[j]
    OBVIOUS
  <2>3. \A j \in k + 1 .. l - 1 : x \notin occurring(prog[j]) /\ t \notin occurring(prog[j])
    OBVIOUS
  <2> HIDE DEF q, p
  <2> QED BY <1>1, <2>1, <2>2, <2>3
<1>5. /\ Def(b) = x /\ Def(c) = x /\ Def(a) = t /\ b.term = a.term /\ b.add = c.add
      /\ ~ a.add /\ (c.add => x # t) /\ b.result = c.result
      /\ Scaled(b.scalar, TermValue(a.term, f[q])) =
           Scaled(c.scalar, Scaled(a.scalar, TermValue(a.term, f[q])))
      /\ StepOf(prog, f, k) /\ Keeps(a, f[q]) /\ k - 1 = q
      /\ StepOf(prog, f, l) /\ Keeps(c, f[p]) /\ l - 1 = p
      /\ StepOf(new, g, k)
  <2>1. /\ StepOf(prog, f, k) /\ Keeps(a, f[k - 1]) /\ StepOf(new, g, k)
        /\ StepOf(prog, f, l) /\ Keeps(c, f[l - 1])
    BY <1>1, <1>3, ExecutedStep DEF Clean
  <2>2. TermValue(a.term, f[q]) \in Values
    BY <2>1 DEF StepOf
  <2> QED BY <2>1, <2>2 DEF Def, isCompound
<1>6. Len(c.term.args) = 1 /\ isRHSVariable(c) /\ rhs(c).name = t
  BY <1>1 DEF Unary, isRHSVariable
<1>7. /\ \A n \in IM : n \in InMemory(prog)
      /\ x \in IM /\ t \in InMemory(prog)
      /\ variables(b) \subseteq IM
  <2>1. x \in InMemory(new) /\ variables(b) \subseteq InMemory(new)
    BY <1>1, <1>5, MemoryNames DEF InMemory
  <2>2. t \in InMemory(prog)
    BY <1>1, MemoryNames DEF InMemory
  <2> QED BY <2>1, <2>2 DEF Familiar
<1> HIDE DEF q, p, m, F, IM, a, b, c
<1>8. /\ \A n \in IM : g[q][n] = f[q][n]
      /\ \A j \in 1 .. q : Keeps(new[j], g[j - 1])
  <2>1. /\ \A n \in InMemory(new) : g[q][n] = f[q][n]
        /\ \A j \in 1 .. q : Keeps(new[j], g[j - 1])
    BY <1>1, <1>3, <1>4, SameStart
  <2> QED BY <2>1 DEF IM
\* The value of t at k is the one that statement l finds.
<1>9. /\ f[k][t] = Scaled(a.scalar, TermValue(a.term, f[q]))
      /\ \A n \in InMemory(prog) : n # t => f[k][n] = f[q][n]
  BY <1>2, <1>5, ComputedIs DEF StepOf, InMemory, a
<1>10. f[p][t] = f[k][t] /\ f[p][x] = f[k][x]
  <2>1. /\ k \in 0 .. Len(prog) /\ p \in k .. Len(prog)
        /\ \A j \in k + 1 .. p : Keeps(prog[j], f[j - 1])
        /\ \A j \in k + 1 .. p : Def(prog[j]) # t /\ Def(prog[j]) # x
    <3>1. k \in 0 .. Len(prog) /\ p \in k .. Len(prog)
      BY <1>1
    <3>2. \A j \in k + 1 .. p : Keeps(prog[j], f[j - 1])
      BY <1>1 DEF Clean
    <3> QED BY <1>4, <3>1, <3>2 DEF occurring
  <2>2. Executes(prog, tensors, f) /\ x \in InMemory(prog) /\ t \in InMemory(prog)
    BY <1>7 DEF Clean
  <2>3. Undisturbed(prog, f, t, k, p) /\ Undisturbed(prog, f, x, k, p)
    BY <2>1, <2>2 DEF Undisturbed
  <2> QED BY <2>2, <2>3, UndisturbedKept
<1>11. /\ Computed(c, f[p]) = IF c.add THEN AddValue(f[q][x], Scaled(c.scalar, f[k][t]))
                              ELSE Scaled(c.scalar, f[k][t])
  <2>1. TermValue(c.term, f[p]) = f[k][t]
    BY <1>2, <1>6, <1>10, CopyValue
  <2>2. c.add => f[p][x] = f[q][x]
    BY <1>5, <1>7, <1>9, <1>10
  <2> QED BY <1>5, <2>1, <2>2, ComputedIs
<1>12. Computed(b, g[q]) = Computed(c, f[p]) /\ Keeps(b, g[q])
  <2>1. \A n \in TermNames(a.term) : n \in IM
    BY <1>5, <1>7 DEF variables
  <2>2. TermValue(b.term, g[q]) = TermValue(a.term, f[q])
    BY <1>5, <1>8, <2>1, SameTermValue
  <2>3. g[q][x] = f[q][x]
    BY <1>7, <1>8
  <2>4. Computed(b, g[q]) = Computed(c, f[p])
    BY <1>5, <1>9, <1>11, <2>2, <2>3, ComputedIs
  <2>5. Keeps(b, g[q])
    BY <1>5, <2>4 DEF Keeps
  <2> QED BY <2>4, <2>5
<1>13. /\ g[k][x] = f[l][x]
       /\ \A n \in IM : n # x /\ n # t => g[k][n] = f[k][n]
  <2>1. g[k][x] = Computed(b, g[q]) /\ \A n \in IM : n # x => g[k][n] = g[q][n]
    BY <1>5, <1>12 DEF StepOf, InMemory, IM, b
  <2>2. f[l][x] = Computed(c, f[p])
    BY <1>5 DEF StepOf, c
  <2> QED BY <1>7, <1>8, <1>9, <1>12, <2>1, <2>2
<1>14. /\ \A n \in IM : n # x /\ n # t => g[p][n] = f[p][n]
       /\ \A j \in k + 1 .. p : Keeps(new[j], g[j - 1])
  <2>1. ASSUME NEW j \in k + 1 .. p PROVE InStep(prog, new, 0, F, j, 0, 0)
    <3>1. /\ j + 0 = j /\ j \in 1 .. Len(prog) /\ j \in 1 .. Len(new) /\ j - 1 \in Nat /\ j \in Nat
          /\ new[j] = prog[j] /\ x \notin occurring(prog[j]) /\ t \notin occurring(prog[j])
      BY <1>1, <1>4
    <3>2. Moved(prog[j], new[j], 0, 0)
      BY <3>1, NotMoved
    <3>3. variables(prog[j]) \subseteq IM /\ x \notin variables(prog[j]) /\ t \notin variables(prog[j])
      <4>1. variables(new[j]) \subseteq InMemory(new)
        BY <3>1, MemoryNames DEF InMemory
      <4> QED BY <3>1, <4>1 DEF IM, occurring
    <3>4. F[j] = IM \ {x, t} /\ F[j - 1] = IM \ {x, t}
      BY <3>1 DEF F
    <3>5. \A n, z : ren(n, z, z) = n
      BY DEF ren
    <3>6. variables(prog[j]) \subseteq F[j - 1]
      BY <3>3, <3>4
    <3>7. F[j] \subseteq IM /\ F[j] \subseteq InMemory(prog)
      BY <1>7, <3>4
    <3> QED BY <3>1, <3>2, <3>4, <3>5, <3>6, <3>7 DEF InStep, InMemory, IM
  <2>2. Agree(F[k], f[k + 0], g[k], 0, 0)
    <3>1. F[k] = IM \ {x, t} /\ k + 0 = k
      BY <1>1 DEF F
    <3> QED BY <1>13, <3>1 DEF Agree, ren
  <2>3. Alike(prog, new, f, g, F, k, p)
    BY <1>1, <2>1, <2>2 DEF Alike
  <2>4. F[p] = IM \ {x, t}
    BY <1>1 DEF F
  <2>5. /\ Agree(F[p], f[p], g[p], 0, 0)
        /\ \A j \in k + 1 .. p : Keeps(new[j], g[j - 1])
    BY <1>3, <2>3, AlikeTogether
  <2> QED BY <2>4, <2>5 DEF Agree, ren
<1>15. g[p][x] = g[k][x]
  <2>1. /\ k \in 0 .. Len(new) /\ p \in k .. Len(new)
        /\ \A j \in k + 1 .. p : Def(new[j]) # x
    <3>1. k \in 0 .. Len(new) /\ p \in k .. Len(new)
      BY <1>1
    <3> QED BY <1>4, <3>1 DEF occurring
  <2>2. x \in InMemory(new)
    BY <1>7 DEF IM
  <2>3. Undisturbed(new, g, x, k, p)
    BY <1>14, <2>1, <2>2 DEF Undisturbed, IM
  <2> QED BY <1>3, <2>3, UndisturbedKept
<1>16. \A n \in IM : n # x /\ n # t => f[l][n] = f[p][n]
  BY <1>5, <1>7 DEF StepOf, InMemory, c
<1> DEFINE s == 1
           T == {n \in {t} : n # x}
<1>17. EndsAlike(prog, new, f, g, p, s, T)
  <2>1. p \in 0 .. Len(new) /\ s \in Nat /\ Len(prog) = Len(new) + s /\ p + s = l
    BY <1>1
  <2>2. \A j \in p + 1 .. Len(new) : new[j] = prog[j + s]
    BY <1>4
  <2>3. \A j \in 1 .. p : Keeps(new[j], g[j - 1])
    <3> TAKE j \in 1 .. p
    <3>1. j \in 1 .. q \/ j = k \/ j \in k + 1 .. p
      BY <1>1
    <3>2. k - 1 = q
      BY <1>5
    <3> QED BY <1>8, <1>12, <1>14, <3>1, <3>2 DEF b
  <2>4. \A n \in T : Dead(prog, n, p + s)
    BY <2>1
  <2>5. \A n \in InMemory(new) : n \notin T => g[p][n] = f[p + s][n]
    <3> SUFFICES ASSUME NEW n \in IM, n \notin T PROVE g[p][n] = f[l][n]
      BY <2>1 DEF IM
    <3>1. CASE n = x
      BY <1>13, <1>15, <3>1
    <3>2. CASE n # x
      <4>1. n # t
        BY <3>2
      <4> QED BY <1>14, <1>16, <3>2, <4>1
    <3> QED BY <3>1, <3>2
  <2> QED BY <2>1, <2>2, <2>3, <2>4, <2>5 DEF EndsAlike
<1> HIDE DEF s, T
<1> QED BY <1>3, <1>17, SameEnd

\* a copies, scales or adds n.
Copies(a, n) == isRHSVariable(a) /\ n \in TermNames(a.term)

Overwrites(a) == Def(a) \notin variables(a)

\* No temporary is used before and after statement d.
Barrier(prog, d) ==
  \A j \in 1 .. d, l \in d + 1 .. Len(prog) : \A n \in occurring(prog[j]) :
    isLocal(n) => n \notin occurring(prog[l])

\* The assignments of a kernel share no temporaries.
Barriers(prog) ==
  \A d \in 1 .. Len(prog) : Def(prog[d]) \in Tensor /\ Overwrites(prog[d]) => Barrier(prog, d)

\* The same for an assignment that a copy of a temporary repeats at m or before.
CopiesLocal(a) == \E n : isLocal(n) /\ Copies(a, n)
Repeats(prog, e, d) ==
  /\ Def(prog[d]) \in Tensor /\ Overwrites(prog[d])
  /\ ~ isCompound(prog[e]) /\ Def(prog[e]) = Def(prog[d])
  /\ CopiesLocal(prog[e])
BarriersBelow(prog, m) ==
  \A e \in 1 .. Len(prog) : \A d \in 1 .. e - 1 :
    e <= m /\ Repeats(prog, e, d) => Barrier(prog, d)

NoneAddedToItself(prog) ==
  \A k \in 1 .. Len(prog) : isCompound(prog[k]) => Def(prog[k]) \notin TermNames(prog[k].term)

\* A tensor that was assigned and is then copied is not used after that.
Expired(prog) ==
  \A j \in 1 .. Len(prog) : \A n \in Tensor :
    /\ \E k \in 1 .. j - 1 : Def(prog[k]) = n
    /\ Copies(prog[j], n) /\ Def(prog[j]) # n
    => Dead(prog, n, j)

\* A temporary tensor is assigned before it is read.
TempsFlow(prog) ==
  \A k \in 1 .. Len(prog) : \A n \in TempTensor :
    n \in variables(prog[k]) => \E j \in 1 .. k - 1 : Def(prog[j]) = n

\* A tensor of W that is copied is assigned after that.
Rewritten(prog, W) ==
  \A j \in 1 .. Len(prog) : \A n \in Global \cap W :
    Copies(prog[j], n) /\ Def(prog[j]) # n => \E d \in j + 1 .. Len(prog) : Def(prog[d]) = n

-----------------------------------------------------------------------------
(* t = x at k, and x takes the place of t *)

ForwardShape(prog, new, k, t, x) ==
  /\ Len(new) = Len(prog) /\ k \in 1 .. Len(prog)
  /\ t # x /\ isLocal(t) /\ Def(prog[k]) = t /\ ~ isCompound(prog[k])
  /\ TermNames(prog[k].term) = {x} /\ x \notin UpwardExposed(prog, k + 1)
  /\ \A j \in 1 .. k - 1 : new[j] = prog[j]
  /\ \A j \in k .. Len(prog) : /\ Renamed(prog[j], new[j], t, x)
                               /\ isRHSVariable(new[j]) <=> isRHSVariable(prog[j])

\* After x is assigned again, t does not occur.
LEMMA ForwardEnds ==
  ASSUME NEW S, NEW prog \in Seq(S), Flow(prog), Barriers(prog),
         NEW new, NEW k, NEW t, NEW x, ForwardShape(prog, new, k, t, x)
  PROVE  /\ \A j \in k + 1 .. Len(prog) :
              x \in variables(prog[j]) => \E d \in k + 1 .. j - 1 : Def(prog[d]) = x
         /\ \A d \in k + 1 .. Len(prog) : Def(prog[d]) = x =>
              \A j \in d + 1 .. Len(prog) : t \notin occurring(prog[j])
<1> DEFINE m == Len(prog)
<1>1. m \in Nat /\ k \in Nat /\ k \in 1 .. m
  BY DEF ForwardShape
<1>2. \A j \in k + 1 .. m : x \in variables(prog[j]) => \E d \in k + 1 .. j - 1 : Def(prog[d]) = x
  <2> SUFFICES ASSUME NEW j \in k + 1 .. m, x \in variables(prog[j]),
                      \A d \in k + 1 .. j - 1 : Def(prog[d]) # x
               PROVE  FALSE
    OBVIOUS
  <2>1. x \in UNION {variables(prog[l]) : l \in DOMAIN prog}
    <3>1. j \in DOMAIN prog
      BY <1>1
    <3> QED BY <3>1
  <2>2. x \in UpwardExposed(prog, k + 1)
    BY <2>1 DEF UpwardExposed
  <2> QED BY <2>2 DEF ForwardShape
<1>3. ASSUME NEW d \in k + 1 .. m, Def(prog[d]) = x, NEW j \in d + 1 .. m
      PROVE  t \notin occurring(prog[j])
  <2>1. /\ x \in TermNames(prog[k].term) /\ x # Def(prog[k]) /\ t \in occurring(prog[k])
        /\ isLocal(t) /\ t # x
    BY DEF ForwardShape, occurring
  <2>2. CASE isLocal(x)
    <3>1. x \notin occurring(prog[d])
      BY <1>1, <2>1, <2>2 DEF Flow, ConsumedLast
    <3> QED BY <1>3, <3>1 DEF occurring
  <2>3. CASE ~ isLocal(x)
    <3> DEFINE T == {l \in k + 1 .. m : Def(prog[l]) = x}
    <3>1. PICK e \in T : \A l \in T : e <= l
      <4>1. T \in SUBSET Nat /\ d \in T
        BY <1>1, <1>3
      <4> HIDE DEF T
      <4> QED BY <4>1, LeastNumber
    <3>2. e \in k + 1 .. m /\ Def(prog[e]) = x /\ e <= d
      BY <1>3, <3>1
    <3>3. \A l \in k + 1 .. e - 1 : Def(prog[l]) # x
      <4> TAKE l \in k + 1 .. e - 1
      <4>1. l \in k + 1 .. m /\ ~ e <= l
        BY <1>1, <3>2
      <4> QED BY <3>1, <4>1
    <3>4. x \notin variables(prog[e])
      BY <1>2, <3>2, <3>3
    <3>5. e \in 1 .. Len(prog) /\ k \in 1 .. e /\ j \in e + 1 .. Len(prog)
      BY <1>1, <3>2
    <3>6. Barrier(prog, e)
      BY <2>3, <3>2, <3>4, <3>5 DEF Barriers, Overwrites, isLocal
    <3> QED BY <2>1, <3>5, <3>6 DEF Barrier
  <2> QED BY <2>2, <2>3
<1> QED BY <1>2, <1>3

\* What new reads and assigns.
ForwardNames(prog, new, k, t, x) ==
  /\ \A j \in 1 .. k - 1 : t \notin occurring(prog[j])
  /\ \A j \in 1 .. Len(prog) :
       /\ t \notin occurring(new[j])
       /\ \A n : n # t /\ n # x =>
            /\ n \in variables(new[j]) <=> n \in variables(prog[j])
            /\ n \in TermNames(new[j].term) <=> n \in TermNames(prog[j].term)
            /\ n \in occurring(new[j]) <=> n \in occurring(prog[j])
            /\ Def(new[j]) = n <=> Def(prog[j]) = n
            /\ Copies(new[j], n) <=> Copies(prog[j], n)
       /\ x \in variables(new[j]) <=> x \in variables(prog[j]) \/ t \in variables(prog[j])
       /\ x \in TermNames(new[j].term) <=> x \in TermNames(prog[j].term) \/ t \in TermNames(prog[j].term)
       /\ x \in occurring(new[j]) <=> x \in occurring(prog[j]) \/ t \in occurring(prog[j])
       /\ Def(new[j]) = x <=> Def(prog[j]) = x \/ Def(prog[j]) = t
       /\ Copies(new[j], x) <=> Copies(prog[j], x) \/ Copies(prog[j], t)
       /\ isCompound(new[j]) <=> isCompound(prog[j])

LEMMA ForwardNamesOk ==
  ASSUME NEW S, NEW prog \in Seq(S), Flow(prog),
         NEW new, NEW k, NEW t, NEW x, ForwardShape(prog, new, k, t, x)
  PROVE  ForwardNames(prog, new, k, t, x)
<1> DEFINE m == Len(prog)
<1>1. /\ m \in Nat /\ k \in Nat /\ k \in 1 .. m /\ isLocal(t) /\ t # x
      /\ t \in occurring(prog[k]) /\ t \notin variables(prog[k])
  BY DEF ForwardShape, occurring, variables, isCompound
<1>2. \A j \in 1 .. k - 1 : t \notin occurring(prog[j])
  BY <1>1 DEF Flow, LocalsFlow
<1>3. ASSUME NEW j \in 1 .. k - 1
      PROVE  /\ new[j] = prog[j] /\ t \notin occurring(prog[j]) /\ t \notin variables(prog[j])
             /\ t \notin TermNames(prog[j].term) /\ Def(prog[j]) # t
  BY <1>2 DEF ForwardShape, occurring, variables
<1>4. ASSUME NEW j \in k .. m
      PROVE  /\ Renamed(prog[j], new[j], t, x) /\ (isRHSVariable(new[j]) <=> isRHSVariable(prog[j]))
  BY DEF ForwardShape
<1>5. ASSUME NEW j \in 1 .. m
      PROVE  /\ t \notin occurring(new[j])
             /\ \A n : n # t /\ n # x =>
                  /\ n \in variables(new[j]) <=> n \in variables(prog[j])
                  /\ n \in TermNames(new[j].term) <=> n \in TermNames(prog[j].term)
                  /\ n \in occurring(new[j]) <=> n \in occurring(prog[j])
             /\ x \in variables(new[j]) <=> x \in variables(prog[j]) \/ t \in variables(prog[j])
             /\ x \in TermNames(new[j].term) <=> x \in TermNames(prog[j].term) \/ t \in TermNames(prog[j].term)
             /\ x \in occurring(new[j]) <=> x \in occurring(prog[j]) \/ t \in occurring(prog[j])
             /\ isRHSVariable(new[j]) <=> isRHSVariable(prog[j])
             /\ isCompound(new[j]) <=> isCompound(prog[j])
             /\ Def(new[j]) = ren(Def(prog[j]), t, x)
  <2>1. CASE j \in 1 .. k - 1
    BY <1>3, <2>1 DEF ren
  <2>2. CASE j \in k .. m
    <3>1. Renamed(prog[j], new[j], t, x) /\ (isRHSVariable(new[j]) <=> isRHSVariable(prog[j]))
      BY <1>4, <2>2
    <3>2. isCompound(new[j]) <=> isCompound(prog[j])
      BY <3>1 DEF Renamed, OperandsRenamed, isCompound
    <3>3. Def(new[j]) = ren(Def(prog[j]), t, x)
      BY <3>1 DEF Renamed
    <3> QED BY <1>1, <3>1, <3>2, <3>3, RenamedNames
  <2> QED BY <1>1, <2>1, <2>2
<1>6. ASSUME NEW j \in 1 .. m
      PROVE  /\ \A n : n # t /\ n # x => /\ Def(new[j]) = n <=> Def(prog[j]) = n
                                         /\ Copies(new[j], n) <=> Copies(prog[j], n)
             /\ Def(new[j]) = x <=> Def(prog[j]) = x \/ Def(prog[j]) = t
             /\ Copies(new[j], x) <=> Copies(prog[j], x) \/ Copies(prog[j], t)
  BY <1>1, <1>5 DEF ren, Copies
<1> QED BY <1>2, <1>5, <1>6 DEF ForwardNames

\* From statement j on both programs do the same with n.
AlikeAfter(prog, new, j, n) ==
  /\ j \in Nat /\ Len(prog) \in Nat /\ Len(new) = Len(prog)
  /\ \A l \in j + 1 .. Len(prog) : /\ n \in variables(new[l]) => n \in variables(prog[l])
                                   /\ Def(prog[l]) = n => Def(new[l]) = n

LEMMA DeadSame ==
  ASSUME NEW prog, NEW new, NEW j, NEW n, AlikeAfter(prog, new, j, n), Dead(prog, n, j)
  PROVE  Dead(new, n, j)
<1> USE DEF AlikeAfter
<1> DEFINE m == Len(prog)
<1> SUFFICES ASSUME NEW l \in j + 1 .. m + 1, Needed(new, n, l)
             PROVE  \E d \in j + 1 .. l - 1 : Def(new[d]) = n
  BY DEF Dead
<1>1. Needed(prog, n, l)
  BY DEF Needed
<1>2. PICK d \in j + 1 .. l - 1 : Def(prog[d]) = n
  BY <1>1 DEF Dead
<1>3. d \in j + 1 .. m
  BY <1>2
<1> QED BY <1>2, <1>3

LEMMA ExpiredForward ==
  ASSUME NEW S, NEW prog \in Seq(S), Flow(prog), Barriers(prog), Expired(prog),
         NEW new, NEW k, NEW t, NEW x, ForwardShape(prog, new, k, t, x), Dead(prog, x, k)
  PROVE  Expired(new)
<1> DEFINE m == Len(prog)
<1>1. /\ m \in Nat /\ k \in Nat /\ k \in 1 .. m /\ isLocal(t) /\ t # x /\ Len(new) = m
      /\ Def(prog[k]) = t /\ x \in TermNames(prog[k].term) /\ t \in occurring(prog[k])
  BY DEF ForwardShape, occurring
<1>2. /\ ForwardNames(prog, new, k, t, x)
      /\ \A j \in k + 1 .. Len(prog) :
              x \in variables(prog[j]) => \E d \in k + 1 .. j - 1 : Def(prog[d]) = x
      /\ \A d \in k + 1 .. Len(prog) : Def(prog[d]) = x =>
              \A j \in d + 1 .. Len(prog) : t \notin occurring(prog[j])
  BY ForwardEnds, ForwardNamesOk
<1> SUFFICES ASSUME NEW j \in 1 .. m, NEW n \in Tensor, NEW q \in 1 .. j - 1,
                    Def(new[q]) = n, Copies(new[j], n), Def(new[j]) # n
             PROVE  Dead(new, n, j)
  BY <1>1 DEF Expired
<1>3. n # t /\ j \in Nat /\ q \in 1 .. m
  BY <1>1 DEF isLocal
<1>4. CASE n # x
  <2>1. Def(prog[q]) = n /\ Copies(prog[j], n) /\ Def(prog[j]) # n
    BY <1>2, <1>3, <1>4 DEF ForwardNames
  <2>2. Dead(prog, n, j)
    BY <2>1 DEF Expired
  <2>3. \A l \in j + 1 .. m : /\ n \in variables(new[l]) => n \in variables(prog[l])
                              /\ Def(prog[l]) = n => Def(new[l]) = n
    <3> TAKE l \in j + 1 .. m
    <3>1. l \in 1 .. m
      BY <1>1
    <3> QED BY <1>2, <1>3, <1>4, <3>1 DEF ForwardNames
  <2>4. AlikeAfter(prog, new, j, n)
    BY <1>1, <1>3, <2>3 DEF AlikeAfter
  <2> QED BY <2>2, <2>4, DeadSame
<1>5. CASE n = x
  <2>1. /\ Def(prog[j]) # x /\ Def(prog[j]) # t /\ (Copies(prog[j], x) \/ Copies(prog[j], t))
        /\ (Def(prog[q]) = x \/ Def(prog[q]) = t)
    BY <1>2, <1>3, <1>5 DEF ForwardNames
  <2>2. j # k
    BY <1>1, <2>1
  <2>3. CASE j < k
    <3>1. j \in 1 .. k - 1 /\ q \in 1 .. k - 1 /\ k \in j + 1 .. m + 1
      BY <1>1, <1>3, <2>3
    <3>2. Def(prog[q]) = x /\ Copies(prog[j], x)
      BY <1>2, <2>1, <3>1 DEF ForwardNames, occurring, Copies, variables
    <3>3. Dead(prog, x, j)
      BY <1>5, <2>1, <3>2 DEF Expired
    <3>4. Needed(prog, x, k)
      BY <1>1 DEF Needed, variables
    <3>5. PICK d \in j + 1 .. k - 1 : Def(prog[d]) = x
      BY <3>1, <3>3, <3>4 DEF Dead
    <3>6. Def(new[d]) = x /\ d \in 1 .. m
      BY <1>1, <1>2, <1>3, <3>5 DEF ForwardNames
    <3> SUFFICES ASSUME NEW l \in j + 1 .. m + 1, Needed(new, x, l)
                 PROVE  \E e \in j + 1 .. l - 1 : Def(new[e]) = x
      BY <1>1, <1>5 DEF Dead
    <3>7. CASE l >= k
      <4>1. d \in j + 1 .. l - 1
        BY <1>1, <1>3, <3>5, <3>7
      <4> QED BY <3>6, <4>1
    <3>8. CASE l < k
      <4>1. l \in 1 .. k - 1 /\ l \in 1 .. m
        BY <1>1, <1>3, <3>8
      <4>2. x \in variables(new[l])
        BY <1>1, <4>1 DEF Needed
      <4>3. t \notin variables(prog[l])
        BY <1>2, <4>1 DEF ForwardNames, occurring
      <4>4. x \in variables(prog[l])
        BY <1>2, <4>1, <4>2, <4>3 DEF ForwardNames
      <4>5. Needed(prog, x, l)
        BY <4>1, <4>4 DEF Needed
      <4>6. PICK e \in j + 1 .. l - 1 : Def(prog[e]) = x
        BY <3>3, <4>5 DEF Dead
      <4>7. e \in 1 .. m
        BY <1>1, <1>3, <4>1, <4>6
      <4>8. Def(new[e]) = x
        BY <1>2, <4>6, <4>7 DEF ForwardNames
      <4> QED BY <4>6, <4>8
    <3> QED BY <1>1, <1>3, <3>7, <3>8
  <2>4. CASE j > k
    <3>1. j \in k + 1 .. m
      BY <1>1, <1>3, <2>4
    <3>2. Dead(prog, x, j) /\ \A l \in j + 1 .. m : t \notin occurring(prog[l])
      <4>1. CASE Copies(prog[j], x)
        <5>1. x \in variables(prog[j])
          BY <4>1 DEF Copies, variables
        <5>2. PICK d \in k + 1 .. j - 1 : Def(prog[d]) = x
          BY <1>2, <3>1, <5>1
        <5>3. d \in 1 .. j - 1 /\ d \in k + 1 .. m /\ \A l \in j + 1 .. m : l \in d + 1 .. m
          BY <1>1, <1>3, <3>1, <5>2
        <5>4. Dead(prog, x, j)
          BY <1>5, <2>1, <4>1, <5>2, <5>3 DEF Expired
        <5> QED BY <1>2, <5>2, <5>3, <5>4
      <4>2. CASE Copies(prog[j], t)
        <5>1. \A l \in j + 1 .. m : t \notin occurring(prog[l])
          BY <1>1, <2>1, <4>2 DEF Flow, ConsumedLast, Copies
        <5>2. t \in occurring(prog[j])
          BY <4>2 DEF Copies, occurring, variables
        <5>3. \A d \in k + 1 .. j - 1 : Def(prog[d]) # x
          <6> SUFFICES ASSUME NEW d \in k + 1 .. j - 1, Def(prog[d]) = x PROVE FALSE
            OBVIOUS
          <6>1. d \in k + 1 .. m /\ j \in d + 1 .. m
            BY <1>1, <3>1
          <6> QED BY <1>2, <5>2, <6>1
        <5>4. Dead(prog, x, j)
          <6> SUFFICES ASSUME NEW l \in j + 1 .. m + 1, Needed(prog, x, l)
                       PROVE  \E d \in j + 1 .. l - 1 : Def(prog[d]) = x
            BY DEF Dead
          <6>1. l \in k + 1 .. m + 1
            BY <1>1, <3>1
          <6>2. PICK d \in k + 1 .. l - 1 : Def(prog[d]) = x
            BY <6>1 DEF Dead
          <6>3. ~ d \in k + 1 .. j - 1 /\ d # j
            BY <2>1, <5>3, <6>2
          <6>4. d \in j + 1 .. l - 1
            BY <1>1, <3>1, <6>2, <6>3
          <6> QED BY <6>2, <6>4
        <5> QED BY <5>1, <5>4
      <4> QED BY <2>1, <4>1, <4>2
    <3>3. \A l \in j + 1 .. m : /\ x \in variables(new[l]) => x \in variables(prog[l])
                                /\ Def(prog[l]) = x => Def(new[l]) = x
      <4> TAKE l \in j + 1 .. m
      <4>1. l \in 1 .. m /\ t \notin variables(prog[l])
        BY <1>1, <3>1, <3>2 DEF occurring
      <4> QED BY <1>2, <4>1 DEF ForwardNames
    <3>4. AlikeAfter(prog, new, j, x)
      BY <1>1, <1>3, <3>3 DEF AlikeAfter
    <3> QED BY <1>5, <3>2, <3>4, DeadSame
  <2> QED BY <1>1, <1>3, <2>2, <2>3, <2>4
<1> QED BY <1>4, <1>5

LEMMA BarriersForward ==
  ASSUME NEW S, NEW prog \in Seq(S), Flow(prog), Barriers(prog),
         NEW new, NEW k, NEW t, NEW x, ForwardShape(prog, new, k, t, x)
  PROVE  Barriers(new)
<1> DEFINE m == Len(prog)
<1>1. /\ m \in Nat /\ k \in Nat /\ k \in 1 .. m /\ isLocal(t) /\ t # x /\ Len(new) = m
      /\ Def(prog[k]) = t /\ x \in TermNames(prog[k].term) /\ t \in occurring(prog[k])
      /\ x \in occurring(prog[k]) /\ x \in variables(prog[k])
  BY DEF ForwardShape, occurring, variables
<1>2. ForwardNames(prog, new, k, t, x)
  BY ForwardNamesOk
<1> SUFFICES ASSUME NEW d \in 1 .. m, Def(new[d]) \in Tensor, Overwrites(new[d]),
                    NEW j \in 1 .. d, NEW l \in d + 1 .. m, NEW n \in occurring(new[j]),
                    isLocal(n), n \in occurring(new[l])
             PROVE  FALSE
  BY <1>1 DEF Barriers, Barrier
<1>3. /\ j \in 1 .. m /\ l \in 1 .. m /\ d \in Nat /\ j \in Nat /\ l \in Nat
      /\ d <= m /\ j <= d /\ d < l
  BY <1>1
<1>4. Def(prog[d]) # t
  <2> SUFFICES ASSUME Def(prog[d]) = t PROVE FALSE
    OBVIOUS
  <2>1. Def(new[d]) = x /\ ~ d < k
    <3>1. d \notin 1 .. k - 1
      BY <1>2 DEF ForwardNames, occurring
    <3> QED BY <1>1, <1>2, <1>3, <3>1 DEF ForwardNames
  <2>2. x \in variables(new[d])
    <3>1. CASE d = k
      BY <1>1, <1>2, <3>1 DEF ForwardNames
    <3>2. CASE d # k
      <4>1. k \in 1 .. d - 1
        BY <1>1, <1>3, <2>1, <3>2
      <4>2. t \in variables(prog[d])
        BY <1>1, <4>1 DEF Flow, LocalsFlow, occurring
      <4> QED BY <1>2, <4>2 DEF ForwardNames
    <3> QED BY <3>1, <3>2
  <2> QED BY <2>1, <2>2 DEF Overwrites
<1>5. Def(prog[d]) = Def(new[d]) /\ Def(prog[d]) \notin variables(prog[d])
  <2>1. Def(prog[d]) = Def(new[d])
    BY <1>2, <1>4 DEF ForwardNames
  <2>2. Def(new[d]) \notin variables(new[d])
    BY DEF Overwrites
  <2>3. Def(new[d]) # t
    BY <1>4, <2>1
  <2> QED BY <1>2, <2>1, <2>2, <2>3 DEF ForwardNames
<1>6. Barrier(prog, d)
  BY <1>5 DEF Barriers, Overwrites
<1>7. n # t
  BY <1>2, <1>3 DEF ForwardNames
<1>8. n = x
  <2> SUFFICES ASSUME n # x PROVE FALSE
    OBVIOUS
  <2>1. n \in occurring(prog[j]) /\ n \in occurring(prog[l])
    BY <1>2, <1>3, <1>7 DEF ForwardNames
  <2> QED BY <1>6, <2>1 DEF Barrier
<1>9. \A e \in k + 1 .. m : x \notin occurring(prog[e])
  BY <1>1, <1>8 DEF Flow, ConsumedLast
<1>10. \A e \in 1 .. m : x \in occurring(new[e]) <=> x \in occurring(prog[e]) \/ t \in occurring(prog[e])
  BY <1>2 DEF ForwardNames
<1>11. CASE l <= k
  <2>1. x \in occurring(prog[l])
    <3>1. CASE l = k
      BY <1>1, <3>1
    <3>2. CASE l # k
      <4>1. l \in 1 .. k - 1
        BY <1>1, <1>3, <1>11, <3>2
      <4> QED BY <1>2, <1>3, <1>8, <1>10, <4>1 DEF ForwardNames
    <3> QED BY <3>1, <3>2
  <2>2. j \in 1 .. k - 1
    BY <1>1, <1>3, <1>11
  <2>3. x \in occurring(prog[j])
    BY <1>2, <1>3, <1>8, <1>10, <2>2 DEF ForwardNames
  <2> QED BY <1>6, <1>8, <2>1, <2>3 DEF Barrier
<1>12. CASE l > k
  <2>1. t \in occurring(prog[l])
    <3>1. l \in k + 1 .. m
      BY <1>1, <1>3, <1>12
    <3> QED BY <1>3, <1>8, <1>9, <1>10, <3>1
  <2>2. CASE d >= k
    <3>1. k \in 1 .. d
      BY <1>1, <1>3, <2>2
    <3> QED BY <1>1, <1>6, <2>1, <3>1 DEF Barrier
  <2>3. CASE d < k
    <3>1. k \in d + 1 .. m /\ j \in 1 .. k - 1
      BY <1>1, <1>3, <2>3
    <3>2. x \in occurring(prog[j])
      BY <1>2, <1>3, <1>8, <1>10, <3>1 DEF ForwardNames
    <3> QED BY <1>1, <1>6, <1>8, <3>1, <3>2 DEF Barrier
  <2> QED BY <1>1, <1>3, <2>2, <2>3
<1> QED BY <1>1, <1>3, <1>11, <1>12

LEMMA RewrittenForward ==
  ASSUME NEW S, NEW prog \in Seq(S), Flow(prog), Barriers(prog), NEW W, Rewritten(prog, W),
         NEW new, NEW k, NEW t, NEW x, ForwardShape(prog, new, k, t, x), Dead(prog, x, k)
  PROVE  Rewritten(new, W)
<1> DEFINE m == Len(prog)
<1>1. /\ m \in Nat /\ k \in Nat /\ k \in 1 .. m /\ isLocal(t) /\ t # x /\ Len(new) = m
      /\ Def(prog[k]) = t
  BY DEF ForwardShape
<1>2. /\ ForwardNames(prog, new, k, t, x)
      /\ \A d \in k + 1 .. Len(prog) : Def(prog[d]) = x =>
              \A j \in d + 1 .. Len(prog) : t \notin occurring(prog[j])
  BY ForwardEnds, ForwardNamesOk
<1> SUFFICES ASSUME NEW j \in 1 .. m, NEW n \in Global \cap W, Copies(new[j], n), Def(new[j]) # n
             PROVE  \E d \in j + 1 .. m : Def(new[d]) = n
  BY <1>1 DEF Rewritten
<1>3. n # t /\ n \in Tensor
  BY <1>1 DEF isLocal, Tensor
<1>4. \A d \in j + 1 .. m : d \in 1 .. m /\ (Def(prog[d]) = n => Def(new[d]) = n)
  <2> TAKE d \in j + 1 .. m
  <2>1. d \in 1 .. m
    BY <1>1
  <2> QED BY <1>2, <1>3, <2>1 DEF ForwardNames
<1>5. Def(prog[j]) # n
  BY <1>2, <1>3 DEF ForwardNames
<1>6. \E d \in j + 1 .. m : Def(prog[d]) = n
  <2>1. CASE Copies(prog[j], n)
    BY <1>5, <2>1 DEF Rewritten
  <2>2. CASE ~ Copies(prog[j], n)
    <3>1. n = x /\ Copies(prog[j], t) /\ Def(prog[j]) # t
      BY <1>2, <1>3, <2>2 DEF ForwardNames
    <3>2. t \in occurring(prog[j]) /\ j > k
      <4>1. t \in occurring(prog[j])
        BY <3>1 DEF Copies, occurring, variables
      <4>2. j \notin 1 .. k - 1 /\ j # k
        BY <1>1, <1>2, <3>1, <4>1 DEF ForwardNames
      <4> QED BY <1>1, <4>1, <4>2
    <3>3. Needed(prog, x, m + 1) /\ m + 1 \in k + 1 .. m + 1 /\ (m + 1) - 1 = m
      BY <1>1, <3>1 DEF Needed
    <3>4. PICK d \in k + 1 .. m : Def(prog[d]) = x
      BY <3>3 DEF Dead
    <3>5. ~ j \in d + 1 .. m /\ d # j
      BY <1>2, <1>5, <3>1, <3>2, <3>4
    <3>6. d \in j + 1 .. m
      BY <1>1, <3>4, <3>5
    <3> QED BY <3>1, <3>4, <3>6
  <2> QED BY <2>1, <2>2
<1> QED BY <1>4, <1>6

LEMMA SumsForward ==
  ASSUME NEW S, NEW prog \in Seq(S), Flow(prog), Barriers(prog), NoneAddedToItself(prog),
         NEW new, NEW k, NEW t, NEW x, ForwardShape(prog, new, k, t, x)
  PROVE  NoneAddedToItself(new)
<1> DEFINE m == Len(prog)
<1>1. /\ m \in Nat /\ k \in Nat /\ k \in 1 .. m /\ isLocal(t) /\ t # x /\ Len(new) = m
      /\ Def(prog[k]) = t /\ ~ isCompound(prog[k])
  BY DEF ForwardShape
<1>2. /\ ForwardNames(prog, new, k, t, x)
      /\ \A j \in k + 1 .. Len(prog) :
              x \in variables(prog[j]) => \E d \in k + 1 .. j - 1 : Def(prog[d]) = x
      /\ \A d \in k + 1 .. Len(prog) : Def(prog[d]) = x =>
              \A j \in d + 1 .. Len(prog) : t \notin occurring(prog[j])
  BY ForwardEnds, ForwardNamesOk
<1> SUFFICES ASSUME NEW j \in 1 .. m, isCompound(new[j]), Def(new[j]) \in TermNames(new[j].term)
             PROVE  FALSE
  BY <1>1 DEF NoneAddedToItself
<1>3. isCompound(prog[j]) /\ Def(prog[j]) \notin TermNames(prog[j].term)
  BY <1>2 DEF ForwardNames, NoneAddedToItself
<1>4. Def(new[j]) # t
  BY <1>2 DEF ForwardNames, occurring
<1>5. Def(new[j]) = x
  BY <1>2, <1>3, <1>4 DEF ForwardNames
<1>6. t \in occurring(prog[j]) /\ x \in variables(prog[j])
  <2>1. \/ Def(prog[j]) = t /\ x \in TermNames(prog[j].term)
        \/ Def(prog[j]) = x /\ t \in TermNames(prog[j].term)
    BY <1>2, <1>3, <1>5 DEF ForwardNames
  <2> QED BY <1>3, <2>1 DEF occurring, variables, isCompound, Def
<1>7. j \in k + 1 .. m
  <2>1. j \notin 1 .. k - 1 /\ j # k
    BY <1>1, <1>2, <1>3, <1>6 DEF ForwardNames
  <2> QED BY <1>1, <2>1
<1>8. PICK d \in k + 1 .. j - 1 : Def(prog[d]) = x
  BY <1>2, <1>6, <1>7
<1>9. d \in k + 1 .. m /\ j \in d + 1 .. m
  BY <1>1, <1>7, <1>8
<1> QED BY <1>2, <1>6, <1>8, <1>9

LEMMA TempsForward ==
  ASSUME NEW S, NEW prog \in Seq(S), Flow(prog), TempsFlow(prog),
         NEW new, NEW k, NEW t, NEW x, ForwardShape(prog, new, k, t, x)
  PROVE  TempsFlow(new)
<1> DEFINE m == Len(prog)
<1>1. /\ m \in Nat /\ k \in Nat /\ k \in 1 .. m /\ isLocal(t) /\ t # x /\ Len(new) = m
      /\ Def(prog[k]) = t /\ t \notin variables(prog[k])
  BY DEF ForwardShape, variables, isCompound
<1>2. ForwardNames(prog, new, k, t, x)
  BY ForwardNamesOk
<1> SUFFICES ASSUME NEW j \in 1 .. m, NEW n \in TempTensor, n \in variables(new[j])
             PROVE  \E q \in 1 .. j - 1 : Def(new[q]) = n
  BY <1>1 DEF TempsFlow
<1>3. n # t
  BY <1>1 DEF isLocal, Tensor
<1>4. CASE n \in variables(prog[j])
  <2>1. PICK q \in 1 .. j - 1 : Def(prog[q]) = n
    BY <1>4 DEF TempsFlow
  <2>2. q \in 1 .. m
    BY <1>1
  <2> QED BY <1>2, <1>3, <2>1, <2>2 DEF ForwardNames
<1>5. CASE n \notin variables(prog[j])
  <2>1. n = x /\ t \in variables(prog[j])
    BY <1>2, <1>3, <1>5 DEF ForwardNames
  <2>2. j \notin 1 .. k - 1 /\ j # k
    BY <1>1, <1>2, <2>1 DEF ForwardNames, occurring
  <2>3. k \in 1 .. j - 1
    BY <1>1, <2>2
  <2>4. Def(new[k]) = x
    BY <1>1, <1>2 DEF ForwardNames
  <2> QED BY <2>1, <2>3, <2>4
<1> QED BY <1>4, <1>5

-----------------------------------------------------------------------------
(* x = t at k, and t is computed in x from its definition l on *)

BackwardShape(prog, new, k, l, t, x) ==
  /\ Len(new) = Len(prog) /\ k \in 1 .. Len(prog) /\ l \in 1 .. k - 1
  /\ t # x /\ isLocal(t) /\ Def(prog[k]) = x /\ ~ isCompound(prog[k])
  /\ isRHSVariable(prog[k]) /\ TermNames(prog[k].term) = {t}
  /\ Def(prog[l]) = t /\ ~ isCompound(prog[l]) /\ x \notin UpwardExposed(prog, l)
  /\ \A j \in 1 .. l - 1 : new[j] = prog[j]
  /\ \A j \in k + 1 .. Len(prog) : new[j] = prog[j]
  /\ Def(new[l]) = x /\ new[l].add = prog[l].add
  /\ TermNames(new[l].term) = TermNames(prog[l].term)
  /\ \A j \in l + 1 .. k : Renamed(prog[j], new[j], t, x)
  /\ \A j \in 1 .. Len(prog) : isRHSVariable(new[j]) <=> isRHSVariable(prog[j])

OneRead(prog) ==
  \A j \in 1 .. Len(prog) : isRHSVariable(prog[j]) =>
    \A n, o \in TermNames(prog[j].term) : n = o

\* In between x does not occur, and t does not after it.
LEMMA BackwardEnds ==
  ASSUME NEW S, NEW prog \in Seq(S), Flow(prog), NEW new, NEW k, NEW l, NEW t, NEW x,
         BackwardShape(prog, new, k, l, t, x), BarriersBelow(prog, k)
  PROVE  /\ \A j \in l .. k - 1 : x \notin occurring(prog[j])
         /\ \A j \in k + 1 .. Len(prog) : t \notin occurring(prog[j])
<1> DEFINE m == Len(prog)
<1>1. /\ m \in Nat /\ k \in Nat /\ k \in 1 .. m /\ l \in Nat /\ l \in 1 .. k - 1 /\ l \in 1 .. m
      /\ t # x /\ isLocal(t) /\ Def(prog[k]) = x /\ t \in TermNames(prog[k].term)
      /\ x \notin variables(prog[k]) /\ x \in occurring(prog[k]) /\ t \in occurring(prog[k])
      /\ t \in occurring(prog[l]) /\ Def(prog[l]) = t
  BY DEF BackwardShape, occurring, variables, isCompound
<1>2. \A j \in k + 1 .. m : t \notin occurring(prog[j])
  BY <1>1 DEF Flow, ConsumedLast
<1>3. ASSUME NEW j \in l .. k - 1, x \in occurring(prog[j]) PROVE FALSE
  <2>1. CASE isLocal(x)
    <3>1. j \in 1 .. k - 1
      BY <1>1
    <3> QED BY <1>1, <1>3, <2>1, <3>1 DEF Flow, LocalsFlow
  <2>2. CASE ~ isLocal(x)
    <3> DEFINE T == {e \in l .. k - 1 : x \in occurring(prog[e])}
    <3>1. PICK d \in T : \A e \in T : d <= e
      <4>1. T \in SUBSET Nat /\ j \in T
        BY <1>1, <1>3
      <4> HIDE DEF T
      <4> QED BY <4>1, LeastNumber
    <3>2. d \in l .. k - 1 /\ x \in occurring(prog[d]) /\ d \in 1 .. m /\ d \in Nat
      BY <1>1, <3>1
    <3>3. \A e \in l .. d - 1 : x \notin occurring(prog[e])
      <4> TAKE e \in l .. d - 1
      <4>1. e \in l .. k - 1 /\ ~ d <= e
        BY <1>1, <3>2
      <4> QED BY <3>1, <4>1
    <3>4. x \notin variables(prog[d])
      <4> SUFFICES ASSUME x \in variables(prog[d]) PROVE FALSE
        OBVIOUS
      <4>1. x \in UNION {variables(prog[e]) : e \in DOMAIN prog}
        <5>1. d \in DOMAIN prog
          BY <1>1, <3>2
        <5> QED BY <5>1
      <4>2. d \in l .. m
        BY <1>1, <3>2
      <4>3. \A e \in l .. d - 1 : Def(prog[e]) # x
        BY <3>3 DEF occurring
      <4>4. x \in UpwardExposed(prog, l)
        BY <4>1, <4>2, <4>3 DEF UpwardExposed
      <4> QED BY <4>4 DEF BackwardShape
    <3>5. Def(prog[d]) = x
      BY <3>2, <3>4 DEF occurring
    <3>6. Repeats(prog, k, d)
      <4>1. Copies(prog[k], t)
        BY <1>1 DEF Copies, BackwardShape
      <4> QED BY <1>1, <2>2, <3>4, <3>5, <4>1 DEF Repeats, Overwrites, isLocal, BackwardShape, CopiesLocal
    <3>7. d \in 1 .. k - 1 /\ l \in 1 .. d /\ k \in d + 1 .. m /\ k <= k
      BY <1>1, <3>2
    <3>8. Barrier(prog, d)
      BY <1>1, <3>6, <3>7 DEF BarriersBelow
    <3> QED BY <1>1, <3>7, <3>8 DEF Barrier
  <2> QED BY <2>1, <2>2
<1> QED BY <1>2, <1>3

\* What new reads and assigns.
BackwardNames(prog, new, k, l, t, x) ==
  \A j \in 1 .. Len(prog) :
    /\ \A n : n # t /\ n # x =>
         /\ n \in variables(new[j]) <=> n \in variables(prog[j])
         /\ n \in TermNames(new[j].term) <=> n \in TermNames(prog[j].term)
         /\ n \in occurring(new[j]) <=> n \in occurring(prog[j])
         /\ Def(new[j]) = n <=> Def(prog[j]) = n
         /\ Copies(new[j], n) <=> Copies(prog[j], n)
    /\ j \notin l .. k => new[j] = prog[j]
    /\ j = l => /\ Def(new[j]) = x
                /\ TermNames(new[j].term) = TermNames(prog[j].term)
                /\ variables(new[j]) = variables(prog[j])
                /\ \A n : Copies(new[j], n) <=> Copies(prog[j], n)
    /\ j \in l + 1 .. k =>
         /\ t \notin occurring(new[j])
         /\ x \in TermNames(new[j].term) <=> x \in TermNames(prog[j].term) \/ t \in TermNames(prog[j].term)
         /\ Def(new[j]) = x <=> Def(prog[j]) = x \/ Def(prog[j]) = t
         /\ Copies(new[j], x) <=> Copies(prog[j], x) \/ Copies(prog[j], t)
    /\ isCompound(new[j]) <=> isCompound(prog[j])

LEMMA BackwardNamesOk ==
  ASSUME NEW S, NEW prog \in Seq(S), NEW new, NEW k, NEW l, NEW t, NEW x,
         BackwardShape(prog, new, k, l, t, x)
  PROVE  BackwardNames(prog, new, k, l, t, x)
<1> DEFINE m == Len(prog)
<1>1. m \in Nat /\ k \in Nat /\ k \in 1 .. m /\ l \in Nat /\ l \in 1 .. k - 1 /\ t # x
  BY DEF BackwardShape
<1> SUFFICES ASSUME NEW j \in 1 .. m
             PROVE  /\ \A n : n # t /\ n # x =>
                         /\ n \in variables(new[j]) <=> n \in variables(prog[j])
                         /\ n \in TermNames(new[j].term) <=> n \in TermNames(prog[j].term)
                         /\ n \in occurring(new[j]) <=> n \in occurring(prog[j])
                         /\ Def(new[j]) = n <=> Def(prog[j]) = n
                         /\ Copies(new[j], n) <=> Copies(prog[j], n)
                    /\ j \notin l .. k => new[j] = prog[j]
                    /\ j = l => /\ Def(new[j]) = x
                                /\ TermNames(new[j].term) = TermNames(prog[j].term)
                                /\ variables(new[j]) = variables(prog[j])
                                /\ \A n : Copies(new[j], n) <=> Copies(prog[j], n)
                    /\ j \in l + 1 .. k =>
                         /\ t \notin occurring(new[j])
                         /\ x \in TermNames(new[j].term) <=>
                              x \in TermNames(prog[j].term) \/ t \in TermNames(prog[j].term)
                         /\ Def(new[j]) = x <=> Def(prog[j]) = x \/ Def(prog[j]) = t
                         /\ Copies(new[j], x) <=> Copies(prog[j], x) \/ Copies(prog[j], t)
                    /\ isCompound(new[j]) <=> isCompound(prog[j])
  BY DEF BackwardNames
<1>2. isRHSVariable(new[j]) <=> isRHSVariable(prog[j])
  BY DEF BackwardShape
<1>3. CASE j \notin l .. k
  <2>1. new[j] = prog[j]
    <3>1. j \in 1 .. l - 1 \/ j \in k + 1 .. m
      BY <1>1, <1>3
    <3> QED BY <3>1 DEF BackwardShape
  <2>2. j # l /\ j \notin l + 1 .. k
    BY <1>1, <1>3
  <2> QED BY <1>3, <2>1, <2>2
<1>4. CASE j = l
  <2>1. /\ Def(new[j]) = x /\ Def(prog[j]) = t /\ TermNames(new[j].term) = TermNames(prog[j].term)
        /\ ~ isCompound(prog[j]) /\ new[j].add = prog[j].add
    BY <1>4 DEF BackwardShape
  <2>2. /\ variables(new[j]) = TermNames(prog[j].term)
        /\ variables(prog[j]) = TermNames(prog[j].term)
        /\ isCompound(new[j]) <=> isCompound(prog[j])
    BY <2>1 DEF variables, isCompound
  <2>3. j \in l .. k /\ j \notin l + 1 .. k
    BY <1>1, <1>4
  <2> QED BY <1>2, <2>1, <2>2, <2>3 DEF Copies, occurring
<1>5. CASE j \in l + 1 .. k
  <2>1. Renamed(prog[j], new[j], t, x)
    BY <1>5 DEF BackwardShape
  <2>2. (isCompound(new[j]) <=> isCompound(prog[j])) /\ Def(new[j]) = ren(Def(prog[j]), t, x)
    BY <2>1 DEF Renamed, OperandsRenamed, isCompound
  <2>3. j # l /\ j \in l .. k
    BY <1>1, <1>5
  <2>4. /\ t \notin occurring(new[j])
        /\ \A n : n # t /\ n # x =>
              /\ n \in variables(new[j]) <=> n \in variables(prog[j])
              /\ n \in TermNames(new[j].term) <=> n \in TermNames(prog[j].term)
              /\ n \in occurring(new[j]) <=> n \in occurring(prog[j])
        /\ x \in TermNames(new[j].term) <=> x \in TermNames(prog[j].term) \/ t \in TermNames(prog[j].term)
    BY <1>1, <2>1, RenamedNames
  <2> QED BY <1>1, <1>2, <2>2, <2>3, <2>4 DEF ren, Copies
<1>6. j \notin l .. k \/ j = l \/ j \in l + 1 .. k
  BY <1>1
<1> QED BY <1>3, <1>4, <1>5, <1>6

LEMMA ExpiredBackward ==
  ASSUME NEW S, NEW prog \in Seq(S), Flow(prog), Expired(prog),
         NEW new, NEW k, NEW l, NEW t, NEW x,
         BackwardShape(prog, new, k, l, t, x), BarriersBelow(prog, k)
  PROVE  Expired(new)
<1> DEFINE m == Len(prog)
<1>1. /\ m \in Nat /\ k \in Nat /\ k \in 1 .. m /\ l \in Nat /\ l \in 1 .. k - 1 /\ l \in 1 .. m
      /\ t # x /\ isLocal(t) /\ Def(prog[k]) = x /\ t \in occurring(prog[k]) /\ Len(new) = m
      /\ x \notin TermNames(prog[k].term)
  BY DEF BackwardShape, occurring, variables
<1>2. /\ BackwardNames(prog, new, k, l, t, x)
      /\ \A j \in l .. k - 1 : x \notin occurring(prog[j])
      /\ \A j \in k + 1 .. Len(prog) : t \notin occurring(prog[j])
  BY BackwardEnds, BackwardNamesOk
<1> SUFFICES ASSUME NEW j \in 1 .. m, NEW n \in Tensor, NEW q \in 1 .. j - 1,
                    Def(new[q]) = n, Copies(new[j], n), Def(new[j]) # n
             PROVE  Dead(new, n, j)
  BY <1>1 DEF Expired
<1>3. n # t /\ j \in Nat /\ q \in 1 .. m
  BY <1>1 DEF isLocal
<1>4. CASE n # x
  <2>1. Def(prog[q]) = n /\ Copies(prog[j], n) /\ Def(prog[j]) # n
    BY <1>2, <1>3, <1>4 DEF BackwardNames
  <2>2. Dead(prog, n, j)
    BY <2>1 DEF Expired
  <2>3. \A e \in j + 1 .. m : /\ n \in variables(new[e]) => n \in variables(prog[e])
                              /\ Def(prog[e]) = n => Def(new[e]) = n
    <3> TAKE e \in j + 1 .. m
    <3>1. e \in 1 .. m
      BY <1>1
    <3> QED BY <1>2, <1>3, <1>4, <3>1 DEF BackwardNames
  <2>4. AlikeAfter(prog, new, j, n)
    BY <1>1, <1>3, <2>3 DEF AlikeAfter
  <2> QED BY <2>2, <2>4, DeadSame
<1>5. CASE n = x
  <2>1. CASE j < l
    <3>1. j \notin l .. k /\ q \notin l .. k
      BY <1>1, <1>3, <2>1
    <3>2. new[j] = prog[j] /\ new[q] = prog[q]
      BY <1>2, <1>3, <3>1 DEF BackwardNames
    <3>3. Dead(prog, x, j)
      BY <1>5, <3>2 DEF Expired
    <3> SUFFICES ASSUME NEW p \in j + 1 .. m + 1, Needed(new, x, p)
                 PROVE  \E d \in j + 1 .. p - 1 : Def(new[d]) = x
      BY <1>1, <1>5 DEF Dead
    <3>4. CASE p > l
      <4>1. l \in j + 1 .. p - 1 /\ Def(new[l]) = x
        BY <1>1, <1>2, <1>3, <2>1, <3>4 DEF BackwardNames
      <4> QED BY <4>1
    <3>5. CASE p <= l
      <4>1. p \in 1 .. m /\ (p \notin l .. k \/ p = l) /\ \A d \in j + 1 .. p - 1 : d \in 1 .. m /\ d \notin l .. k
        BY <1>1, <1>3, <2>1, <3>5
      <4>2. variables(new[p]) = variables(prog[p])
        BY <1>2, <4>1 DEF BackwardNames
      <4>3. Needed(prog, x, p)
        BY <1>1, <4>1, <4>2 DEF Needed
      <4>4. PICK d \in j + 1 .. p - 1 : Def(prog[d]) = x
        BY <3>3, <4>3 DEF Dead
      <4> QED BY <1>2, <4>1, <4>4 DEF BackwardNames
    <3> QED BY <1>1, <1>3, <3>4, <3>5
  <2>2. CASE j \in l .. k
    <3>1. j # l /\ j # k
      <4>1. Def(new[l]) = x
        BY <1>1, <1>2 DEF BackwardNames
      <4>2. Def(new[k]) = x
        <5>1. k \in l + 1 .. k
          BY <1>1
        <5> QED BY <1>1, <1>2, <5>1 DEF BackwardNames
      <4> QED BY <1>5, <4>1, <4>2
    <3>2. j \in l + 1 .. k /\ j \in l .. k - 1 /\ k \in j + 1 .. m
      BY <1>1, <1>3, <2>2, <3>1
    <3>3. Copies(prog[j], t) /\ Def(prog[j]) # t
      <4>1. ~ Copies(prog[j], x)
        BY <1>2, <3>2 DEF Copies, occurring, variables
      <4> QED BY <1>2, <1>5, <3>2, <4>1 DEF BackwardNames
    <3>4. t \notin occurring(prog[k])
      BY <1>1, <3>2, <3>3 DEF Flow, ConsumedLast, Copies
    <3> QED BY <1>1, <3>4
  <2>3. CASE j > k
    <3>1. /\ j \notin l .. k /\ k \in 1 .. j - 1
          /\ \A e \in j + 1 .. m : e \in 1 .. m /\ e \notin l .. k
      BY <1>1, <1>3, <2>3
    <3>2. Copies(prog[j], x) /\ Def(prog[j]) # x
      BY <1>2, <1>5, <3>1 DEF BackwardNames
    <3>3. Dead(prog, x, j)
      BY <1>1, <1>5, <3>1, <3>2 DEF Expired
    <3>4. AlikeAfter(prog, new, j, x)
      BY <1>1, <1>2, <1>3, <3>1 DEF AlikeAfter, BackwardNames
    <3> QED BY <1>5, <3>3, <3>4, DeadSame
  <2> QED BY <1>1, <1>3, <2>1, <2>2, <2>3
<1> QED BY <1>4, <1>5

LEMMA SumsBackward ==
  ASSUME NEW S, NEW prog \in Seq(S), Flow(prog), NoneAddedToItself(prog),
         NEW new, NEW k, NEW l, NEW t, NEW x,
         BackwardShape(prog, new, k, l, t, x), BarriersBelow(prog, k)
  PROVE  NoneAddedToItself(new)
<1> DEFINE m == Len(prog)
<1>1. /\ m \in Nat /\ k \in Nat /\ k \in 1 .. m /\ l \in Nat /\ l \in 1 .. k - 1 /\ l \in 1 .. m
      /\ t # x /\ isLocal(t) /\ Len(new) = m /\ ~ isCompound(prog[l]) /\ ~ isCompound(prog[k])
  BY DEF BackwardShape
<1>2. /\ BackwardNames(prog, new, k, l, t, x)
      /\ \A j \in l .. k - 1 : x \notin occurring(prog[j])
      /\ \A j \in k + 1 .. Len(prog) : t \notin occurring(prog[j])
  BY BackwardEnds, BackwardNamesOk
<1> SUFFICES ASSUME NEW j \in 1 .. m, isCompound(new[j]) PROVE Def(new[j]) \notin TermNames(new[j].term)
  BY <1>1 DEF NoneAddedToItself
<1>3. isCompound(prog[j]) /\ Def(prog[j]) \notin TermNames(prog[j].term)
  BY <1>2 DEF BackwardNames, NoneAddedToItself
<1>4. CASE j \notin l .. k
  BY <1>2, <1>3, <1>4 DEF BackwardNames
<1>5. CASE j \in l .. k
  <2>1. j \in l + 1 .. k /\ j \in l .. k - 1
    <3>1. j # l /\ j # k
      BY <1>1, <1>3
    <3> QED BY <1>1, <1>5, <3>1
  <2>2. x \notin TermNames(prog[j].term) /\ Def(prog[j]) # x
    BY <1>2, <2>1 DEF occurring, variables
  <2>3. Def(new[j]) # t
    BY <1>2, <2>1 DEF BackwardNames, occurring
  <2>4. CASE Def(prog[j]) = t
    BY <1>2, <1>3, <2>1, <2>2, <2>4 DEF BackwardNames
  <2>5. CASE Def(prog[j]) # t
    <3>1. Def(new[j]) # x
      BY <1>2, <2>1, <2>2, <2>5 DEF BackwardNames
    <3> QED BY <1>2, <1>3, <2>3, <3>1 DEF BackwardNames
  <2> QED BY <2>4, <2>5
<1> QED BY <1>4, <1>5

LEMMA TempsBackward ==
  ASSUME NEW S, NEW prog \in Seq(S), TempsFlow(prog),
         NEW new, NEW k, NEW l, NEW t, NEW x, BackwardShape(prog, new, k, l, t, x)
  PROVE  TempsFlow(new)
<1> DEFINE m == Len(prog)
<1>1. /\ m \in Nat /\ k \in Nat /\ k \in 1 .. m /\ l \in Nat /\ l \in 1 .. k - 1 /\ l \in 1 .. m
      /\ t # x /\ isLocal(t) /\ Len(new) = m
  BY DEF BackwardShape
<1>2. BackwardNames(prog, new, k, l, t, x)
  BY BackwardNamesOk
<1> SUFFICES ASSUME NEW j \in 1 .. m, NEW n \in TempTensor, n \in variables(new[j])
             PROVE  \E q \in 1 .. j - 1 : Def(new[q]) = n
  BY <1>1 DEF TempsFlow
<1>3. n # t
  BY <1>1 DEF isLocal, Tensor
<1>4. ASSUME NEW q \in 1 .. m, Def(prog[q]) = n PROVE Def(new[q]) = n
  <2>1. CASE n # x
    BY <1>2, <1>3, <1>4, <2>1 DEF BackwardNames
  <2>2. CASE n = x
    <3>1. q \notin l .. k \/ q = l \/ q \in l + 1 .. k
      BY <1>1
    <3> QED BY <1>2, <1>4, <2>2, <3>1 DEF BackwardNames
  <2> QED BY <2>1, <2>2
<1>5. CASE n \in variables(prog[j])
  <2>1. PICK q \in 1 .. j - 1 : Def(prog[q]) = n
    BY <1>5 DEF TempsFlow
  <2>2. q \in 1 .. m
    BY <1>1
  <2> QED BY <1>4, <2>1, <2>2
<1>6. CASE n \notin variables(prog[j])
  <2>1. n = x
    BY <1>2, <1>3, <1>6 DEF BackwardNames
  <2>2. ~ j \notin l .. k /\ j # l
    BY <1>2, <1>6 DEF BackwardNames
  <2>3. l \in 1 .. j - 1 /\ Def(new[l]) = x
    BY <1>1, <1>2, <2>2 DEF BackwardNames
  <2> QED BY <2>1, <2>3
<1> QED BY <1>5, <1>6

LEMMA RepeatsIf ==
  ASSUME NEW prog, NEW e, NEW d, Def(prog[d]) \in Tensor, ~ isCompound(prog[e]),
         Def(prog[e]) = Def(prog[d]), Def(prog[d]) \notin variables(prog[d]),
         CopiesLocal(prog[e])
  PROVE  Repeats(prog, e, d)
BY DEF Repeats, Overwrites

LEMMA BarriersBackward ==
  ASSUME NEW S, NEW prog \in Seq(S), Flow(prog), OneRead(prog),
         NEW new, NEW k, NEW l, NEW t, NEW x,
         BackwardShape(prog, new, k, l, t, x), BarriersBelow(prog, k)
  PROVE  BarriersBelow(new, k - 1)
<1> DEFINE m == Len(prog)
<1>1. /\ m \in Nat /\ k \in Nat /\ k \in 1 .. m /\ l \in Nat /\ l \in 1 .. k - 1 /\ l \in 1 .. m
      /\ t # x /\ isLocal(t) /\ Def(prog[k]) = x /\ t \in occurring(prog[k]) /\ Len(new) = m
      /\ t \in occurring(prog[l]) /\ Def(prog[l]) = t /\ ~ isCompound(prog[k])
      /\ Copies(prog[k], t)
  BY DEF BackwardShape, occurring, variables, Copies
<1>2. /\ BackwardNames(prog, new, k, l, t, x)
      /\ \A j \in l .. k - 1 : x \notin occurring(prog[j])
      /\ \A j \in k + 1 .. Len(prog) : t \notin occurring(prog[j])
  BY BackwardEnds, BackwardNamesOk
<1> SUFFICES ASSUME NEW e \in 1 .. m, NEW d \in 1 .. e - 1, e <= k - 1, Repeats(new, e, d)
             PROVE  Barrier(new, d)
  BY <1>1 DEF BarriersBelow
<1>3. /\ Def(new[d]) \in Tensor /\ Def(new[d]) \notin variables(new[d])
      /\ ~ isCompound(new[e]) /\ Def(new[e]) = Def(new[d])
  BY DEF Repeats, Overwrites
<1>4. PICK r : isLocal(r) /\ Copies(new[e], r)
  BY DEF Repeats, CopiesLocal
<1>5. d \in Nat /\ e \in Nat /\ d \in 1 .. m /\ d < e /\ e < k /\ e <= m
  BY <1>1
<1>6. ~ isCompound(prog[e])
  BY <1>2, <1>3 DEF BackwardNames
<1>7. CopiesLocal(prog[e])
  <2> USE DEF CopiesLocal
  <2>1. CASE e \notin l .. k \/ e = l
    BY <1>2, <1>4, <2>1 DEF BackwardNames
  <2>2. CASE e \in l + 1 .. k
    <3>1. r # t
      BY <1>2, <1>4, <2>2 DEF BackwardNames, Copies, occurring, variables
    <3> QED BY <1>1, <1>2, <1>4, <2>2, <3>1 DEF BackwardNames
  <2>3. e \notin l .. k \/ e = l \/ e \in l + 1 .. k
    BY <1>1
  <2> QED BY <2>1, <2>2, <2>3
\* The same assignment is repeated in prog, by k if not by e.
<1>8. Barrier(prog, d)
  <2>1. CASE d < l
    <3>1. d \notin l .. k
      BY <1>1, <1>5, <2>1
    <3>2. new[d] = prog[d]
      <4>1. \A j \in 1 .. m : j \notin l .. k => new[j] = prog[j]
        BY <1>2 DEF BackwardNames
      <4> QED BY <1>5, <3>1, <4>1
    <3>3. CASE Def(prog[e]) = Def(prog[d])
      <4>1. Repeats(prog, e, d) /\ e <= k
        <5>1. Def(prog[d]) = Def(new[d]) /\ Def(prog[d]) \notin variables(prog[d]) /\ e <= k
          BY <1>1, <1>3, <1>5, <3>2
        <5> QED BY <1>6, <1>7, <1>3, <3>3, <5>1, RepeatsIf
      <4> QED BY <4>1 DEF BarriersBelow
    <3>4. CASE Def(prog[e]) # Def(prog[d])
      <4>1. Def(new[d]) = x
        <5>1. Def(new[e]) # Def(prog[e])
          BY <1>3, <3>2, <3>4
        <5>2. Def(new[d]) # t
          BY <1>1, <1>3 DEF isLocal
        <5> QED BY <1>2, <1>3, <1>5, <5>1, <5>2 DEF BackwardNames
      <4>2. Repeats(prog, k, d)
        BY <1>1, <1>3, <3>2, <4>1 DEF Repeats, Overwrites, CopiesLocal
      <4>3. d \in 1 .. k - 1 /\ k <= k
        BY <1>1, <1>5
      <4> QED BY <1>1, <4>2, <4>3 DEF BarriersBelow
    <3> QED BY <3>3, <3>4
  <2>2. CASE d >= l
    <3>1. d \in l .. k - 1 /\ d \in l .. k /\ e \in l + 1 .. k /\ e \in l .. k - 1
      BY <1>1, <1>5, <2>2
    <3>2. Def(prog[d]) # x /\ Def(prog[e]) # x
      BY <1>2, <3>1 DEF occurring
    <3>3. CASE Def(new[d]) = x
      <4>1. Def(prog[e]) = t
        BY <1>2, <1>3, <3>1, <3>2, <3>3 DEF BackwardNames
      <4>2. t \in variables(prog[e])
        <5>1. l \in 1 .. e - 1
          BY <1>1, <1>5, <2>2
        <5> QED BY <1>1, <4>1, <5>1 DEF Flow, LocalsFlow, occurring
      <4>3. t \in TermNames(prog[e].term)
        BY <1>6, <4>2 DEF variables, isCompound
      <4>4. isRHSVariable(new[e]) /\ isRHSVariable(prog[e])
        BY <1>4 DEF Copies, BackwardShape
      <4>5. r = t
        <5>1. r # t => r = x \/ Copies(prog[e], r)
          BY <1>2, <1>4, <1>5 DEF BackwardNames
        <5>2. r # x
          BY <1>3, <1>4, <3>3 DEF isLocal
        <5>3. Copies(prog[e], r) => r = t
          BY <1>5, <4>3, <4>4 DEF OneRead, Copies
        <5> QED BY <5>1, <5>2, <5>3
      <4> QED BY <1>2, <1>4, <3>1, <4>5 DEF BackwardNames, Copies, occurring, variables
    <3>4. CASE Def(new[d]) # x
      <4>1. Def(new[d]) # t
        BY <1>1, <1>3 DEF isLocal
      <4>2. /\ Def(prog[d]) = Def(new[d]) /\ Def(prog[e]) = Def(new[d])
            /\ Def(prog[d]) \notin variables(prog[d])
        BY <1>2, <1>3, <1>5, <3>4, <4>1 DEF BackwardNames
      <4>3. Repeats(prog, e, d) /\ e <= k
        <5>1. e <= k /\ Def(prog[e]) = Def(prog[d])
          BY <1>1, <1>5, <4>2
        <5> QED BY <1>6, <1>7, <1>3, <4>2, <5>1, RepeatsIf
      <4> QED BY <4>3 DEF BarriersBelow
    <3> QED BY <3>3, <3>4
  <2> QED BY <1>1, <1>5, <2>1, <2>2
<1>9. d < l
  <2> SUFFICES ASSUME d >= l PROVE FALSE
    BY <1>1, <1>5
  <2>1. l \in 1 .. d /\ k \in d + 1 .. m
    BY <1>1, <1>5
  <2> QED BY <1>1, <1>8, <2>1 DEF Barrier
<1> SUFFICES ASSUME NEW j \in 1 .. d, NEW p \in d + 1 .. m, NEW n \in occurring(new[j]),
                    isLocal(n), n \in occurring(new[p])
             PROVE  FALSE
  BY <1>1 DEF Barrier
<1>10. j \in 1 .. m /\ p \in 1 .. m /\ j \notin l .. k
  BY <1>1, <1>5, <1>9
<1>11. n \in occurring(prog[j])
  BY <1>2, <1>10 DEF BackwardNames
<1>12. n \notin occurring(prog[p])
  BY <1>8, <1>11 DEF Barrier
<1>13. n # t
  <2>1. k \in d + 1 .. m
    BY <1>1, <1>5
  <2> QED BY <1>1, <1>8, <1>11, <2>1 DEF Barrier
<1>14. n = x
  BY <1>2, <1>10, <1>12, <1>13 DEF BackwardNames
<1>15. k \in d + 1 .. m /\ x \in occurring(prog[k])
  BY <1>1, <1>5 DEF occurring
<1> QED BY <1>8, <1>11, <1>14, <1>15 DEF Barrier

-----------------------------------------------------------------------------
(* One statement fewer *)

\* Statement j of the program without statement r.
at(r, j) == IF j < r THEN j ELSE j + 1


LEMMA WithoutPlaces ==
  ASSUME NEW m \in Nat, NEW r \in 1 .. m
  PROVE  /\ \A j \in 1 .. m - 1 : at(r, j) \in 1 .. m /\ at(r, j) # r
         /\ \A j \in 1 .. m : j < r => at(r, j) = j
         /\ \A j \in 1 .. m : j >= r => at(r, j) = j + 1
         /\ \A j \in 1 .. m, p \in 1 .. m : j < p <=> at(r, j) < at(r, p)
         /\ \A q \in 1 .. m : q # r => \E j \in 1 .. m - 1 : q = at(r, j)
<1>1. \A q \in 1 .. m : q # r => \E j \in 1 .. m - 1 : q = at(r, j)
  <2> SUFFICES ASSUME NEW q \in 1 .. m, q # r PROVE \E j \in 1 .. m - 1 : q = at(r, j)
    OBVIOUS
  <2>1. CASE q < r
    <3>1. q \in 1 .. m - 1 /\ q = at(r, q)
      BY <2>1 DEF at
    <3> QED BY <3>1
  <2>2. CASE q > r
    <3>1. q - 1 \in 1 .. m - 1 /\ q = at(r, q - 1)
      BY <2>2 DEF at
    <3> QED BY <3>1
  <2> QED BY <2>1, <2>2
<1> QED BY <1>1 DEF at

RemoveShape(prog, new, r, x) ==
  /\ Len(new) = Len(prog) - 1 /\ r \in 1 .. Len(prog)
  /\ Def(prog[r]) = x /\ TermNames(prog[r].term) = {x}
  /\ \A j \in 1 .. r - 1 : new[j] = prog[j]
  /\ \A j \in r .. Len(prog) - 1 : new[j] = prog[j + 1]

LEMMA RemovedPlaces ==
  ASSUME NEW S, NEW prog \in Seq(S), NEW new, NEW r, NEW x, RemoveShape(prog, new, r, x),
         NEW j \in 1 .. Len(new)
  PROVE  new[j] = prog[at(r, j)]
BY DEF RemoveShape, at

LEMMA ExpiredRemove ==
  ASSUME NEW S, NEW prog \in Seq(S), Expired(prog), NEW new, NEW r, NEW x,
         RemoveShape(prog, new, r, x)
  PROVE  Expired(new)
<1> DEFINE m == Len(prog)
           o(j) == at(r, j)
<1>1. /\ m \in Nat /\ r \in Nat /\ r \in 1 .. m /\ Len(new) = m - 1 /\ Len(new) \in Nat
      /\ Def(prog[r]) = x /\ x \in variables(prog[r])
  BY DEF RemoveShape, variables
<1>2. \A j \in 1 .. m - 1 : new[j] = prog[o(j)]
  BY <1>1, RemovedPlaces
<1>3. /\ \A j \in 1 .. m - 1 : o(j) \in 1 .. m /\ o(j) # r
      /\ \A j \in 1 .. m : j < r => o(j) = j
      /\ \A j \in 1 .. m : j >= r => o(j) = j + 1
      /\ \A j \in 1 .. m, p \in 1 .. m : j < p <=> o(j) < o(p)
      /\ \A q \in 1 .. m : q # r => \E j \in 1 .. m - 1 : q = o(j)
  BY <1>1, WithoutPlaces
<1> HIDE DEF o
<1> SUFFICES ASSUME NEW j \in 1 .. m - 1, NEW n \in Tensor, NEW q \in 1 .. j - 1,
                    Def(new[q]) = n, Copies(new[j], n), Def(new[j]) # n
             PROVE  Dead(new, n, j)
  BY <1>1 DEF Expired
<1>4. /\ j \in 1 .. m /\ q \in 1 .. m /\ q \in 1 .. m - 1 /\ q < j
      /\ o(j) \in 1 .. m /\ o(q) \in 1 .. m
  BY <1>1, <1>3
<1>5. o(q) \in 1 .. o(j) - 1
  BY <1>3, <1>4
<1>6. Dead(prog, n, o(j))
  BY <1>2, <1>4, <1>5 DEF Expired
<1> SUFFICES ASSUME NEW p \in j + 1 .. (m - 1) + 1, Needed(new, n, p)
             PROVE  \E d \in j + 1 .. p - 1 : Def(new[d]) = n
  BY <1>1 DEF Dead
<1>7. p \in 1 .. m /\ j < p
  BY <1>1, <1>4
<1>8. o(p) \in o(j) + 1 .. m + 1 /\ o(p) # r /\ Needed(prog, n, o(p))
  <2>1. CASE p \in 1 .. m - 1
    <3>1. o(p) \in 1 .. m /\ o(p) # r /\ o(j) < o(p)
      BY <1>3, <1>4, <1>7, <2>1
    <3>2. n \in variables(prog[o(p)])
      BY <1>1, <1>2, <2>1 DEF Needed
    <3>3. Needed(prog, n, o(p))
      BY <3>1, <3>2 DEF Needed
    <3>4. o(p) \in o(j) + 1 .. m + 1
      BY <1>1, <1>4, <3>1
    <3> QED BY <3>1, <3>3, <3>4
  <2>2. CASE p = m
    <3>1. o(p) = m + 1
      BY <1>1, <1>3, <1>7, <2>2
    <3>2. m + 1 \notin 1 .. m /\ m + 1 \in o(j) + 1 .. m + 1 /\ m + 1 # r /\ p \notin 1 .. m - 1
      BY <1>1, <1>4, <2>2
    <3>3. Needed(prog, n, m + 1)
      BY <1>1, <3>2 DEF Needed
    <3> QED BY <3>1, <3>2, <3>3
  <2> QED BY <1>1, <1>7, <2>1, <2>2
<1>9. \E d \in o(j) + 1 .. o(p) - 1 : d # r /\ Def(prog[d]) = n
  <2>1. PICK d \in o(j) + 1 .. o(p) - 1 : Def(prog[d]) = n
    BY <1>6, <1>8 DEF Dead
  <2>2. CASE d # r
    BY <2>1, <2>2
  <2>3. CASE d = r
    <3>1. Needed(prog, n, r) /\ r \in o(j) + 1 .. m + 1 /\ o(p) \in Nat /\ r < o(p)
      BY <1>1, <1>4, <1>8, <2>1, <2>3 DEF Needed
    <3>2. PICK e \in o(j) + 1 .. r - 1 : Def(prog[e]) = n
      BY <1>6, <3>1 DEF Dead
    <3>3. e \in o(j) + 1 .. o(p) - 1 /\ e # r
      BY <1>1, <1>4, <3>1, <3>2
    <3> QED BY <3>2, <3>3
  <2> QED BY <2>2, <2>3
<1>10. PICK d \in o(j) + 1 .. o(p) - 1 : d # r /\ Def(prog[d]) = n
  BY <1>9
<1>11. d \in 1 .. m /\ o(j) < d /\ d < o(p)
  BY <1>1, <1>4, <1>8, <1>10
<1>12. PICK c \in 1 .. m - 1 : d = o(c)
  BY <1>3, <1>10, <1>11
<1>13. c \in j + 1 .. p - 1
  <2>1. c \in 1 .. m
    BY <1>1
  <2>2. j < c /\ c < p
    BY <1>3, <1>4, <1>7, <1>11, <1>12, <2>1
  <2> QED BY <1>1, <1>4, <1>7, <2>2
<1>14. Def(new[c]) = n
  BY <1>2, <1>10, <1>12
<1> QED BY <1>13, <1>14

LEMMA SumsRemove ==
  ASSUME NEW S, NEW prog \in Seq(S), NoneAddedToItself(prog), NEW new, NEW r, NEW x,
         RemoveShape(prog, new, r, x)
  PROVE  NoneAddedToItself(new)
<1> DEFINE m == Len(prog)
<1>1. /\ m \in Nat /\ r \in 1 .. m /\ Len(new) = m - 1
  BY DEF RemoveShape
<1>2. \A j \in 1 .. m - 1 : at(r, j) \in 1 .. m
  BY <1>1, WithoutPlaces
<1>3. \A j \in 1 .. m - 1 : new[j] = prog[at(r, j)]
  BY <1>1, RemovedPlaces
<1> QED BY <1>1, <1>2, <1>3 DEF NoneAddedToItself

LEMMA TempsRemove ==
  ASSUME NEW S, NEW prog \in Seq(S), TempsFlow(prog), NEW new, NEW r, NEW x,
         RemoveShape(prog, new, r, x)
  PROVE  TempsFlow(new)
<1> DEFINE m == Len(prog)
<1>1. /\ m \in Nat /\ r \in Nat /\ r \in 1 .. m /\ Len(new) = m - 1
      /\ Def(prog[r]) = x /\ x \in variables(prog[r])
  BY DEF RemoveShape, variables
<1>2. /\ \A j \in 1 .. m - 1 : at(r, j) \in 1 .. m /\ at(r, j) # r
      /\ \A j \in 1 .. m, p \in 1 .. m : j < p <=> at(r, j) < at(r, p)
      /\ \A q \in 1 .. m : q # r => \E j \in 1 .. m - 1 : q = at(r, j)
  BY <1>1, WithoutPlaces
<1>3. \A j \in 1 .. m - 1 : new[j] = prog[at(r, j)]
  BY <1>1, RemovedPlaces
<1> SUFFICES ASSUME NEW j \in 1 .. m - 1, NEW n \in TempTensor, n \in variables(new[j])
             PROVE  \E q \in 1 .. j - 1 : Def(new[q]) = n
  BY <1>1 DEF TempsFlow
<1>4. at(r, j) \in 1 .. m /\ n \in variables(prog[at(r, j)])
  BY <1>2, <1>3
<1>5. PICK q \in 1 .. at(r, j) - 1 : Def(prog[q]) = n /\ q # r
  <2>1. PICK q \in 1 .. at(r, j) - 1 : Def(prog[q]) = n
    BY <1>4 DEF TempsFlow
  <2>2. CASE q # r
    BY <2>1, <2>2
  <2>3. CASE q = r
    <3>1. PICK p \in 1 .. r - 1 : Def(prog[p]) = n
      BY <1>1, <2>1, <2>3 DEF TempsFlow
    <3>2. p \in 1 .. at(r, j) - 1 /\ p # r
      BY <1>1, <1>4, <2>3
    <3> QED BY <3>1, <3>2
  <2> QED BY <2>2, <2>3
<1>6. q \in 1 .. m /\ q < at(r, j)
  BY <1>1, <1>4
<1>7. PICK p \in 1 .. m - 1 : q = at(r, p)
  BY <1>2, <1>5, <1>6
<1>8. p \in 1 .. j - 1
  <2>1. j \in 1 .. m /\ p \in 1 .. m
    BY <1>1
  <2>2. p < j
    BY <1>2, <1>6, <1>7, <2>1
  <2> QED BY <1>1, <2>2
<1> QED BY <1>3, <1>5, <1>7, <1>8

-----------------------------------------------------------------------------
(* t = term at k and x [+]= t at l become x [+]= term at k *)

MergeShape(prog, new, k, l, t, x) ==
  /\ Len(new) = Len(prog) - 1 /\ k \in 1 .. Len(prog) /\ l \in k + 1 .. Len(prog)
  /\ Def(prog[k]) = t /\ ~ isCompound(prog[k])
  /\ Def(prog[l]) = x /\ TermNames(prog[l].term) = {t} /\ isRHSVariable(prog[l])
  /\ x \notin variables(prog[k])
  /\ \A j \in k + 1 .. l - 1 : x \notin occurring(prog[j]) /\ t \notin occurring(prog[j])
  /\ \A j \in 1 .. l - 1 : j # k => new[j] = prog[j]
  /\ \A j \in l .. Len(prog) - 1 : new[j] = prog[j + 1]
  /\ new[k].add = prog[l].add /\ TermNames(new[k].term) = TermNames(prog[k].term)
  /\ Def(new[k]) = x /\ (isRHSVariable(new[k]) <=> isRHSVariable(prog[k]))

LEMMA MergedPlaces ==
  ASSUME NEW S, NEW prog \in Seq(S), NEW new, NEW k, NEW l, NEW t, NEW x,
         MergeShape(prog, new, k, l, t, x), NEW j \in 1 .. Len(new), j # k
  PROVE  new[j] = prog[at(l, j)] /\ at(l, j) # k
<1>1. k \in 1 .. Len(prog) /\ l \in k + 1 .. Len(prog) /\ Len(new) = Len(prog) - 1
  BY DEF MergeShape
<1>2. CASE j < l
  <2>1. j \in 1 .. l - 1
    BY <1>1, <1>2
  <2> QED BY <1>2, <2>1 DEF MergeShape, at
<1>3. CASE j >= l
  <2>1. j \in l .. Len(prog) - 1 /\ j + 1 # k
    BY <1>1, <1>3
  <2> QED BY <1>1, <1>3, <2>1 DEF MergeShape, at
<1> QED BY <1>1, <1>2, <1>3

LEMMA SumsMerge ==
  ASSUME NEW S, NEW prog \in Seq(S), NoneAddedToItself(prog), NEW new, NEW k, NEW l, NEW t, NEW x,
         MergeShape(prog, new, k, l, t, x)
  PROVE  NoneAddedToItself(new)
<1> DEFINE m == Len(prog)
<1>1. m \in Nat /\ l \in 1 .. m /\ Len(new) = m - 1
  BY DEF MergeShape
<1>2. \A j \in 1 .. m - 1 : at(l, j) \in 1 .. m
  BY <1>1, WithoutPlaces
<1>3. \A j \in 1 .. m - 1 : j # k => new[j] = prog[at(l, j)]
  BY <1>1, MergedPlaces
<1>4. Def(new[k]) \notin TermNames(new[k].term)
  BY DEF MergeShape, variables
<1> QED BY <1>1, <1>2, <1>3, <1>4 DEF NoneAddedToItself

LEMMA TempsMerge ==
  ASSUME NEW S, NEW prog \in Seq(S), TempsFlow(prog), NoneAddedToItself(prog),
         NEW new, NEW k, NEW l, NEW t, NEW x,
         MergeShape(prog, new, k, l, t, x), x # t => Dead(prog, t, l)
  PROVE  TempsFlow(new)
<1> DEFINE m == Len(prog)
           o(j) == at(l, j)
<1>1. /\ m \in Nat /\ k \in Nat /\ k \in 1 .. m /\ l \in Nat /\ l \in 1 .. m /\ k < l
      /\ Len(new) = m - 1 /\ k \in 1 .. m - 1
      /\ Def(prog[k]) = t /\ Def(prog[l]) = x /\ Def(new[k]) = x /\ t \in TermNames(prog[l].term)
      /\ \A j \in k + 1 .. l - 1 : x \notin occurring(prog[j]) /\ t \notin occurring(prog[j])
  BY DEF MergeShape
<1>2. ASSUME NEW j \in 1 .. m - 1, j # k PROVE new[j] = prog[o(j)] /\ o(j) # k
  <2>1. j \in 1 .. Len(new)
    BY <1>1
  <2>2. new[j] = prog[at(l, j)] /\ at(l, j) # k
    BY <1>2, <2>1, MergedPlaces
  <2> QED BY <2>2
<1>3. /\ \A j \in 1 .. m - 1 : o(j) \in 1 .. m /\ o(j) # l
      /\ \A j \in 1 .. m : j < l => o(j) = j
      /\ \A j \in 1 .. m, p \in 1 .. m : j < p <=> o(j) < o(p)
      /\ \A q \in 1 .. m : q # l => \E j \in 1 .. m - 1 : q = o(j)
  BY <1>1, WithoutPlaces
<1>4. o(k) = k
  BY <1>1, <1>3
<1> HIDE DEF o
<1> SUFFICES ASSUME NEW j \in 1 .. m - 1, NEW n \in TempTensor, n \in variables(new[j])
             PROVE  \E q \in 1 .. j - 1 : Def(new[q]) = n
  BY <1>1 DEF TempsFlow
<1>5. ASSUME NEW q \in 1 .. m, q # l, q # k, q < o(j), Def(prog[q]) = n
      PROVE  \E p \in 1 .. j - 1 : Def(new[p]) = n
  <2>1. PICK p \in 1 .. m - 1 : q = o(p)
    BY <1>3, <1>5
  <2>2. p # k /\ p \in 1 .. m /\ j \in 1 .. m
    BY <1>1, <1>4, <1>5, <2>1
  <2>3. p < j
    BY <1>3, <1>5, <2>1, <2>2
  <2>4. p \in 1 .. j - 1
    BY <1>1, <2>3
  <2> QED BY <1>2, <1>5, <2>1, <2>2, <2>4
<1>6. CASE j = k
  <2>1. n \in TermNames(prog[k].term) \/ (n = x /\ isCompound(prog[l]))
    BY <1>1, <1>6 DEF MergeShape, variables, isCompound, Def
  <2>2. CASE n \in TermNames(prog[k].term)
    <3>1. PICK q \in 1 .. k - 1 : Def(prog[q]) = n
      BY <1>1, <2>2 DEF TempsFlow, variables
    <3>2. q \in 1 .. m /\ q # l /\ q # k /\ q < o(j)
      BY <1>1, <1>4, <1>6
    <3> QED BY <1>5, <3>1, <3>2
  <2>3. CASE n = x /\ isCompound(prog[l])
    <3>1. x # t
      BY <1>1, <2>3 DEF NoneAddedToItself
    <3>2. n \in variables(prog[l])
      BY <1>1, <2>3 DEF variables, isCompound, Def
    <3>3. PICK q \in 1 .. l - 1 : Def(prog[q]) = n
      BY <1>1, <3>2 DEF TempsFlow
    <3>4. q \notin k + 1 .. l - 1 /\ q # k
      BY <1>1, <2>3, <3>1, <3>3 DEF occurring
    <3>5. q \in 1 .. m /\ q # l /\ q < o(j)
      BY <1>1, <1>4, <1>6, <3>4
    <3> QED BY <1>5, <3>3, <3>4, <3>5
  <2> QED BY <2>1, <2>2, <2>3
<1>7. CASE j # k
  <2>1. n \in variables(prog[o(j)]) /\ o(j) \in 1 .. m /\ o(j) # l
    BY <1>2, <1>3, <1>7
  <2>2. PICK q \in 1 .. o(j) - 1 : Def(prog[q]) = n
    BY <2>1 DEF TempsFlow
  <2>3. q \in 1 .. m /\ q < o(j) /\ j \in 1 .. m
    BY <1>1, <2>1
  <2>4. k < o(j) => k \in 1 .. j - 1
    <3>1. k < o(j) => k < j
      BY <1>1, <1>3, <1>4, <2>3
    <3> QED BY <1>1, <3>1
  <2>5. CASE q # l /\ q # k
    BY <1>5, <2>2, <2>3, <2>5
  <2>6. CASE q = l
    <3>1. k < o(j)
      BY <1>1, <2>1, <2>3, <2>6
    <3> QED BY <1>1, <2>2, <2>4, <2>6, <3>1
  <2>7. CASE q = k /\ x = t
    BY <1>1, <2>2, <2>3, <2>4, <2>7
  <2>8. CASE q = k /\ x # t
    <3>1. n = t
      BY <1>1, <2>2, <2>8
    <3>2. o(j) \notin k + 1 .. l - 1
      BY <1>1, <2>1, <3>1 DEF occurring
    <3>3. o(j) \in l + 1 .. m
      BY <1>1, <2>1, <2>3, <2>8, <3>2
    <3>4. Needed(prog, n, o(j))
      BY <2>1 DEF Needed
    <3>5. PICK d \in l + 1 .. o(j) - 1 : Def(prog[d]) = n
      <4>1. o(j) \in l + 1 .. Len(prog) + 1
        BY <1>1, <3>3
      <4> QED BY <2>8, <3>1, <3>4, <4>1 DEF Dead
    <3>6. d \in 1 .. m /\ d # l /\ d # k /\ d < o(j)
      BY <1>1, <2>1, <3>3
    <3> QED BY <1>5, <3>5, <3>6
  <2> QED BY <2>5, <2>6, <2>7, <2>8
<1> QED BY <1>6, <1>7

LEMMA ExpiredMerge ==
  ASSUME NEW S, NEW prog \in Seq(S), Expired(prog), NoneAddedToItself(prog),
         NEW new, NEW k, NEW l, NEW t, NEW x,
         MergeShape(prog, new, k, l, t, x), x # t => Dead(prog, t, l)
  PROVE  Expired(new)
<1> DEFINE m == Len(prog)
           o(j) == at(l, j)
<1>1. /\ m \in Nat /\ k \in Nat /\ k \in 1 .. m /\ l \in Nat /\ l \in 1 .. m /\ k < l
      /\ Len(new) = m - 1 /\ Len(new) \in Nat /\ k \in 1 .. m - 1
      /\ Def(prog[k]) = t /\ Def(prog[l]) = x /\ Def(new[k]) = x
      /\ x \notin TermNames(prog[k].term) /\ TermNames(prog[l].term) = {t}
      /\ \A j \in k + 1 .. l - 1 : x \notin occurring(prog[j]) /\ t \notin occurring(prog[j])
  BY DEF MergeShape, variables
<1>2. ASSUME NEW j \in 1 .. m - 1, j # k PROVE new[j] = prog[o(j)] /\ o(j) # k
  <2>1. j \in 1 .. Len(new)
    BY <1>1
  <2>2. new[j] = prog[at(l, j)] /\ at(l, j) # k
    BY <1>2, <2>1, MergedPlaces
  <2> QED BY <2>2
<1>3. /\ \A j \in 1 .. m - 1 : o(j) \in 1 .. m /\ o(j) # l
      /\ \A j \in 1 .. m : j < l => o(j) = j
      /\ \A j \in 1 .. m : j >= l => o(j) = j + 1
      /\ \A j \in 1 .. m, p \in 1 .. m : j < p <=> o(j) < o(p)
      /\ \A q \in 1 .. m : q # l => \E j \in 1 .. m - 1 : q = o(j)
  BY <1>1, WithoutPlaces
<1>4. o(k) = k
  BY <1>1, <1>3
<1> HIDE DEF o
<1>5. \A n : /\ n \in variables(new[k]) => n \in TermNames(prog[k].term) \/ (n = x /\ isCompound(prog[l]))
             /\ Copies(new[k], n) <=> Copies(prog[k], n)
  BY <1>1 DEF MergeShape, variables, isCompound, Copies, Def
<1>6. isCompound(prog[l]) => x # t
  BY <1>1 DEF NoneAddedToItself
<1> SUFFICES ASSUME NEW j \in 1 .. m - 1, NEW n \in Tensor, NEW q \in 1 .. j - 1,
                    Def(new[q]) = n, Copies(new[j], n), Def(new[j]) # n
             PROVE  Dead(new, n, j)
  BY <1>1 DEF Expired
<1>7. /\ j \in 1 .. m /\ q \in 1 .. m /\ q \in 1 .. m - 1 /\ q < j
      /\ o(j) \in 1 .. m /\ o(q) \in 1 .. m /\ o(j) # l
  BY <1>1, <1>3
<1>8. o(q) < o(j)
  BY <1>3, <1>7
\* Statement o(j) of prog copies n, which was assigned before it.
<1>9. /\ Copies(prog[o(j)], n)
      /\ o(j) \notin k + 1 .. l - 1 \/ n # x
      /\ \E c \in 1 .. o(j) - 1 : Def(prog[c]) = n
  <2>1. Copies(prog[o(j)], n)
    <3>1. CASE j = k
      BY <1>4, <1>5, <3>1
    <3>2. CASE j # k
      BY <1>2, <3>2
    <3> QED BY <3>1, <3>2
  <2>2. o(j) \notin k + 1 .. l - 1 \/ n # x
    BY <1>1, <2>1 DEF Copies, occurring, variables
  <2>3. \E c \in 1 .. o(j) - 1 : Def(prog[c]) = n
    <3>1. CASE q # k
      <4>1. o(q) \in 1 .. o(j) - 1
        BY <1>7, <1>8
      <4> QED BY <1>2, <1>7, <3>1, <4>1
    <3>2. CASE q = k
      <4>1. n = x
        BY <1>1, <3>2
      <4>2. l < o(j)
        BY <1>1, <1>4, <1>7, <1>8, <2>2, <3>2, <4>1
      <4>3. l \in 1 .. o(j) - 1
        BY <1>1, <1>7, <4>2
      <4> QED BY <1>1, <4>1, <4>3
    <3> QED BY <3>1, <3>2
  <2> QED BY <2>1, <2>2, <2>3
<1> SUFFICES ASSUME NEW p \in j + 1 .. (m - 1) + 1, Needed(new, n, p)
             PROVE  \E d \in j + 1 .. p - 1 : Def(new[d]) = n
  BY <1>1 DEF Dead
<1>10. p \in 1 .. m /\ j < p /\ p \in Nat
  BY <1>1, <1>7
\* A definition of n between o(j) and o(p) is one in new.
<1>11. ASSUME NEW d \in o(j) + 1 .. o(p) - 1, d # l, o(p) \in Nat, d <= m,
              \/ d # k /\ Def(prog[d]) = n
              \/ d = k /\ n = x
       PROVE  \E c \in j + 1 .. p - 1 : Def(new[c]) = n
  <2>1. d \in 1 .. m /\ o(j) < d /\ d < o(p)
    BY <1>1, <1>7, <1>11
  <2>2. PICK c \in 1 .. m - 1 : d = o(c)
    BY <1>3, <1>11, <2>1
  <2>3. c \in j + 1 .. p - 1
    <3>1. c \in 1 .. m
      BY <1>1
    <3>2. j < c /\ c < p
      BY <1>3, <1>7, <1>10, <2>1, <2>2, <3>1
    <3> QED BY <1>1, <1>7, <1>10, <3>2
  <2>4. Def(new[c]) = n
    <3>1. CASE c = k
      BY <1>1, <1>4, <1>11, <2>2, <3>1
    <3>2. CASE c # k
      <4>1. d # k
        BY <1>2, <2>2, <3>2
      <4> QED BY <1>2, <1>11, <2>2, <3>2, <4>1
    <3> QED BY <3>1, <3>2
  <2> QED BY <2>3, <2>4
<1>12. o(p) \in o(j) + 1 .. m + 1 /\ o(p) # l /\ o(p) \in Nat
  <2>1. CASE p \in 1 .. m - 1
    <3>1. o(p) \in 1 .. m /\ o(p) # l /\ o(j) < o(p)
      BY <1>3, <1>7, <1>10, <2>1
    <3> QED BY <1>1, <1>7, <3>1
  <2>2. CASE p = m
    <3>1. o(p) = m + 1
      BY <1>1, <1>3, <1>10, <2>2
    <3> QED BY <1>1, <1>7, <3>1
  <2> QED BY <1>1, <1>10, <2>1, <2>2
\* n is needed at o(p) in prog, or at l if x is accumulated into.
<1>13. \/ Needed(prog, n, o(p))
       \/ p = k /\ n = x /\ Needed(prog, n, l) /\ x # t
  <2>1. CASE p = k
    <3>1. n \in variables(new[k])
      BY <1>1, <2>1 DEF Needed
    <3>2. CASE n \in TermNames(prog[k].term)
      BY <1>1, <1>4, <2>1, <3>2 DEF Needed, variables
    <3>3. CASE n = x /\ isCompound(prog[l])
      <4>1. x \in variables(prog[l])
        BY <1>1, <3>3 DEF variables, isCompound, Def
      <4> QED BY <1>1, <1>6, <2>1, <3>3, <4>1 DEF Needed
    <3> QED BY <1>5, <3>1, <3>2, <3>3
  <2>2. CASE p # k /\ p \in 1 .. m - 1
    <3>1. n \in variables(prog[o(p)])
      BY <1>1, <1>2, <2>2 DEF Needed
    <3> QED BY <1>3, <2>2, <3>1 DEF Needed
  <2>3. CASE p = m
    <3>1. o(p) = m + 1
      BY <1>1, <1>3, <1>10, <2>3
    <3>2. m + 1 \notin 1 .. m /\ p \notin 1 .. m - 1
      BY <1>1, <2>3
    <3>3. Needed(prog, n, m + 1)
      BY <1>1, <3>2 DEF Needed
    <3> QED BY <3>1, <3>3
  <2> QED BY <1>1, <1>10, <2>1, <2>2, <2>3
<1>14. CASE Def(prog[o(j)]) = n
  <2>1. j = k /\ n = t /\ x # t
    BY <1>1, <1>2, <1>4, <1>14
  <2>2. Needed(prog, n, o(p))
    BY <1>7, <1>10, <1>13, <2>1
  <2>3. o(p) \in l + 1 .. m + 1
    <3>1. CASE o(p) \in k + 1 .. l - 1
      <4>1. o(p) \in 1 .. m
        BY <1>1, <3>1
      <4>2. n \in variables(prog[o(p)])
        BY <2>2, <4>1 DEF Needed
      <4> QED BY <1>1, <2>1, <3>1, <4>2 DEF occurring
    <3>2. CASE o(p) \notin k + 1 .. l - 1
      BY <1>1, <1>4, <1>12, <2>1, <3>2
    <3> QED BY <3>1, <3>2
  <2>4. PICK d \in l + 1 .. o(p) - 1 : Def(prog[d]) = n
    BY <2>1, <2>2, <2>3 DEF Dead
  <2>5. d \in o(j) + 1 .. o(p) - 1 /\ d # l /\ d # k /\ d <= m
    BY <1>1, <1>4, <1>12, <2>1, <2>3, <2>4
  <2> QED BY <1>11, <1>12, <2>4, <2>5
<1>15. CASE Def(prog[o(j)]) # n
  <2>1. Dead(prog, n, o(j))
    BY <1>7, <1>9, <1>15 DEF Expired
  <2>2. CASE Needed(prog, n, o(p))
    <3>1. PICK d \in o(j) + 1 .. o(p) - 1 : Def(prog[d]) = n
      BY <1>12, <2>1, <2>2 DEF Dead
    <3>2. d \in Nat /\ o(j) < d /\ d < o(p) /\ d <= m
      BY SMTT(30), <1>1, <1>7, <1>12, <3>1
    <3>3. CASE d = l
      <4>1. n = x
        BY <1>1, <3>1, <3>3
      <4>2. o(j) < k
        <5>1. o(j) # k
          BY <1>2, <1>4, <1>1, <4>1
        <5> QED BY <1>1, <1>7, <1>9, <3>2, <3>3, <4>1, <5>1
      <4>3. k \in o(j) + 1 .. o(p) - 1 /\ k # l /\ k <= m
        BY <1>1, <1>7, <1>12, <3>2, <3>3, <4>2
      <4> QED BY <1>11, <1>12, <4>1, <4>3
    <3>4. CASE d = k
      <4>1. n = t
        BY <1>1, <3>1, <3>4
      <4>2. CASE x = t
        <5>1. k \in o(j) + 1 .. o(p) - 1 /\ k # l /\ k <= m
          BY <1>1, <3>1, <3>4
        <5> QED BY <1>11, <1>12, <4>1, <4>2, <5>1
      <4>3. CASE x # t
        <5>1. o(p) \in l + 1 .. m + 1
          <6>1. CASE o(p) \in k + 1 .. l - 1
            <7>1. o(p) \in 1 .. m
              BY <1>1, <6>1
            <7>2. n \in variables(prog[o(p)])
              BY <2>2, <7>1 DEF Needed
            <7> QED BY <1>1, <4>1, <6>1, <7>2 DEF occurring
          <6>2. CASE o(p) \notin k + 1 .. l - 1
            BY <1>1, <1>12, <3>2, <3>4, <6>2
          <6> QED BY <6>1, <6>2
        <5>2. PICK e \in l + 1 .. o(p) - 1 : Def(prog[e]) = n
          BY <2>2, <4>1, <4>3, <5>1 DEF Dead
        <5>3. e \in o(j) + 1 .. o(p) - 1 /\ e # l /\ e # k /\ e <= m
          BY SMTT(30), <1>1, <1>7, <1>12, <3>2, <3>4, <5>2
        <5> QED BY <1>11, <1>12, <5>2, <5>3
      <4> QED BY <4>2, <4>3
    <3>5. CASE d # l /\ d # k
      BY <1>11, <1>12, <3>1, <3>2, <3>5
    <3> QED BY <3>3, <3>4, <3>5
  <2>3. CASE p = k /\ n = x /\ Needed(prog, n, l) /\ x # t
    <3>1. o(p) = k /\ l \in o(j) + 1 .. m + 1 /\ o(j) < k
      BY <1>1, <1>4, <1>7, <1>12, <2>3
    <3>2. PICK d \in o(j) + 1 .. l - 1 : Def(prog[d]) = n
      BY <2>1, <2>3, <3>1 DEF Dead
    <3>3. d \notin k + 1 .. l - 1 /\ d # k
      BY <1>1, <2>3, <3>2 DEF occurring
    <3>4. d \in o(j) + 1 .. o(p) - 1 /\ d # l /\ d <= m
      BY <1>1, <1>7, <3>1, <3>2, <3>3
    <3> QED BY <1>11, <1>12, <3>2, <3>3, <3>4
  <2> QED BY <1>13, <2>2, <2>3
<1> QED BY <1>14, <1>15

-----------------------------------------------------------------------------
(* t = term at k and x = s * t at k + 1 become x = s * term at k *)

ScalarShape(prog, new, k, t, x) ==
  /\ MergeShape(prog, new, k, k + 1, t, x)
  /\ isLocal(t) /\ isLocal(x) /\ ~ isRHSVariable(prog[k])
  /\ prog[k + 1].scalar # NoScalar /\ new[k].scalar = prog[k + 1].scalar

\* A temporary that is scaled was not scaled before.
Unscaled(prog) ==
  \A j, k \in 1 .. Len(prog) :
    isLocal(Def(prog[j])) /\ Copies(prog[k], Def(prog[j])) /\ prog[k].scalar # NoScalar
      => prog[j].scalar = NoScalar

\* Where the statements of new come from.
LEMMA ScalarPlaces ==
  ASSUME NEW S, NEW prog \in Seq(S), NEW new, NEW k, NEW t, NEW x, ScalarShape(prog, new, k, t, x)
  PROVE  /\ Len(prog) \in Nat /\ k \in Nat /\ k \in 1 .. Len(prog) - 1 /\ Len(new) = Len(prog) - 1
         /\ \A j \in 1 .. Len(prog) - 1 : /\ at(k + 1, j) \in 1 .. Len(prog)
                                          /\ at(k + 1, j) # k + 1
                                          /\ j # k => new[j] = prog[at(k + 1, j)] /\ at(k + 1, j) # k
         /\ \A q \in 1 .. Len(prog) : q # k + 1 => \E j \in 1 .. Len(prog) - 1 : q = at(k + 1, j)
         /\ at(k + 1, k) = k
         /\ \A j, p \in 1 .. Len(prog) - 1 : j < p <=> at(k + 1, j) < at(k + 1, p)
<1> DEFINE m == Len(prog)
           l == k + 1
<1>1. MergeShape(prog, new, k, l, t, x)
  BY DEF ScalarShape
<1>2. /\ m \in Nat /\ k \in Nat /\ k \in 1 .. m - 1 /\ Len(new) = m - 1 /\ l \in 1 .. m
      /\ \A j \in 1 .. m - 1 : j \in 1 .. m
  BY <1>1 DEF MergeShape
<1> HIDE DEF l
<1>3. /\ \A j \in 1 .. m - 1 : at(l, j) \in 1 .. m /\ at(l, j) # l
      /\ \A j \in 1 .. m : j < l => at(l, j) = j
      /\ \A j \in 1 .. m, p \in 1 .. m : j < p <=> at(l, j) < at(l, p)
      /\ \A q \in 1 .. m : q # l => \E j \in 1 .. m - 1 : q = at(l, j)
  BY <1>2, WithoutPlaces
<1>4. \A j \in 1 .. m - 1 : j # k => new[j] = prog[at(l, j)] /\ at(l, j) # k
  BY <1>1, <1>2, MergedPlaces
<1>5. at(l, k) = k
  BY <1>2, <1>3 DEF l
<1> QED BY <1>2, <1>3, <1>4, <1>5 DEF l

LEMMA ScalarNames ==
  ASSUME NEW S, NEW prog \in Seq(S), NEW new, NEW k, NEW t, NEW x, ScalarShape(prog, new, k, t, x)
  PROVE  /\ Def(prog[k]) = t /\ Def(prog[k + 1]) = x /\ Def(new[k]) = x
         /\ ~ isRHSVariable(new[k])
         /\ \A n \in occurring(new[k]) : n \in occurring(prog[k]) \/ n \in occurring(prog[k + 1])
<1>1. MergeShape(prog, new, k, k + 1, t, x) /\ ~ isRHSVariable(prog[k])
  BY DEF ScalarShape
<1>2. /\ Def(prog[k]) = t /\ Def(prog[k + 1]) = x /\ Def(new[k]) = x /\ ~ isRHSVariable(new[k])
      /\ TermNames(new[k].term) = TermNames(prog[k].term)
  BY <1>1 DEF MergeShape
<1>3. \A n \in occurring(new[k]) : n = x \/ n \in TermNames(new[k].term)
  BY <1>2 DEF occurring, variables, Def
<1>4. /\ x \in occurring(prog[k + 1])
      /\ \A n \in TermNames(prog[k].term) : n \in occurring(prog[k])
  BY <1>2 DEF occurring, variables
<1> QED BY <1>2, <1>3, <1>4

LEMMA BarriersScalar ==
  ASSUME NEW S, NEW prog \in Seq(S), Barriers(prog), NEW new, NEW k, NEW t, NEW x,
         ScalarShape(prog, new, k, t, x)
  PROVE  Barriers(new)
<1> DEFINE m == Len(prog)
           o(j) == at(k + 1, j)
<1>1. /\ m \in Nat /\ k \in Nat /\ k \in 1 .. m - 1 /\ Len(new) = m - 1 /\ k + 1 \in 1 .. m
      /\ \A j \in 1 .. m - 1 : o(j) \in 1 .. m /\ o(j) # k + 1
                               /\ (j # k => new[j] = prog[o(j)] /\ o(j) # k)
      /\ o(k) = k
      /\ \A j, p \in 1 .. m - 1 : j < p <=> o(j) < o(p)
  BY ScalarPlaces
<1>2. isLocal(x) /\ isLocal(t)
  BY DEF ScalarShape
<1>3. /\ Def(new[k]) = x
      /\ \A n \in occurring(new[k]) : n \in occurring(prog[k]) \/ n \in occurring(prog[k + 1])
  BY ScalarNames
<1> HIDE DEF o
<1> SUFFICES ASSUME NEW d \in 1 .. m - 1, Def(new[d]) \in Tensor, Overwrites(new[d]),
                    NEW j \in 1 .. d, NEW l \in d + 1 .. m - 1, NEW n \in occurring(new[j]),
                    isLocal(n), n \in occurring(new[l])
             PROVE  FALSE
  BY <1>1 DEF Barriers, Barrier
<1>4. /\ j \in 1 .. m - 1 /\ l \in 1 .. m - 1 /\ d \in Nat /\ j \in Nat /\ l \in Nat
      /\ j <= d /\ d < l /\ d # k
  BY <1>1, <1>2, <1>3 DEF isLocal
<1>5. new[d] = prog[o(d)] /\ o(d) \in 1 .. m /\ o(d) # k /\ o(d) # k + 1
  BY <1>1, <1>4
<1>6. Barrier(prog, o(d))
  BY <1>5 DEF Barriers
<1>7. \E p \in 1 .. o(d) : n \in occurring(prog[p])
  <2>1. CASE j = k
    <3>1. o(k) < o(d)
      BY <1>1, <1>4, <2>1
    <3>2. k \in 1 .. o(d) /\ k + 1 \in 1 .. o(d)
      BY <1>1, <1>5, <3>1
    <3> QED BY <1>3, <2>1, <3>2
  <2>2. CASE j # k
    <3>1. o(j) \in 1 .. m /\ new[j] = prog[o(j)]
      BY <1>1, <1>4, <2>2
    <3>2. o(j) \in 1 .. o(d)
      <4>1. CASE j = d
        BY <1>5, <4>1
      <4>2. CASE j < d
        <5>1. o(j) < o(d)
          BY <1>1, <1>4, <4>2
        <5> QED BY <1>5, <3>1, <5>1
      <4> QED BY <1>4, <4>1, <4>2
    <3> QED BY <3>1, <3>2
  <2> QED BY <2>1, <2>2
<1>8. \E q \in o(d) + 1 .. m : n \in occurring(prog[q])
  <2>1. o(d) < o(l) /\ o(l) \in 1 .. m
    BY <1>1, <1>4
  <2>2. CASE l = k
    <3>1. k \in o(d) + 1 .. m /\ k + 1 \in o(d) + 1 .. m
      BY <1>1, <1>5, <2>1, <2>2
    <3> QED BY <1>3, <2>2, <3>1
  <2>3. CASE l # k
    <3>1. o(l) \in o(d) + 1 .. m
      <4>1. o(l) \in Nat /\ o(d) \in Nat /\ o(l) <= m
        BY <1>1, <1>5, <2>1
      <4> QED BY <1>1, <2>1, <4>1
    <3>2. new[l] = prog[o(l)]
      BY <1>1, <1>4, <2>3
    <3> QED BY <3>1, <3>2
  <2> QED BY <2>2, <2>3
<1> QED BY <1>6, <1>7, <1>8 DEF Barrier

LEMMA RewrittenScalar ==
  ASSUME NEW S, NEW prog \in Seq(S), NEW W, Rewritten(prog, W), NEW new, NEW k, NEW t, NEW x,
         ScalarShape(prog, new, k, t, x)
  PROVE  Rewritten(new, W)
<1> DEFINE m == Len(prog)
           o(j) == at(k + 1, j)
<1>1. /\ m \in Nat /\ k \in Nat /\ k \in 1 .. m - 1 /\ Len(new) = m - 1
      /\ \A j \in 1 .. m - 1 : o(j) \in 1 .. m /\ o(j) # k + 1
                               /\ (j # k => new[j] = prog[o(j)] /\ o(j) # k)
      /\ o(k) = k
      /\ \A j, p \in 1 .. m - 1 : j < p <=> o(j) < o(p)
  BY ScalarPlaces, SMTT(60)
<1>11. \A q \in 1 .. m : q # k + 1 => \E j \in 1 .. m - 1 : q = o(j)
  <2>1. m \in Nat /\ k + 1 \in 1 .. m
    BY <1>1
  <2> QED BY <2>1, WithoutPlaces
<1>2. isLocal(x) /\ isLocal(t)
  BY DEF ScalarShape
<1>3. Def(prog[k]) = t /\ Def(prog[k + 1]) = x /\ ~ isRHSVariable(new[k])
  BY ScalarNames
<1> HIDE DEF o
<1> SUFFICES ASSUME NEW j \in 1 .. m - 1, NEW n \in Global \cap W, Copies(new[j], n), Def(new[j]) # n
             PROVE  \E d \in j + 1 .. m - 1 : Def(new[d]) = n
  BY <1>1 DEF Rewritten
<1>4. j # k /\ n # t /\ n # x
  BY <1>2, <1>3 DEF Copies, isLocal, Tensor
<1>5. new[j] = prog[o(j)] /\ o(j) \in 1 .. m
  BY <1>1, <1>4
<1>6. PICK d \in o(j) + 1 .. m : Def(prog[d]) = n
  BY <1>5 DEF Rewritten
<1>7. d \in 1 .. m /\ d # k /\ d # k + 1 /\ o(j) < d
  BY <1>3, <1>4, <1>5, <1>6
<1>8. PICK c \in 1 .. m - 1 : d = o(c)
  BY <1>11, <1>7
<1>9. j < c /\ c # k
  BY <1>1, <1>7, <1>8
<1>10. c \in j + 1 .. m - 1
  <2>1. c \in Nat /\ j \in Nat /\ c <= m - 1
    BY <1>1
  <2> QED BY <1>1, <1>9, <2>1
<1>12. new[c] = prog[d]
  BY <1>1, <1>8, <1>9
<1> QED BY <1>6, <1>10, <1>12

LEMMA UnscaledScalar ==
  ASSUME NEW S, NEW prog \in Seq(S), Unscaled(prog), NEW new, NEW k, NEW t, NEW x,
         ScalarShape(prog, new, k, t, x)
  PROVE  Unscaled(new)
<1> DEFINE m == Len(prog)
           o(j) == at(k + 1, j)
<1>1. /\ m \in Nat /\ k \in Nat /\ k \in 1 .. m - 1 /\ Len(new) = m - 1 /\ k + 1 \in 1 .. m
      /\ \A j \in 1 .. m - 1 : o(j) \in 1 .. m /\ o(j) # k + 1
                               /\ (j # k => new[j] = prog[o(j)] /\ o(j) # k)
  <2>1. /\ m \in Nat /\ k \in Nat /\ k \in 1 .. m - 1 /\ Len(new) = m - 1
        /\ \A j \in 1 .. m - 1 : /\ at(k + 1, j) \in 1 .. m
                                 /\ at(k + 1, j) # k + 1
                                 /\ j # k => new[j] = prog[at(k + 1, j)] /\ at(k + 1, j) # k
    BY ScalarPlaces
  <2> QED BY <2>1
<1>2. prog[k + 1].scalar # NoScalar
  BY DEF ScalarShape
<1>3. Def(prog[k + 1]) = x /\ Def(new[k]) = x /\ ~ isRHSVariable(new[k])
  BY ScalarNames
<1> HIDE DEF o
<1> SUFFICES ASSUME NEW j \in 1 .. m - 1, NEW l \in 1 .. m - 1, NEW n, isLocal(n),
                    Copies(new[l], n), new[l].scalar # NoScalar, Def(new[j]) = n
             PROVE  new[j].scalar = NoScalar
  BY <1>1 DEF Unscaled
<1>4. l # k
  BY <1>3 DEF Copies
<1>5. new[l] = prog[o(l)] /\ o(l) \in 1 .. m
  BY <1>1, <1>4
<1>6. j # k
  BY <1>1, <1>2, <1>3, <1>5 DEF Unscaled
<1>7. new[j] = prog[o(j)] /\ o(j) \in 1 .. m
  BY <1>1, <1>6
<1> QED BY <1>5, <1>7 DEF Unscaled

-----------------------------------------------------------------------------
(* The same names *)

LEMMA MovedRenamed ==
  ASSUME NEW a \in Actions, NEW b \in Actions, NEW t, NEW x, Moved(a, b, t, x)
  PROVE  Renamed(a, b, t, x)
<1>1. a.term.args \in Seq(Variables) /\ b.term.args \in Seq(Variables)
  BY DEF Actions, Terms
<1>2. DOMAIN b.term.args = DOMAIN a.term.args
  BY <1>1 DEF Moved
<1>3. TermNames(b.term) = {ren(n, t, x) : n \in TermNames(a.term)}
  BY <1>2 DEF Moved, TermNames
<1> QED BY <1>3 DEF Moved, Renamed, OperandsRenamed

\* The statements differ in the patterns and layouts of their variables only.
LEMMA SameRuns ==
  ASSUME NEW prog \in Seq(Actions), NEW new \in Seq(Actions), Unary(prog), Unary(new),
         Familiar(prog, new), NEW tensors \in [Tensor -> Values],
         NEW f, Clean(prog, tensors, f),
         Len(new) = Len(prog), \A j \in 1 .. Len(prog) : Moved(prog[j], new[j], 0, 0)
  PROVE  KeepsResults(prog, new, tensors)
<1> DEFINE m == Len(prog)
           F == [j \in Nat |-> InMemory(new)]
<1>1. m \in Nat /\ Len(new) = m /\ 0 \in 0 .. m /\ m + 0 = m
  OBVIOUS
<1>2. PICK g : Executes(new, tensors, g)
  BY ExecutionExists
<1>3. \A n, z : ren(n, z, z) = n
  BY DEF ren
<1>4. \A j \in Nat : F[j] = InMemory(new)
  OBVIOUS
<1>5. Agree(F[0], f[0 + 0], g[0], 0, 0)
  <2>1. f[0] = Loaded(prog, tensors) /\ g[0] = Loaded(new, tensors)
    BY <1>2 DEF Clean, Executes
  <2>2. \A n \in InMemory(new) : g[0][n] = f[0][n]
    BY <2>1 DEF Loaded, InMemory, Familiar
  <2> QED BY <1>3, <1>4, <2>2 DEF Agree
<1> HIDE DEF F
<1>6. ASSUME NEW j \in 0 + 1 .. m PROVE InStep(prog, new, 0, F, j, 0, 0)
  <2>1. j \in 1 .. m /\ j \in Nat /\ j - 1 \in Nat /\ j + 0 = j
    BY <1>1
  <2>2. Moved(prog[j], new[j], 0, 0) /\ prog[j] \in Actions /\ new[j] \in Actions
    BY <2>1
  <2>3. F[j - 1] = InMemory(new) /\ F[j] = InMemory(new)
    BY <1>4, <2>1
  <2>4. variables(new[j]) \cup {Def(new[j])} \subseteq InMemory(new)
    BY <1>1, <2>1, MemoryNames DEF InMemory
  <2>5. variables(prog[j]) = variables(new[j]) /\ Def(new[j]) = Def(prog[j])
    <3>1. Renamed(prog[j], new[j], 0, 0)
      BY <2>2, MovedRenamed
    <3>2. /\ TermNames(new[j].term) = TermNames(prog[j].term) /\ Def(new[j]) = Def(prog[j])
          /\ new[j].add = prog[j].add
      BY <1>3, <3>1 DEF Renamed, OperandsRenamed
    <3> QED BY <3>2 DEF variables, Def
  <2>6. \A n \in F[j] : n \in F[j - 1] /\ (n # Def(prog[j]) => ren(n, 0, 0) # ren(Def(prog[j]), 0, 0))
    BY <1>3, <2>3
  <2>7. F[j] \subseteq InMemory(prog)
    BY <2>3 DEF Familiar
  <2> QED BY <1>1, <1>3, <2>1, <2>2, <2>3, <2>4, <2>5, <2>6, <2>7 DEF InStep, InMemory
<1> DEFINE p == 0
<1>7. Alike(prog, new, f, g, F, p, m)
  BY <1>1, <1>5, <1>6 DEF Alike
<1> HIDE DEF p, m
<1>8. /\ Agree(F[m], f[m], g[m], 0, 0)
      /\ \A j \in p + 1 .. m : Keeps(new[j], g[j - 1])
  BY <1>2, <1>7, AlikeTogether
<1>9. \A j \in 1 .. m : Keeps(new[j], g[j - 1])
  BY <1>8 DEF p
<1> DEFINE s == 0
           T == {}
<1>10. EndsAlike(prog, new, f, g, m, s, T)
  <2>1. m + s = m /\ m \in 0 .. Len(new) /\ s \in Nat /\ Len(prog) = Len(new) + s
    BY <1>1 DEF m
  <2>2. \A j \in m + 1 .. Len(new) : FALSE
    BY <1>1
  <2>3. \A n \in InMemory(new) : g[m][n] = f[m][n]
    BY <1>1, <1>3, <1>4, <1>8 DEF Agree
  <2>4. \A j \in m + 1 .. Len(new) : new[j] = prog[j + s]
    BY <2>2
  <2>5. (\A n \in T : Dead(prog, n, m + s)) /\ \A n \in InMemory(new) : n \notin T => g[m][n] = f[m + s][n]
    BY <2>1, <2>3
  <2> HIDE DEF s, T
  <2> QED BY <1>9, <2>1, <2>4, <2>5 DEF EndsAlike
<1> HIDE DEF s, T
<1> QED BY <1>2, <1>10, SameEnd

SameNames(prog, new) ==
  /\ Len(prog) \in Nat /\ Len(new) = Len(prog)
  /\ \A j \in 1 .. Len(prog) :
       /\ TermNames(new[j].term) = TermNames(prog[j].term) /\ Def(new[j]) = Def(prog[j])
       /\ variables(new[j]) = variables(prog[j]) /\ occurring(new[j]) = occurring(prog[j])
       /\ isCompound(new[j]) <=> isCompound(prog[j])
       /\ isRHSVariable(new[j]) <=> isRHSVariable(prog[j])

LEMMA ExpiredSame ==
  ASSUME NEW prog, NEW new, SameNames(prog, new), Expired(prog)
  PROVE  Expired(new)
<1> DEFINE m == Len(prog)
<1>1. m \in Nat /\ Len(new) = m
  BY DEF SameNames
<1>2. \A j \in 1 .. m : /\ Def(new[j]) = Def(prog[j]) /\ variables(new[j]) = variables(prog[j])
                        /\ \A n : Copies(new[j], n) <=> Copies(prog[j], n)
  BY DEF SameNames, Copies
<1> SUFFICES ASSUME NEW j \in 1 .. m, NEW n \in Tensor, NEW q \in 1 .. j - 1,
                    Def(new[q]) = n, Copies(new[j], n), Def(new[j]) # n
             PROVE  Dead(new, n, j)
  BY <1>1 DEF Expired
<1>3. j \in Nat /\ q \in 1 .. m
  BY <1>1
<1>4. Dead(prog, n, j)
  BY <1>2, <1>3 DEF Expired
<1>5. AlikeAfter(prog, new, j, n)
  <2>1. \A l \in j + 1 .. m : l \in 1 .. m
    BY <1>1, <1>3
  <2> QED BY <1>1, <1>2, <1>3, <2>1 DEF AlikeAfter
<1> QED BY <1>4, <1>5, DeadSame

LEMMA NamesSame ==
  ASSUME NEW prog, NEW new, SameNames(prog, new)
  PROVE  /\ Barriers(prog) => Barriers(new)
         /\ \A k : BarriersBelow(prog, k) => BarriersBelow(new, k)
         /\ \A W : Rewritten(prog, W) => Rewritten(new, W)
         /\ NoneAddedToItself(prog) => NoneAddedToItself(new)
         /\ TempsFlow(prog) => TempsFlow(new)
<1> DEFINE m == Len(prog)
<1>1. m \in Nat /\ Len(new) = m
  BY DEF SameNames
<1>2. \A j \in 1 .. m :
        /\ TermNames(new[j].term) = TermNames(prog[j].term) /\ Def(new[j]) = Def(prog[j])
        /\ variables(new[j]) = variables(prog[j]) /\ occurring(new[j]) = occurring(prog[j])
        /\ isCompound(new[j]) <=> isCompound(prog[j])
        /\ Overwrites(new[j]) <=> Overwrites(prog[j])
        /\ CopiesLocal(new[j]) <=> CopiesLocal(prog[j])
        /\ \A n : Copies(new[j], n) <=> Copies(prog[j], n)
  BY DEF SameNames, Copies, Overwrites, CopiesLocal
<1>3. \A d \in 1 .. m : Barrier(prog, d) => Barrier(new, d)
  <2> SUFFICES ASSUME NEW d \in 1 .. m, Barrier(prog, d), NEW j \in 1 .. d, NEW l \in d + 1 .. m,
                      NEW n \in occurring(new[j]), isLocal(n)
               PROVE  n \notin occurring(new[l])
    BY <1>1 DEF Barrier
  <2>1. j \in 1 .. m /\ l \in 1 .. m
    BY <1>1
  <2> QED BY <1>2, <2>1 DEF Barrier
<1>4. Barriers(prog) => Barriers(new)
  BY <1>1, <1>2, <1>3 DEF Barriers
<1>5. ASSUME NEW k, BarriersBelow(prog, k) PROVE BarriersBelow(new, k)
  <2> SUFFICES ASSUME NEW e \in 1 .. m, NEW d \in 1 .. e - 1, e <= k, Repeats(new, e, d)
               PROVE  Barrier(new, d)
    BY <1>1 DEF BarriersBelow
  <2>1. d \in 1 .. m
    BY <1>1
  <2>2. Repeats(prog, e, d)
    BY <1>2, <2>1 DEF Repeats
  <2> QED BY <1>3, <1>5, <2>1, <2>2 DEF BarriersBelow
<1>6. ASSUME NEW W, Rewritten(prog, W) PROVE Rewritten(new, W)
  <2> SUFFICES ASSUME NEW j \in 1 .. m, NEW n \in Global \cap W, Copies(new[j], n), Def(new[j]) # n
               PROVE  \E d \in j + 1 .. m : Def(new[d]) = n
    BY <1>1 DEF Rewritten
  <2>1. \A d \in j + 1 .. m : d \in 1 .. m
    BY <1>1
  <2> QED BY <1>2, <1>6, <2>1 DEF Rewritten
<1>7. NoneAddedToItself(prog) => NoneAddedToItself(new)
  BY <1>1, <1>2 DEF NoneAddedToItself
<1>8. TempsFlow(prog) => TempsFlow(new)
  <2>1. \A j \in 1 .. m : \A q \in 1 .. j - 1 : q \in 1 .. m
    BY <1>1
  <2> QED BY <1>1, <1>2, <2>1 DEF TempsFlow
<1> QED BY <1>4, <1>5, <1>6, <1>7, <1>8
=============================================================================
