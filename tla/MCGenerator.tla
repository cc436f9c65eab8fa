---------------------------- MODULE MCGenerator ----------------------------
(* Constants of the run generator: parameter spaces as the helpers of       *)
(* generator.py make them, and lists that a user writes down.               *)
EXTENDS KernelObject

simpleParameterSpace(n, m) ==
  [k \in 1 .. n * m |-> <<(k - 1) \div m, (k - 1) % m>>]

\* One and two parameters, a space that does not start at zero, a triangle,
\* and three parameters with and without the corner of their box.
MCSpaces ==
  { << <<0>>, <<2>> >>,
    simpleParameterSpace(2, 2),
    << <<1, 0>>, <<1, 1>>, <<1, 2>> >>,
    << <<0, 2>>, <<0, 0>>, <<1, 0>> >>,
    << <<0, 0, 1>>, <<0, 1, 0>>, <<0, 1, 1>> >>,
    << <<0, 0, 1>>, <<0, 1, 0>>, <<1, 0, 0>> >> }

\* PSpaMM is the only code generator there is for this host.
MCArch == [host |-> "sve1024", backend |-> "cuda", prefetch |-> FALSE]

Thing(ns, name, group) == [ns |-> ns, name |-> name, group |-> group, const |-> FALSE]
MCGemm(m, alpha, spp, rows) ==
  [m |-> m, n |-> 2, k |-> 2, ld |-> <<m, IF spp = "dense" THEN 2 ELSE 0, m>>, target |-> "cpu",
   sparseA |-> FALSE, sparseB |-> spp # "dense", transA |-> FALSE, transB |-> FALSE,
   alpha |-> alpha, beta |-> "1", alignedA |-> FALSE, alignedC |-> FALSE,
   prefetch |-> FALSE, spp |-> spp, rows |-> <<0, rows>>]

\* The callbacks of the first and the second call.  A member reads a tensor A
\* whose group is its parameters and writes Q; its buffers and its GEMM depend
\* on the first parameter.  In the second call, A of one parameter comes from
\* a namespace, A of two has values and A of three has a group of one; there
\* are grouped scalars and a tensor that nothing but a prefetch mentions.  Members
\* of three parameters multiply with a sparse tensor whose last rows are empty,
\* more of them for some members than for others.
MCAst(c, param) ==
  LET first == IF param = <<>> THEN 0 ELSE param[1]
      A == IF c = 1 THEN Thing("", "A", param)
           ELSE CASE Len(param) = 1 -> Thing("n", "A", param)
                  [] Len(param) = 2 -> [Thing("", "A", param) EXCEPT !.const = TRUE]
                  [] Len(param) = 3 -> Thing("", "A", <<first>>)
                  [] OTHER -> Thing("", "B", <<>>)
      Q == Thing("", "Q", <<>>)
  IN  [tensors  |-> {A, Q},
       writes   |-> {Q},
       prefetch |-> IF c = 1 THEN {A} ELSE IF Len(param) = 3 /\ first = 1 THEN {Thing("", "P", <<1>>)} ELSE {},
       scalars  |-> {[ns |-> "", name |-> IF c = 1 THEN "t" ELSE "s", group |-> IF c = 1 THEN <<>> ELSE param]},
       buffers  |-> << <<60>>, <<40, 100>>, <<130>> >>[first + 1],
       gemms    |-> {MCGemm(IF first = 2 THEN 4 ELSE 2,
                            IF c = 1 /\ first = 0 THEN "-1" ELSE IF c = 1 THEN "1" ELSE "s",
                            IF Len(param) = 3 THEN "diagonal" ELSE "dense",
                            IF Len(param) = 3 THEN 2 + param[2] ELSE 0)}]
=============================================================================
