------------------------------ MODULE GemmTools ------------------------------
(***************************************************************************)
(* The choice of a tool for a GEMM (gemm_configuration.py), the routine    *)
(* that a code generator is asked for (codegen/gemm/gemmgen.py), and the   *)
(* cache of routines that the kernels share (codegen/cache.py).            *)
(*                                                                         *)
(* A call is a record of what getGemmTool is told.  A scale is the text of *)
(* a number or the name of a scalar of the kernel.  An architecture has a  *)
(* host, a backend and a flag for prefetching.                             *)
(***************************************************************************)
EXTENDS Integers, Sequences, FiniteSets, FiniteSetsExt, SequencesExt

BLASlike       == {"mkl", "openblas", "blis", "eigen"}
CodeGenerators == {"libxsmm_jit", "libxsmm", "pspamm"}
IsInternal(tool) == tool = "libxsmm_jit"

\* The order of DefaultGeneratorCollection.
DefaultOrder == <<"libxsmm_jit", "libxsmm", "pspamm", "mkl", "openblas", "blis",
                  "eigen", "gemmforge", "tinytc">>

-----------------------------------------------------------------------------
(* Tools *)

\* The hosts of the code generators, as far as the runs use them.
Hosts(tool) ==
  CASE tool = "libxsmm_jit" -> {"noarch", "hsw", "skx", "power9", "sve256", "neon"}
    [] tool = "libxsmm"     -> {"noarch", "hsw", "skx"}
    [] tool = "pspamm"      -> {"hsw", "skx", "sve256", "sve1024", "neon"}
    [] tool = "mkl"         -> {"hsw", "skx"}

\* archSupported of each class
archSupported(tool, arch) ==
  CASE tool \in CodeGenerators \cup {"mkl"} -> arch.host \in Hosts(tool)
    [] tool = "gemmforge" -> arch.backend \in {"cuda", "hip", "oneapi", "acpp", "hipsycl"}
    [] tool = "tinytc"    -> arch.backend = "oneapi"
    [] OTHER              -> TRUE

UnitScales(c) == c.alpha = "1" /\ c.beta \in {"0", "1"}

\* Hosts on which PSpaMM needs no alignment.
NoAlign(arch) == arch.host \in {"skx", "sve256", "sve1024"}

supportsPSpaMM(arch, c) ==
  /\ c.alignedC \/ NoAlign(arch)
  /\ IF c.sparseA THEN c.alignedA ELSE NoAlign(arch) \/ c.alignedA
  /\ ~ c.transA /\ ~ c.transB

\* supported of each class; the BLAS-like tools do not ask for the architecture
\* again.
supported(tool, arch, c) ==
  IF tool \in BLASlike THEN ~ c.sparseA /\ ~ c.sparseB /\ c.target = "cpu"
  ELSE /\ archSupported(tool, arch)
       /\ c.target = IF tool \in CodeGenerators THEN "cpu" ELSE "gpu"
       /\ CASE tool = "libxsmm_jit" -> ~ (c.sparseA \/ c.sparseB) /\ ~ c.transA /\ UnitScales(c)
            [] tool = "libxsmm"     -> /\ ~ (c.sparseA /\ c.sparseB)
                                       /\ ~ c.transA /\ ~ c.transB
                                       /\ UnitScales(c)
            [] tool = "pspamm"      -> supportsPSpaMM(arch, c)
            [] tool = "gemmforge"   -> ~ (c.sparseA \/ c.sparseB)
            [] tool = "tinytc"      -> ~ (c.sparseA \/ c.sparseB) /\ UnitScales(c)

\* The threshold of the code generators for small products.
Small(c) == c.m * c.n * c.k <= 128 * 128 * 128

\* preference of each class, from LOWEST = 0 to HIGHEST = 4
preference(tool, c) ==
  CASE tool \in BLASlike -> 2
    [] tool = "libxsmm_jit" -> IF Small(c) THEN 3 ELSE 1
    [] tool = "libxsmm" -> IF c.sparseA THEN 1 ELSE IF c.sparseB THEN 2 ELSE IF Small(c) THEN 3 ELSE 1
    [] tool = "pspamm" -> IF c.sparseB \/ (c.sparseA /\ c.alignedA) \/ Small(c) THEN 3 ELSE 1
    [] tool = "gemmforge" -> IF c.sparseA /\ c.sparseB THEN 0 ELSE IF ~ c.transA THEN 4
                             ELSE IF c.m < 16 THEN 0 ELSE 3
    [] tool = "tinytc" -> 4

\* DefaultGeneratorCollection
DefaultTools(arch) == SelectSeq(DefaultOrder, LAMBDA tool : archSupported(tool, arch))

\* getGemmTool, as a set of at most one tool: the dictionary from preferences
\* to tools is filled from the back, so of equal ones the first tool stays.
getGemmTool(tools, arch, c) ==
  LET fits == {i \in DOMAIN tools : supported(tools[i], arch, c)}
      best == {i \in fits : \A j \in fits : preference(tools[j], c) <= preference(tools[i], c)}
  IN  {tools[i] : i \in {i \in best : \A j \in best : i <= j}}

-----------------------------------------------------------------------------
(* Routines *)

\* A minus sign is not part of a name.
_is_special(value, specials) ==
  IF value \notin specials THEN "generic" ELSE IF value = "-1" THEN "m1" ELSE value

_alpha(tool, alpha) ==
  _is_special(alpha, IF tool = "pspamm" THEN {"-1", "1"} ELSE {"1"})
_beta(beta) == _is_special(beta, {"0", "1"})

\* What a code generator is told of a call with the leading dimensions ld and,
\* for a sparse operand, its entries and the rows of its tensor.
gemmDescr(tool, arch, c) ==
  [sizes |-> <<c.m, c.n, c.k>>, ld |-> c.ld, trans |-> <<c.transA, c.transB>>,
   alpha |-> _alpha(tool, c.alpha), beta |-> _beta(c.beta),
   alignment |-> <<c.alignedA, c.alignedC>>,
   prefetch |-> arch.prefetch /\ c.prefetch]

\* ExecuteGemmGen and LibxsmmGemmGen; rows are those of the tensors of the sparse
\* operands.  The tool decides how the routine is made, and PSpaMM is told the
\* rows of the right one, but neither is compared; the name has the tool only.
GemmRoutine(tool, arch, c) ==
  [class |-> IF IsInternal(tool) THEN "LibxsmmGemmGen" ELSE "ExecuteGemmGen",
   tool |-> tool, gemm |-> gemmDescr(tool, arch, c), spp |-> c.spp, rows |-> c.rows]
SameRoutine(r, s) == r.gemm = s.gemm /\ r.spp = s.spp

\* generateRoutineName; the scales of the descriptor are encoded once more,
\* and a hash stands for the entries.
RoutineName(tool, arch, c) ==
  LET gemm == gemmDescr(tool, arch, c)
  IN  <<tool, c.spp, [gemm EXCEPT !.alpha = _alpha(tool, @), !.beta = _beta(@)]>>

NewRoutineCache == [routines |-> [name \in {} |-> {}], headers |-> {}]

\* Mistake: nobody notices that a name is taken.
Clashes_Never(cache, name, routine) == FALSE

\* RoutineCache.addRoutine raises if it has another routine of that name.
Clashes(cache, name, routine) ==
  /\ name \in DOMAIN cache.routines
  /\ ~ SameRoutine(cache.routines[name], routine)

\* One generator of every class writes the header of its class.
addRoutine(cache, name, routine) ==
  [routines |-> [n \in DOMAIN cache.routines \cup {name} |->
                   IF n = name THEN routine ELSE cache.routines[n]],
   headers  |-> cache.headers \cup {routine.class}]
=============================================================================
