---------------------------- MODULE KernelOutline ----------------------------
(***************************************************************************)
(* What the code generator knows of a kernel (KernelOutline of             *)
(* codegen/visitor.py), the class it makes of the kernels of a family, and *)
(* the Containers that hold the arguments of a group                       *)
(* (InitializerGenerator).                                                 *)
(*                                                                         *)
(* The program of a kernel is a record of its global tensors, those it     *)
(* writes, those it prefetches, its scalars, the sizes of its buffers in   *)
(* the order of their initialisation, and its GEMMs.  A tensor or scalar   *)
(* has a namespace, a base name and a group of indices, which is empty for *)
(* most; a tensor may have values that are known when the code is          *)
(* generated (const).                                                      *)
(***************************************************************************)
EXTENDS Integers, Sequences, FiniteSets, FiniteSetsExt, Functions

CONSTANT bytesPerReal  \* Architecture.bytesPerReal

ASSUME RealAssumption == bytesPerReal \in Nat \ {0}

Empty == [x \in {} |-> x]
Put(f, x, y) == [z \in DOMAIN f \cup {x} |-> IF z = x THEN y ELSE f[z]]
Get(f, x, default) == IF x \in DOMAIN f THEN f[x] ELSE default

-----------------------------------------------------------------------------
(* Names *)

baseNameWithNamespace(x) == <<x.ns, x.name>>
BaseNames(S)    == {baseNameWithNamespace(x) : x \in S}
Grouped(S)      == {x \in S : x.group # <<>>}
Members(S, b)   == {x \in S : baseNameWithNamespace(x) = b}
GroupIndices(S, b) == {x.group : x \in Members(S, b)}

\* KernelOutline._addTensor and InitializerGenerator raise.
MixedGroups(S) ==
  \E x, y \in S : baseNameWithNamespace(x) = baseNameWithNamespace(y) /\ Len(x.group) # Len(y.group)

-----------------------------------------------------------------------------
(* KernelOutline *)

\* KernelGenerator.generate adds up what it asks the factory for.
requiredTmpMem(buffers) == MapThenSumSet(LAMBDA k : buffers[k] * bytesPerReal, DOMAIN buffers)

generateKernelOutline(program, target) ==
  [tensors      |-> program.tensors,
   writable     |-> BaseNames(program.writes),
   scalars      |-> program.scalars,
   prefetch     |-> program.prefetch,
   buffers      |-> program.buffers,
   tmp_mem_size |-> requiredTmpMem(program.buffers),
   target       |-> target]

-----------------------------------------------------------------------------
(* OptimizedKernelGenerator.generate *)

\* Mistake: the memory of the last member is taken for that of all.
TmpMaxMem_Last(outlines) ==
  MapThenSumSet(LAMBDA ko : ko.tmp_mem_size, outlines[Max(DOMAIN outlines)])

\* TmpMaxMemRequiredInBytes; an index without a member counts as zero.
TmpMaxMem(outlines) ==
  Max({0} \cup {ko.tmp_mem_size : ko \in UNION Range(outlines)})

\* What _addFromKO collects of the members: outlines maps an index to a set of
\* at most one outline.
Class(outlines) ==
  LET members == UNION Range(outlines)
      all(f(_)) == UNION {f(ko) : ko \in members}
  IN  [outlines |-> outlines,
       tensors  |-> all(LAMBDA ko : ko.tensors),
       writable |-> all(LAMBDA ko : ko.writable),
       scalars  |-> all(LAMBDA ko : ko.scalars),
       prefetch |-> all(LAMBDA ko : ko.prefetch),
       TmpMaxMem |-> TmpMaxMem(outlines),
       target   |-> (CHOOSE ko \in outlines[Max(DOMAIN outlines)] : TRUE).target]

\* kernelArgs: on the GPU an argument is a pointer to pointers, unless a tensor
\* of that name has values.
is_compute_constant(class, b) == \E x \in Members(class.tensors, b) : x.const
PtrType(class, b) == IF class.target = "gpu" /\ ~ is_compute_constant(class, b) THEN "**" ELSE "*"

\* BatchedOperationsAux.deduce_addresing, for what is not a temporary: what the
\* code in the class takes the argument for.
deduce_addresing(target, x) ==
  IF target = "gpu" /\ ~ x.const THEN "pointer_based" ELSE "none"

\* Every argument is what the code takes it for, and no two arguments have the
\* same base name: the class has no namespaces.
ClassCompiles(class) ==
  LET names == {b[2] : b \in BaseNames(class.tensors)} \cup {b[2] : b \in BaseNames(class.scalars)}
  IN  /\ \A x \in class.tensors :
           (deduce_addresing(class.target, x) = "pointer_based")
             <=> (PtrType(class, baseNameWithNamespace(x)) = "**")
      /\ Cardinality(names) = Cardinality(BaseNames(class.tensors)) + Cardinality(BaseNames(class.scalars))

-----------------------------------------------------------------------------
(* InitializerGenerator *)

\* Mistake: the largest index is taken for the size.
groupSize_NoLast(S, b) ==
  LET g == CHOOSE g \in GroupIndices(S, b) : TRUE
  IN  [k \in DOMAIN g |-> Max({h[k] : h \in GroupIndices(S, b)})]

groupSize(S, b) ==
  LET g == CHOOSE g \in GroupIndices(S, b) : TRUE
  IN  [k \in DOMAIN g |-> Max({h[k] : h \in GroupIndices(S, b)}) + 1]

groupSizeToStride(size) ==
  LET stride[k \in DOMAIN size] == IF k = 1 THEN 1 ELSE stride[k - 1] * size[k - 1]
  IN  stride

\* address, by which the Container finds the slot of a group.
slot(size, group) ==
  MapThenSumSet(LAMBDA k : group[k] * groupSizeToStride(size)[k], DOMAIN group)

\* The length of Container::data
containerLength(size) == FoldFunction(LAMBDA a, b : a * b, 1, size)

\* The Containers in tensor.h
Containers(S) == [b \in BaseNames(Grouped(S)) |-> groupSize(S, b)]

\* The tensors go through a dictionary whose keys have no namespace: of several
\* tensors of one name the one that is entered last stays.  Which one that is
\* depends on the order of the kernels; it is left open.
Names(S)     == {<<x.name, x.group>> : x \in S}
Namesakes(S) == {x \in S : \E y \in S : x # y /\ <<x.name, x.group>> = <<y.name, y.group>>}
Entered(S) ==
  {(S \ Namesakes(S)) \cup T : T \in {T \in SUBSET Namesakes(S) :
     /\ Names(T) = Names(Namesakes(S))
     /\ Namesakes(T) = {}}}
=============================================================================
