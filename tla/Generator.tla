----------------------------- MODULE Generator -----------------------------
(***************************************************************************)
(* The user's session with a Generator (generator.py): kernels are added   *)
(* one at a time or as families over a parameter space, whose members are  *)
(* made by a callback of the user, and generate emits for every kernel and *)
(* family a class; that of a family has an array of execute functions that *)
(* findExecute indexes by the parameters.  Generators may share a cache of *)
(* routines (GlobalRoutineCache).                                          *)
(*                                                                         *)
(* A kernel stands for the expressions of one member: it is identified by  *)
(* the number of the call it was made by and by its parameters; Ast is     *)
(* what the user's callbacks return.                                       *)
(***************************************************************************)
EXTENDS KernelOutline, GemmTools

CONSTANTS
  KernelNames, \* base names of kernels and families
  Namespaces,
  Targets,     \* "cpu" and "gpu"
  Spaces,      \* parameter spaces: sequences of tuples of one length
  Groups,      \* the indices of members that are added one at a time
  Ast(_, _),   \* the program of a kernel, by its call and parameters
  Arch,        \* the architecture
  MaxCalls     \* bound: calls of add and addFamily

ASSUME SessionAssumption ==
  /\ \A space \in Spaces :
       /\ space \in Seq(Seq(Nat)) /\ Len(space) > 0
       /\ \A p \in Range(space) : Len(p) = Len(space[1])
  /\ Groups \subseteq Nat
  /\ MaxCalls \in Nat

\* The parameters that a kernel is made by.
Parameters == {<<>>} \cup {<<g>> : g \in Groups} \cup UNION {Range(space) : space \in Spaces}

\* The callbacks of the user come to an end, groups have indices, and a scalar
\* is no more than its names and its group.
ASSUME ProgramAssumption ==
  \A c \in 1 .. MaxCalls, p \in Parameters :
    LET program == Ast(c, p)
    IN  /\ IsFiniteSet(program.gemms) /\ IsFiniteSet(program.tensors) /\ IsFiniteSet(program.scalars)
        /\ \A x \in program.tensors \cup program.scalars \cup program.prefetch : x.group \in Seq(Nat)
        /\ \A x \in program.scalars : x = [ns |-> x.ns, name |-> x.name, group |-> x.group]
        /\ program.buffers \in Seq(Nat)

VARIABLES
  kernels,   \* Generator._kernels
  families,  \* Generator._kernelFamilies
  call,      \* the addFamily call in progress, as a set of at most one
  calls,     \* the number of calls so far
  emitted,   \* the execute arrays that generate has written
  output,    \* the other code, as a set of at most one
  cache,     \* RoutineCache
  outcome,   \* of generate: "none", "generated" or "raised"
  made,      \* history: the kernel that was last made for given parameters
  strides,   \* history: the strides that the calls of a family have used
  spaces,    \* history: the parameter spaces of those calls
  asked      \* history: the routines that the emitted code calls

session == <<kernels, families, call, calls, made, strides, spaces>>
result  == <<emitted, output, outcome, cache, asked>>
kvars   == <<session, result>>

-----------------------------------------------------------------------------
(* Strides and indices *)

\* Python compares tuples from the left.
Before(p, q) ==
  \E k \in DOMAIN p : p[k] < q[k] /\ \A l \in 1 .. k - 1 : p[l] = q[l]

PMax(space) ==
  CHOOSE p \in Range(space) : \A q \in Range(space) : p = q \/ Before(q, p)

\* Mistake: the extent of a dimension is its largest index.
Stride_OffByOne(space) ==
  LET stride[k \in 1 .. Len(space[1])] ==
        IF k = 1 THEN 1 ELSE stride[k - 1] * PMax(space)[k - 1]
  IN  stride

Stride(space) ==
  LET stride[k \in 1 .. Len(space[1])] ==
        IF k = 1 THEN 1 ELSE stride[k - 1] * (PMax(space)[k - 1] + 1)
  IN  stride

linear(stride, group) ==
  LET index[k \in 0 .. Len(group)] ==
        IF k = 0 THEN 0 ELSE index[k - 1] + group[k] * stride[k]
  IN  index[Len(group)]

-----------------------------------------------------------------------------
(* Adding kernels *)

\* KernelFamily(): without kernels and without a stride.
NewFamily(ns) == [kernels |-> Empty, stride |-> <<1>>, namespace |-> ns]

\* Mistake: the family keeps the namespace it was created with.
WithKernel_KeepsNamespace(family, index, kernel) ==
  [family EXCEPT !.kernels = Put(family.kernels, index, kernel)]

\* KernelFamily.add
WithKernel(family, index, kernel) ==
  [family EXCEPT !.kernels = Put(family.kernels, index, kernel),
                 !.namespace = kernel.namespace]

Open == outcome = "none" /\ call = {} /\ calls < MaxCalls

Program(kernel) == Ast(kernel.call, kernel.param)

\* The histories after a call for a family.
Noted(n, stride, space) ==
  /\ strides' = Put(strides, n, Get(strides, n, {}) \cup {stride})
  /\ spaces' = Put(spaces, n, Get(spaces, n, {}) \cup {space})

\* Generator.add("n", ...): nobody looks for another kernel of that name.
addKernel(n, ns, t) ==
  /\ Open
  /\ calls' = calls + 1
  /\ kernels' = Append(kernels, [name |-> n, call |-> calls', param |-> <<>>, namespace |-> ns,
                               target |-> t])
  /\ UNCHANGED <<families, call, made, strides, spaces, result>>

\* Generator.add("n(g)", ...): KernelFamily() has the empty namespace until
\* its add has run.
add(n, g, ns, t) ==
  LET kernel == [call |-> calls', param |-> <<g>>, namespace |-> ns, target |-> t]
      family == Get(families, n, NewFamily(""))
  IN  /\ Open
      /\ calls' = calls + 1
      /\ families' = Put(families, n, WithKernel(family, g, kernel))
      /\ made' = Put(made, <<n, <<g>> >>, kernel)
      /\ Noted(n, <<1>>, << <<g>> >>)
      /\ UNCHANGED <<kernels, call, result>>

\* addFamily up to the loop over the parameters.
addFamily(n, space, ns, t) ==
  LET family == Get(families, n, NewFamily(ns))
      stride == Stride(space)
  IN  /\ Open
      /\ calls' = calls + 1
      /\ families' = Put(families, n, [family EXCEPT !.stride = stride])
      /\ call' = {[name |-> n, space |-> space, namespace |-> ns, target |-> t,
                   stride |-> stride, next |-> 1]}
      /\ Noted(n, stride, space)
      /\ UNCHANGED <<kernels, made, result>>

\* One iteration: astGenerator returns the expressions of the member.
AddMember ==
  \E c \in call :
    LET p      == c.space[c.next]
        kernel == [call |-> calls, param |-> p, namespace |-> c.namespace,
                   target |-> c.target]
    IN  /\ families' = [families EXCEPT ![c.name] =
                          WithKernel(@, linear(c.stride, p), kernel)]
        /\ made' = Put(made, <<c.name, p>>, kernel)
        /\ call' = IF c.next = Len(c.space) THEN {}
                   ELSE {[c EXCEPT !.next = c.next + 1]}
        /\ UNCHANGED <<kernels, calls, strides, spaces, result>>

\* astGenerator raises: the members made so far stay in the family.
AstGeneratorRaises ==
  /\ call # {}
  /\ call' = {}
  /\ UNCHANGED <<kernels, families, calls, made, strides, spaces, result>>

-----------------------------------------------------------------------------
(* generate *)

\* Mistake: the array has as many entries as there are members.
Length_Members(family) == Cardinality(DOMAIN family.kernels)

\* KernelFamily.__len__
Length(family) == Max(DOMAIN family.kernels) + 1

\* The loop over the outlines compares each with the target of the last one
\* and keeps only the verdict of its last iteration.
is_same_target(family) ==
  LET last   == Max(DOMAIN family.kernels)
      target == family.kernels[last].target
      verdict[index \in -1 .. last] ==
        IF index = -1 THEN TRUE
        ELSE IF index \notin DOMAIN family.kernels THEN verdict[index - 1]
        ELSE family.kernels[index].target = target
  IN  verdict[last]

Raises(family) ==
  \/ DOMAIN family.kernels = {}
  \/ \E index \in DOMAIN family.kernels : index >= Length(family)
  \/ ~ is_same_target(family)

\* An entry is a set of at most one kernel; those between the members are
\* null pointers.
ExecutePtrs(family) ==
  [index \in 0 .. Length(family) - 1 |->
     {family.kernels[l] : l \in {index} \cap DOMAIN family.kernels}]

\* The classes by their namespaces and names; the family is outlined before its
\* namespace is entered.
Outline(kernel) == generateKernelOutline(Program(kernel), kernel.target)
OutlinesOf(family) ==
  [index \in 0 .. Length(family) - 1 |->
     {Outline(k) : k \in {family.kernels[l] : l \in {index} \cap DOMAIN family.kernels}}]

KernelClasses ==
  {[of |-> k, namespace |-> kernels[k].namespace, name |-> kernels[k].name,
    class |-> Class([index \in {0} |-> {Outline(kernels[k])}])] : k \in DOMAIN kernels}
FamilyClasses ==
  {[of |-> 0, namespace |-> families[n].namespace, name |-> n,
    class |-> Class(OutlinesOf(families[n]))] : n \in DOMAIN families}

\* All kernels, of families or not.
AllKernels == Range(kernels) \cup UNION {Range(families[n].kernels) : n \in DOMAIN families}

\* A routine is asked for under its name when the GEMM goes to a code generator.
Requests(kernel) ==
  UNION {{[name |-> RoutineName(tool, Arch, c), routine |-> GemmRoutine(tool, Arch, c)] :
            tool \in getGemmTool(DefaultTools(Arch), Arch, c) \cap CodeGenerators} :
          c \in {[g EXCEPT !.target = kernel.target] : g \in Program(kernel).gemms}}

\* The cache after all requests, unless one of them raises.
Added(requests) ==
  FoldSet(LAMBDA r, c : IF c.raised \/ Clashes(c.cache, r.name, r.routine)
                        THEN [c EXCEPT !.raised = TRUE]
                        ELSE [c EXCEPT !.cache = addRoutine(@, r.name, r.routine)],
          [raised |-> FALSE, cache |-> cache], requests)

\* UnitTestGenerator knows how to start a kernel with these backends only.
Untestable ==
  /\ Arch.backend \notin {"oneapi", "acpp", "hipsycl", "cuda", "hip"}
  /\ \E k \in AllKernels : k.target = "gpu"

\* generate raises before, while or after it outlines the kernels; tensors are
\* those that are left for tensor.h.
GenerateRaises(requests, tensors, scalars) ==
  \/ Untestable
  \/ \E n \in DOMAIN families : Raises(families[n])
  \/ \E k \in AllKernels : LET p == Program(k)
                           IN  MixedGroups(p.tensors) \/ MixedGroups(p.scalars) \/ MixedGroups(p.prefetch)
  \/ Added(requests).raised
  \/ MixedGroups(tensors) \/ MixedGroups(scalars)

generate ==
  LET requests == UNION {Requests(k) : k \in AllKernels}
      scalars  == UNION {Program(k).scalars : k \in AllKernels}
  IN  /\ outcome = "none"
      /\ call = {}
      /\ AllKernels # {} \/ families # Empty
      /\ \E tensors \in Entered(UNION {Program(k).tensors : k \in AllKernels}) :
           IF GenerateRaises(requests, tensors, scalars)
           THEN /\ outcome' = "raised"
                /\ UNCHANGED <<emitted, output, cache, asked>>
           ELSE /\ outcome' = "generated"
                /\ emitted' = [n \in DOMAIN families |->
                                 [ExecutePtrs |-> ExecutePtrs(families[n]),
                                  stride      |-> families[n].stride,
                                  namespace   |-> families[n].namespace]]
                /\ output' = {[classes |-> KernelClasses \cup FamilyClasses,
                               containers |-> Containers(tensors), scalars |-> Containers(scalars)]}
                /\ cache' = Added(requests).cache
                /\ asked' = asked \cup requests
  /\ UNCHANGED session

\* Another Generator, with the same cache of routines.
NewGenerator ==
  /\ outcome = "generated"
  /\ calls < MaxCalls
  /\ kernels' = <<>>
  /\ families' = Empty
  /\ made' = Empty /\ strides' = Empty /\ spaces' = Empty
  /\ emitted' = Empty /\ output' = {} /\ outcome' = "none"
  /\ UNCHANGED <<call, calls, cache, asked>>

-----------------------------------------------------------------------------
KInit ==
  /\ kernels = <<>>
  /\ families = Empty
  /\ call = {}
  /\ calls = 0
  /\ emitted = Empty
  /\ output = {}
  /\ cache = NewRoutineCache
  /\ outcome = "none"
  /\ made = Empty
  /\ strides = Empty
  /\ spaces = Empty
  /\ asked = {}

KNext ==
  \/ \E n \in KernelNames, ns \in Namespaces, t \in Targets : addKernel(n, ns, t)
  \/ \E n \in KernelNames, g \in Groups, ns \in Namespaces, t \in Targets : add(n, g, ns, t)
  \/ \E n \in KernelNames, space \in Spaces, ns \in Namespaces, t \in Targets :
       addFamily(n, space, ns, t)
  \/ AddMember
  \/ AstGeneratorRaises
  \/ generate
  \/ NewGenerator

KSpec == KInit /\ [][KNext]_kvars

-----------------------------------------------------------------------------
(* Properties *)

\* A space from simpleParameterSpace or parameterSpaceFromRanges contains its
\* corner, as every space of at most two parameters does as far as the first
\* of them is concerned.
Regular(space) ==
  \A k \in 1 .. Len(space[1]) - 1, q \in Range(space) : q[k] <= PMax(space)[k]

MadeFor(n) == {p \in {key[2] : key \in DOMAIN made} : <<n, p>> \in DOMAIN made}

\* findExecute of an emitted family returns, for all the parameters that a
\* kernel was made for, the last kernel made for them: the array reaches that
\* far and no other parameters share the index.  The calls for the family
\* must have used one stride and regular spaces.
FindsOwnKernel ==
  \A n \in DOMAIN emitted :
    Cardinality(strides[n]) = 1 /\ (\A space \in spaces[n] : Regular(space))
    => \A p \in MadeFor(n) :
         LET index == linear(emitted[n].stride, p)
         IN  /\ index \in DOMAIN emitted[n].ExecutePtrs
             /\ emitted[n].ExecutePtrs[index] = {made[<<n, p>>]}

\* The unit tests name a class in the namespace of a member; generate puts
\* the class into the namespace of the family.  They are the same if all the
\* calls for the family agree on it.
TestsNameTheirFamily ==
  \A n \in DOMAIN emitted :
    LET members == UNION Range(emitted[n].ExecutePtrs)
    IN  (\A k, l \in members : k.namespace = l.namespace)
        => \A k \in members : k.namespace = emitted[n].namespace

\* The user's own mistakes: a family that a callback left without members or
\* whose members are for different targets, groups of one name and different
\* lengths, a GPU that cannot be tested, and a scale that a code generator knows
\* by a name of its own.
Mistaken ==
  LET programs == {Program(k) : k \in AllKernels}
  IN  \/ \E n \in DOMAIN families :
           \/ MadeFor(n) = {}
           \/ \E p, q \in MadeFor(n) : made[<<n, p>>].target # made[<<n, q>>].target
      \/ Untestable
      \/ MixedGroups(UNION {p.tensors : p \in programs})
      \/ MixedGroups(UNION {p.scalars : p \in programs})
      \/ MixedGroups(UNION {p.prefetch : p \in programs})
      \/ \E r \in asked \cup UNION {Requests(k) : k \in AllKernels} : r.routine.gemm.alpha = "m1"

\* generate succeeds unless the user made one of these mistakes, and then
\* tensor.h declares a Container of the right dimension for every group that
\* some class has a member for.  Tensors that are only prefetched and tensors
\* of one name in two namespaces are excluded: not all of them are declared.
GenerateSucceeds ==
  /\ outcome = "raised" => Mistaken
  /\ \A out \in output :
       LET all == UNION {c.class.tensors : c \in out.classes}
       IN  Namesakes(all) = {} =>
             \A c \in out.classes :
               /\ \A x \in Grouped(c.class.tensors) \cup (Grouped(c.class.prefetch) \cap all) :
                    Len(Get(out.containers, baseNameWithNamespace(x), <<>>)) = Len(x.group)
               /\ \A x \in Grouped(c.class.scalars) :
                    Len(Get(out.scalars, baseNameWithNamespace(x), <<>>)) = Len(x.group)

\* A call in the emitted code calls the routine that was generated for it, with
\* its tool, sizes, scales, alignment and sparsity pattern, even if another kernel
\* or another Generator with the same cache asked for a routine of that name.
\* Only the rows of its sparse operands may be those of another call, if that one
\* has the same entries in a tensor of another height: neither the name nor
\* ExecuteGemmGen.__eq__ tells them apart.
RoutineOfCall ==
  \A a \in asked :
    /\ a.name \in DOMAIN cache.routines
    /\ SameRoutine(cache.routines[a.name], a.routine)
    /\ \/ cache.routines[a.name] = a.routine
       \/ \E b \in asked : b.name = a.name /\ b.routine.rows # a.routine.rows

\* "kernels with the same family belong to different compute target." is
\* raised for such a family, so an emitted one has a single target.
FamilyHasOneTarget ==
  \A n \in DOMAIN emitted :
    \A k, l \in UNION Range(emitted[n].ExecutePtrs) : k.target = l.target
=============================================================================
