# Yateto, modelled and proved

This directory is a verification development of the code generator in
`yateto/`: TLA+ modules translated from the Python source, TLC configurations
that check them on small instances, and proofs that TLAPS checks for every
value of the constants. Paths below are relative to the repository.

Yateto turns assignments between tensors (`C['ij'] <= A['ik'] * B['kj']`) into
C++ kernels. A mistake in it is silent: the generated code compiles, runs and
computes another tensor. What makes it hard is the number of rewrites between
the assignment and the code, each with side conditions on live sets, memory
layouts and aliasing, and each deleting or replacing elements of the list that
it walks.

## The system

| component | state | operations | correct when |
|---|---|---|---|
| expression builder (`ast/node.py`) | a tree, modified in place | the overloaded `*`, `+`, `-`, `<=`; sparsity patterns | an expression denotes what was written |
| index deduction and AST passes (`ast/transformer.py`, `ast/indices.py`) | indices and patterns of the nodes | DeduceIndices, EquivalentSparsityPattern, permutation search | every node has the indices its parent expects |
| strength reduction (`ast/opt.py`, `ast/cost.py`) | memo tables | the order of the contractions of a product | a tree of least cost |
| loops over GEMM (`ast/log.py`, `codegen/log/`) | choice of the GEMM indices | peeled first iteration, loops, zero initialisation | a contraction accumulates every term once |
| lowering (`controlflow/visitor.py`) | emitted actions, counter of temporaries | one visit method per node kind | the program computes the assignment |
| intermediate representation (`controlflow/graph.py`) | a list of program points | variables, maySubstitute, substituted | a substitution never breaks a layout |
| optimisation passes (`controlflow/transformer.py`) | the list and the live sets | seven passes over the list | the program computes what it did before |
| buffer assignment (`controlflow/transformer.py`) | usedBuffers, freeBuffers, bufferSize | take, keep, reuse, free a buffer | values that are still read do not share memory |
| fused GEMM automaton (`controlflow/fused_gemm_automata/`) | context of the automaton | collect, fuse, reset | the fused point does what its actions did |
| kernel code generation (`codegen/visitor.py`, `codegen/factory.py`) | pointers and buffers of the emitted code | one statement per point | the code computes the kernel |
| kernels, families, generator (`generator.py`) | kernels, families, strides | add, addFamily, generate, linear index | every parameter finds its kernel |
| routine cache (`codegen/cache.py`) | routines by name | addRoutine | one definition per name |
| memory layouts (`memory.py`) | bounding box, stride, alignment | address, mayFuse, slices, permutation | two cells never share an address |
| GEMM back ends (`gemm_configuration.py`, `codegen/gemm/`) | a preference list | selection of a tool | the tool supports the operation |
| support library (`include/yateto/`) | a linear allocator, tensor views | allocate, copy, read, write | allocations do not overlap |
| tensors, arch, input files, text back ends | shapes, names, text | parsing and formatting | see "Not modelled" |

The components are called in one order: the builder makes the tree, the AST
passes annotate it, strength reduction and the GEMM search rewrite it
(`Kernel.prepareUntilUnitTest`, `generator.py:59-98`), the lowering turns it
into a list of program points, the optimisation passes rewrite the list, the
buffer assignment adds pointers, and code generation prints a statement per
point. The unit test of a kernel is a second, unoptimised program of the same
assignments; the generated test runs both and compares every writable tensor.
There is one thread. What is nondeterministic is the kernel that the user
writes, the session of calls it is in, and the iteration order of Python sets,
which the buffer assignment depends on (`transformer.py:154-161`). The
generated program is another actor: its user makes objects of the classes,
sets arguments group by group and executes members in any order.

The hazards, each at its line, are in `PROJECT.json`. One of them,
`graph.py:115`, is not covered by a property; its note says why. Not listed
there, because the compiler or the linker of the generated code finds them:
two kernels of one name (`generator.py:249`), a name that is a constant tensor
in one member of a GPU family and not in another (`codegen/visitor.py:181`), and
groups that are only prefetched, whose Container nobody declares
(`codegen/visitor.py:344`). `KernelOutline!ClassCompiles` and
`KernelObject!Linked` say when this happens, and the model makes no object of
such a class.

## Modules

From the formula to loops over GEMM:

| module | models |
|---|---|
| `Expressions` | `ast/node.py`, `ast/indices.py`: nodes, indices, sparsity patterns, layouts, and the value of a node |
| `ExpressionBuilder` | the overloaded operators of `Node` on a heap of nodes |
| `StrengthReduction` | `ast/opt.py`, `ast/cost.py`: the order of the products, with its pruning, under three estimators |
| `IndexPermutations` | `ast/log.py` and the permutation variants of `ast/transformer.py`: the GEMM indices and the index orders |
| `AstTransformer` | `ast/transformer.py`: every pass over the expression |
| `FrontEnd` | a program that builds an expression and assigns it, then the passes in the order of `generator.py`, one per step |

From the expression to code:

| module | models |
|---|---|
| `ControlFlow` | `graph.py`: variables, terms, actions, substitution; what an emitted statement does; liveness as a function |
| `AST2ControlFlow` | `controlflow/visitor.py`: the visitor, one visit method per action; the kernel is chosen while it is visited |
| `Transformer` | `controlflow/transformer.py`: the passes in the order of `Kernel.prepareUntilCodeGen`, an iteration of a loop per step |
| `Program`, `LivePoints` | the list of program points of any origin, and their live sets, which the next two modules walk |
| `LivenessAnalysis` | the backward walk over a program of any origin |
| `DetermineLocalInitialization` | the buffer assignment over a program of any origin |
| `BufferPool` | abstract: a pool of buffers, which the buffer assignment implements |
| `KernelPipeline` | lowering, passes, buffers and the emitted code composed |

One contraction:

| module | models |
|---|---|
| `LoopOverGEMM` | the loops that `codegen/log` emits around a GEMM, executed |
| `MemoryLayout` | `memory.py` with the ranges of `ast/indices.py`: dense, CSC and viewed layouts as operators |
| `TermLayout` | the life of one layout: made, sliced, permuted, fused to a matrix (`codegen/log/generic.py`), described to a GEMM (`codegen/gemm/factory.py`) |
| `GemmTools` | `gemm_configuration.py`, the routines of `codegen/gemm/gemmgen.py`, `codegen/cache.py` |
| `Gemm` | the GEMM on a matrix of `TermLayout`: description, choice of a tool, pointers and entries, generated loops |

Sessions:

| module | models |
|---|---|
| `KernelOutline` | `codegen/visitor.py`: what is known of a kernel, the class of a family, the Containers of groups |
| `Generator` | `generator.py`: `add`, `addFamily` and `generate`, the array that `findExecute` indexes, the cache of routines shared by several Generators |
| `KernelObject` | the generated program: an object of a class, its arguments, the memory of a batch (`LinearAllocator.h`), execution, and the start of a unit test |

Theorems:

| module | proves of |
|---|---|
| `Induction` | nothing of this system: induction, recursion and sums over numbers and finite sets, in a form that the provers can instantiate |
| `ControlFlowProofs` | the operators of `ControlFlow`: what is live in a program of any length, and what renaming, merging and removing actions does to it |
| `AST2ControlFlowProofs` | the lowering |
| `KernelPipelineProofs` | the optimisation passes, the backward walk and the buffer assignment over a program of any origin, and the emitted code of a kernel |
| `LoopOverGEMMProofs` | the loops of a contraction |
| `TermLayoutProofs` | the operators of `MemoryLayout`, and the life of one layout |
| `GemmProofs` | the GEMM on two matrices |
| `GeneratorProofs` | sessions (`Generator`) and the objects of the generated classes (`KernelObject`) |

Modules `MC*` give the constants their values for TLC.

`FrontEnd` extends `ExpressionBuilder` and `AstTransformer`; the latter extends
`IndexPermutations` and `StrengthReduction`, and all of them `Expressions`, which
extends `MemoryLayout`: the layouts that decide which indices may be fused are
those of the code.
`Transformer` extends `AST2ControlFlow`, which extends `ControlFlow`;
`KernelPipeline` extends `Transformer` and `DetermineLocalInitialization`. The
latter extends `LivePoints`, and `LivenessAnalysis` extends `Program`, so that
they can be checked and proved for programs that no lowering would emit; the
lowering and the passes extend the same two modules, so that in the composition
all of them work on one `cfg` and one `live`. `LoopOverGEMM` is the inside
of one statement that `ControlFlow!Emitted` treats as one step, and
`TermLayout`, which extends `MemoryLayout`, is what happens to the layout of
one of its terms before and in that statement. `MCBuffers` composes the walk of
`LivenessAnalysis` with the assignment that starts from its result. `Gemm`
extends `TermLayout` by the call and `GemmTools` by the choice of a tool.
`Generator` is what calls all this, once per kernel; a kernel of it is the
result, a record of what the outline of a kernel keeps. It extends `GemmTools`
for the cache, and `KernelObject` extends `Generator`: when a Generator has
ended, an object of one of its classes may be declared.

Operators whose name ends in `_` and a word, under a comment that begins with
"Mistake:", are wrong variants of the definition below them. They are used in
no specification; `PROJECT.json` says which property each of them breaks.

### How the code is represented

* A tensor is a function from two cells to numbers modulo a prime. Two cells
  are enough to tell a dense from a sparse pattern, a layout that stores a cell
  from one that does not, and a permuted value from the original. The values in
  a run are chosen so that different expressions have different values.
* A sparsity pattern is a set of cells; a layout is the set of cells that it
  stores and whether its indices may be fused (`mayFuse` in `memory.py`).
* Python lists that a pass deletes from or replaces in are sequences, and the
  loop variables of the passes (`i`) are state, so that an index that runs off
  after a deletion is visible.
* The contraction kernels (LoopOverGEMM, Product, IndexSum) are one kind of
  node, `Op`, since the passes ask only for their operands, their pattern and
  whether indices are fused. Its value is an asymmetric function of the
  operands.
* In `LoopOverGEMM` a cell of the result counts contributions instead of
  holding a number: what it held before, and the product at every point of the
  inner loops. "Every product exactly once" is then an equation.
* In `MemoryLayout` a `MemoryLayoutView` over a view over a base is one record:
  the base, and the sequence of the views, outermost last. A method that a view
  passes on, changing its argument, is a fold over that sequence. Dimensions
  count from 1, entries and addresses from 0. A vector is `AlignedReals` long.
* In `TermLayout` an address string (`addressString`) is the number it
  evaluates to for an entry, and a step exists only where the code finds a
  method and passes its assertions (`HasMethod`, `mayFuse`): an exception ends
  the generator.
* In `Generator` a kernel is the call and the parameters that it was made by,
  and `Ast`, a constant, is what the callbacks of the user return for them.
* In `Expressions` a node is a record of all fields that any class of node has;
  a pass returns a new tree, as `Transformer.visit` does. A pass that raises
  leaves a node whose field `ok` is FALSE. Only `ExpressionBuilder` has
  references, since only the operators change a node that another name may
  hold.
* A tensor has a value in every cell, so that a formula has a value
  (`FrontEnd!Meaning`, from the operators as they were written) and an annotated
  expression has one (`Expressions!Compute`, from what the passes left), with or
  without what its patterns leave out.
* In `Gemm` executing a call is adding, for every two entries that meet, the
  product of the reals that the code finds at two addresses to the real at a
  third.
* In `KernelObject` a pointer is a number, 0 the null pointer; the assertions
  of the generated code are on. An object stands for its program: when it is
  declared the Generator has ended, and an assertion that fails ends it.

## What is checked

Every property has a wrong variant of the code that breaks it in the same run.

| run | question | properties |
|---|---|---|
| `front_end` | is a formula rejected exactly if it is ill-formed, and does every pass up to the loops over GEMM keep its value, by the patterns alone, at least cost, fusable and with the operations that are reported? | `OperandsOnce`, `RejectsIllFormed`, `PassesKeepFormula`, `PatternsSuffice`, `ReductionIsOptimal`, `GroupsFusable`, `FlopsOfKernel` |
| `lowering` | does the program that the visitor emits compute the assignment? | `LoweringFaithful`, `SingleDefinition` |
| `pipeline` | does every single iteration of every pass keep the meaning, the arguments, the layouts and the live sets, do the passes end, and does the emitted code, executed over its buffers, compute the kernel, optimised and as the reference of the unit test? | `PassesKeepMeaning`, `PassesKeepInterface`, `StatementsSound`, `LiveSetsCurrent`, `PassesTerminate`, `CodeComputesKernel` |
| `buffers` | is the backward walk exact, and do buffers of live values overlap, move or burst? | `LiveExact`, `ATypeOK`, `BuffersOwnedOnce`, `LiveLocalsApart`, `BufferFits`, `BufferStable`, `ImplementsPool`, `DTypeOK` |
| `loop_over_gemm` | does a contraction accumulate every product once and leave no old value? | `ResultComplete`, `GTypeOK` |
| `term_layout` | do the loops and the matrix of a GEMM lead to the entry that is meant, aligned as claimed, inside the storage and leaving nothing unwritten, and does the call compute the product? | `StoredApart`, `SplitAddress`, `EntriesAddressed`, `AlignedAccess`, `ResultCovered`, `PermutedTogether`, `GemmComputes` |
| `generator` | does every parameter of a family find its kernel, every call its routine, every execution its own arguments and enough memory? | `FindsOwnKernel`, `TestsNameTheirFamily`, `GenerateSucceeds`, `RoutineOfCall`, `SeesOwnArguments`, `TmpMemSuffices` |

### Bounds

* `lowering`: one assignment of up to five nodes, each addend and the right
  hand side in any index order, contractions of one or two operands, both
  kinds of memory layout. The methods look at one node and its children, so
  five nodes reach every pair of node kinds as parent and child.
* `front_end`: two to four mentions of tensors with up to three operators
  (`MaxCalls`): matrices, vectors and one tensor of order three, some
  triangular, of one column or with an empty row; a scalar and a slice; five
  targets, among them a transposed one and some of the wrong size. Three
  operators group a chain of four factors in every way, and put a sum inside of a
  product and the other way round.
* `pipeline`: up to two assignments and six nodes. The passes relate two
  points and what lies between them; six nodes give programs of up to eight
  points, among them a result that a later assignment reads, with and without
  a temporary tensor, and kernels in which a buffer is freed and taken again.
* `buffers`: every program of up to four actions over two tensors and three
  temporaries, one of which is smaller, and every order of freeing. The
  theorems remove the bounds.
* `term_layout`: vectors of two reals; a vector of four entries, matrices of
  three by two and two by three, a tensor of two by two by two; every bounding
  box, every sparsity pattern of a matrix, every aligned and unaligned layout,
  every offset, up to two slices (`MaxSlices`), every permutation and every
  choice of the dimensions that are fused. Three dimensions are enough for two
  to be fused and one to be looped over; a size that is no multiple of the
  vector length is padded. `operand_in_layout` needs no slice. The right operands of a
  GEMM are two full matrices, one whose first row is empty and sparse ones with an
  empty column or row, plain and transposed; the hosts are one with libxsmm alone,
  one with every code generator and MKL, and one with PSpaMM alone.
* `loop_over_gemm`: two outer points, a third that only the layout stores, one
  inner loop of three iterations, every order of the iterations. The theorems
  remove the bounds.
* `generator`: two calls, for two names, two namespaces and two targets, in one
  Generator or in two that share a cache; spaces of one and two parameters,
  one that does not start at zero, a triangle, and spaces of three parameters
  with and without the corner of their box. Two calls are enough for a stride
  or a namespace to be replaced, for a call to follow one that failed and for
  two kernels to ask for one routine. `MCGenerator!MCAst` makes the kernels
  differ in what the properties tell apart: members with other groups, buffers
  (some more than `TMP_SIZE` holds) and scales, a tensor with values, a tensor in
  a namespace, one that is only prefetched. Pointers are 1 and 2 (`Values`),
  batches one or two elements (`Batches`), and an int counts to 255 (`MaxInt`), so
  that a batch of two needs more than that in some kernels.

### Conditions in the properties

`LoweringFaithful` and `CodeComputesKernel` exclude kernels in which `visit_Add`
converted an addend in the place of another (`misplaced`), as `StatementsSound`
does for the layouts of operands and results and `PassesKeepMeaning` for values:
the variable of such an addend may hold less than was computed for it, and
`MergeActions`, which removes the variable, brings the rest back.
`PassesKeepMeaning` and `CodeComputesKernel` also exclude kernels in which a copy, a
sum or a scaling reads what an earlier assignment of the same kernel wrote
(`ForwardedResults`). `ResultComplete` excludes overwriting statements with two
inner loops. The first three are findings below.

The properties of `front_end` are about expressions each part of which is used
once, as in a formula that is written down in one piece (`UsedOnce`). For these
`OperandsOnce` compares the tensors with those that were written, also in their
order: the first addend decides the order of the indices of a sum. The
operators change their operands: after `x = A*B; y = x*C; z = x*D` all three
names are the product of four factors, and `m = A*B; s = m + C; m*s` even makes
`m` a part of itself.
Nothing in the repository says that an expression may be used twice.
`RejectsIllFormed` excludes, beyond `DeduceIndices`, formulas part of which is
zero throughout (the bounding box of an empty pattern raises, `aspp.py:154`),
slices of an index that is summed below, and more tensors to prefetch than
loops.

`FindsOwnKernel` excludes families whose calls used different strides or
irregular spaces. The strides come from the lexicographic maximum of the space,
which bounds the first parameter only, so that from three parameters on two of
them can share an index, and the kernel of one silently replaces that of the
other. `GenerateSucceeds` names the mistakes of a user that `generate` answers
with an error (`Mistaken`). One is a limit of the code: a scale of -1 is an `m1`
to PSpaMM but keeps the name `generic`, so a kernel with it and one with a
scalar collide in the cache. Tensors of one name in two namespaces are excluded
from it and from `SeesOwnArguments`: `generator.py:427` collects them by name
alone, and one of them is not declared. `TmpMemSuffices` excludes batches whose
memory is more than an int counts and unit tests of kernels with more than
`TMP_SIZE` bytes of buffers. `RoutineOfCall` allows that a call finds the rows of the
sparse operands of another call: neither the name of a routine nor
`ExecuteGemmGen.__eq__` (`gemmgen.py:297`) has them, though PSpaMM is told those
of the right operand (line 422), so two products with the same entries in
tensors of different height get one routine, that of the later one. The members of
three parameters of `MCAst` make such calls. A Generator whose `generate` raised is not used
again.

Of the properties of `term_layout`,

* `AlignedAccess` and `ResultCovered` assume of a GEMM that is told its columns
  are aligned that the box of the matrix and the slices of its rows start where
  a vector starts (`AlignedOrigin`): `alignedStride` does not look at it, which
  is the finding `operand_in_layout`;
* `SplitAddress` and `ResultCovered` assume that the groups keep their order
  where a slice is fused (`SlicesKeepPlace`): `DenseMemoryLayout.unfold` swaps
  the groups to the order of their positions, but `MemoryLayoutView.unfold`
  numbers them by name (`memory.py:497`), and the slice ends on the other
  dimension of the matrix;
* `ResultCovered` assumes that the slices of a result are of different
  dimensions that the storage holds from the first entry on, that none is fused
  and only the last is shifted (`SimpleSlices`): `MemoryLayoutView.bbox` moves
  the box of its base by the start of the slice instead of back, the box of a
  view over a view is clipped in the wrong coordinates, and
  `MemoryLayoutView.defuse` returns numbers of the base where
  `notWrittenAddresses` expects those of the view. The code takes the rows apart by the
  layout of the left operand and the columns by that of the right one (`rangesOf` by that
  of the result): the sizes are the same, and so are the parts if the operands
  slice no fused dimension either;
* `PermutedTogether` assumes of an operation with an offset a permutation that
  is its own inverse: `MemoryLayoutView.permuted` moves the slice to
  `permutation[index]`, while the dimension moves to where `permutation` holds
  `index` (`memory.py:544`).

`GemmComputes` is about calls that are generated: the assertions on an operand
(`Raises`, `ToolRaises`) end the generator for a CSC matrix whose rows start
before those of the product, and for the operands of `operand_in_layout`.

All these are limits of the code that none of its messages, tests or comments
denies; except where an error is mentioned, the code checks none of them.

### Fairness

Only `PassesTerminate` needs it: weak fairness of `Passes` (`PFairSpec`). The passes are plain
sequential calls in one thread, so a pass that can take a step takes it. No
fairness is assumed of the user, who may stop adding nodes at any time.

## Findings

Five runs show the code in disagreement with itself or its messages. Each is
stated as a property that TLC refutes.

* `addend_order` (`controlflow/visitor.py:73`): `visit_Add` sorts the variables
  of the addends but takes the indices of the unsorted children; a temporary
  next to a transposed tensor makes the wrong addend transposed.
* `merge_result` (`controlflow/transformer.py:116`): in `A <= A * ..; C <= A`
  the first statement is redirected to `C` and `A` is never written. The same
  property breaks in another pass (line 50): in `A <= A * ..; C <= A + ..` the
  sum is accumulated into `A`. Outputs are dead at the end of the program for
  both passes.
* `two_inner_loops` (`codegen/log/factory.py:51`): only the first of several
  inner loops is peeled, and the assigning pass runs over the others, each of
  whose iterations overwrites the one before.
* `family_targets` (`codegen/visitor.py:236`): the loop that compares the
  targets of a family keeps only the verdict on the last member, which is
  compared with itself; the error for mixed targets can never be raised.
* `operand_in_layout` (`memory.py:99`): `alignedStride` looks at the strides and
  at the number of rows, not at the first one. An operand that is not padded
  and holds the rows 1 and 2 counts as aligned, the rows of the GEMM are
  extended to 0..3, and the assertion of `codegen/gemm/gemmgen.py:97` that they
  are in the layout fails.

## What is proved

All theorems hold for every value of the constants that satisfies the named
assumptions, which TLC evaluates in the runs. Kernels, programs, tensors,
layouts, families, parameter spaces, sessions and the orders of freeing are
arbitrary; bounds like `MaxVisits` and `MaxCalls` are any numbers. The
assumptions say of the code's environment:

* `NamesAssumption`, `TargetAssumption`, `ValuesAssumption`, `KernelAssumption`:
  names of tensors are not numbers of temporaries, and not the mark for no
  tensor, every tensor stores some cell and holds zero where it stores none,
  cells are numbers modulo 2 or more, a node has an operand;
* `LoopsAssumption`: the first inner index of a contraction has a least value, the
  other inner loops are not empty, what is visited lies inside of what the result
  stores, and no scale is zero;
* `SessionAssumption`: a parameter space is not empty and its tuples of numbers
  have one length;
* `ProgramAssumption`: a callback makes finitely many tensors, scalars and GEMMs,
  a group is a tuple of numbers, and a scalar has a namespace, a name and a group
  and nothing else;
* `AlignmentAssumption`, `ShapesAssumption`: a vector holds a real or more, a shape
  has a dimension and no dimension is empty;
* `RightsAssumption`: the right operand of a GEMM has two dimensions, a nonzero and
  none outside of its shape;
* `RealAssumption`, `ObjectAssumption`: a real has a size, a batch an element, and
  the null pointer is no argument.

**Induction** (`Induction`). Most of what the code computes, it computes by a
loop: a recursive function in the modules. The theorem libraries state induction with an operator
as a parameter, which the provers cannot instantiate. `Induction` states it with
sets: a set of numbers that holds 0 and the successors of its elements is `Nat`
(`NatSetInduction`, from the least element of a set), and the like for finite
sets. From it, recursive definitions have a solution when their step is given as a function
(`RecursionExists`, `SetRecursionExists`), and sums and products over a finite
set, which choose an element after the other, do not depend on the choice
(`FoldAny`) and can be taken in order (`SummedInOrder`).

**Liveness** (`KernelPipelineProofs`). The declarative definition is
`UpwardExposed`: a name is live at a point if a later action reads it and none
in between writes it. `ExposedStep` shows that it satisfies the equation of
the backward walk; the invariant is that the sets computed so far, from the end
of the program, are the declarative ones. `LiveSetsExact` follows.

**Lowering** (`AST2ControlFlowProofs`). `SingleDefinition` is about the program
alone, but a visit reads variables that the visits before left on the stack.
`LInv` says of these that they are computed, that nothing has been computed
from them (`Held`), and that no temporary is on the stack twice; of the program
that its temporaries are written before they are read and below the counter
(`Below`), have one shape wherever they occur, and are consumed last where they
are added (`Plain`). A visit appends one action (`LowerableAppend`), except
`visit_Add`, whose loop over the addends appends up to three for each; that it
appends them in a sound order is an induction over the addends.
`LoweringSingleDefinition` follows.

`LoweringComputesKernel` says what that program computes. `ValueInv` relates the
memory after it to the stack: no statement has dropped an entry that its
destination does not store (`Sane`), every tensor holds the meaning of its
assignments and is zero outside of its pattern (`Within`), and every variable
on the stack is in memory with the value of its expression (`Known`).
`AppendRuns` is what one more statement does to the memory; each visit has a
lemma of its own. `visit_Add` sorts its variables and accumulates them in that
order, so that the sum it computes is another one than the kernel's, term by term:
`SumPermuted` shows that a sum modulo `Modulus` does not depend on the order.
An addend converted in the place of another (`misplaced`) breaks just this,
and is excluded.

**Passes** (`KernelPipelineProofs`). A pass may rely on what an earlier one left,
and `TInv` names it by phase: after the lowering all is as in `LInv`, until
`MergeScalarMultiplications` has run; before `SubstituteForward` every expression
is assigned to a temporary, until `MergeActions` no statement accumulates an
expression; and the live sets are those of the program wherever a pass reads
them. Each step deletes, renames or merges at one or two points, and
`ControlFlowProofs` says what that does to what is exposed there. The conditions
of the code, that a variable is not live or not used in between, are
the hypotheses of these lemmas. `PassesRespectInterface`, `StatementsStaySound` and
`LiveSetsStayCurrent` follow.

`PassesPreserveMeaning` says that the values stay, too. Two executions are
compared step by step: a recursive function gives the memory after each
statement, and the five lemmas `ForwardRuns`, `BackwardRuns`, `RemoveRuns`,
`MergeRuns` and `SameRuns` relate those of a program and of what one iteration
makes of it. They agree before the first statement concerned; between it and the
last up to the two variables, one of which holds what the other held before; and
after it on all that is still read. What is still read has to be known for this,
and the conditions of the passes are not enough for it: after `t = x`,
`SubstituteForward` asks whether `x` is live there, but puts it in the place of
`t` in every later statement, also behind the next assignment of `x`. It is
right only for programs like the lowered ones, and `KInv` says what is special
about them:

* no temporary is used both before and after a statement that overwrites a
  tensor (`Barriers`): an assignment of the kernel uses temporaries of its own.
  In the lowering this follows from `NInv`, which says the same of the names
  that the visitor holds (`Settled`). Once `SubstituteForward` has put tensors
  in the place of temporaries it still holds of statements that a copy repeats
  later (`BarriersBelow`);
* a tensor that is assigned and then copied is not used afterwards (`Expired`),
  which is where kernels that forward a result are excluded, and a copied tensor
  that is an output is assigned again later (`Rewritten`);
* every occurrence of a variable needs all that its layout stores (`Dense`), so
  that renaming drops no entry;
* the temporary that a multiplication scales is not scaled already (`Unscaled`),
  and nothing is added to itself (`NoneAddedToItself`).

Each pass has a lemma for its iteration that keeps these and the meaning
(`MergeScalarMeans`, `ForwardMeans`, `BackwardMeans`, `RemoveMeans`,
`MergeMeans`); TLC checked `NInv` and `KInv` on the kernels of `pipeline` before
they were proved.

**Buffers** (`KernelPipelineProofs`). `LiveLocalsApart` is not
inductive: that a dying local gives up its buffer only says something if every
live local has one. `DInv` adds that (`LiveBound`: a local that is read later is
bound and not waiting to be freed), that the dictionary and the queue together
hold every buffer number once, and that recorded buffer maps stay. `FInv` adds
that recorded sizes only grow, from which `BuffersFit` follows. `LiveBound` is
kept by a visit because of the liveness equation and because programs that read
no uninitialised temporary are assumed (`DInit`), which `PassesRespectInterface`
proves of the programs that get here. `ImplementsBufferPool` maps
the dictionary and the queue to the pool of `BufferPool`: each of the five
branches of the pass takes, returns or leaves alone a buffer of the pool.

**Emitted code** (`KernelPipelineProofs`). `GeneratedCodeComputesKernel` puts
all this together. The code sees no dictionary: at each point it sets the
pointers that the buffer map of the point names, and a pointer keeps its value
until a later point sets it (`Points`). `EInv` says of the buffer assignment
that what is still to be read has a buffer (`BuffersBound`), that a pointer set
by the maps so far leads to the buffer in the dictionary (`PointersUsed`), and
that at every point done so far what is live before it and its result have
buffers of their own, the same as before the point if they were live before it
(`PointersApart`). `NoLiveOverlap` is not enough for this: it is about the
dictionary while the pass runs, and the code is executed when the pass has
ended. The code is then compared with the program statement by statement
(`Follows`, `ExecuteRuns`): the arguments hold what the program has in its
memory, and so do the buffers that the pointers of the live variables lead to; a
statement changes one buffer, which is that of no other live variable, reads
only what is live, so that an uninitialised buffer is never read, and reads
nothing from the buffer that it writes unless it accumulates. This needs three
things of the program that generate is handed (`Handed`): that its live sets
are the exact ones, that no statement reads what it writes in another order
(`StatementsStaySound`), and that nothing but arguments is read before it is
written. The last is known of the numbered temporaries from
`PassesRespectInterface`; that it also holds of the user's own temporary tensors
(`TempsFlow`) has been added to the invariants of the lowering and of every pass
(`TempsForward`, `TempsBackward`, `TempsRemove`, `TempsMerge`). The memory of the
program is that of the kernel by `LoweringComputesKernel` and
`PassesPreserveMeaning`, and `PInv` carries this over the phases.

**Loops over GEMM** (`LoopOverGEMMProofs`). `ResultComplete` speaks of the end
only. `LoopsInv` says what every cell holds on the way: the old value at outer
points to come, the promised one at those done, and at the current one the
products of the inner points that are no longer to visit; cells outside the
box are cleared first and never touched. The peeled pass replaces the old value
by one product only because it is a single GEMM, and this is the step that
fails for two inner loops.

**Layouts** (`TermLayoutProofs`). `TermInv` says that the base of a term is one
that `DenseMemoryLayout` or `CSCMemoryLayout` makes, however it was permuted; that
every view is of a dimension that the base has and starts before it ends; and that
a matrix is that of two disjoint groups that may be fused. `LayoutsCorrect` proves
it of shapes, boxes, patterns, slices and vectors of any size, and it is what the rest
starts from:

* a dense address is a number in mixed radix: the strides are the products of the
  sizes of the box below (`DenseNumber`), so that `DigitUnique` of `Induction`,
  the lemma for the indices of families, gives `EntriesAreStoredApart`. In CSC
  the list of stored entries is sorted and holds none twice (`SortedLists`), and a
  column pointer counts the entries of the columns before (`PointersCount`), so
  that the address of an entry is its place in the list. Views move all entries alike;
* `EntriesAreAddressed` follows from the same two facts: the entries of neighbouring
  columns lie one after the other;
* for `LoopsAndMatrixSplitAddress` the sum of an address is split into the looped
  dimensions and the two groups. `mayFuse` says that the stride of a position in a
  group is that of the position before times its size; by induction over the
  positions (`GroupStrides`) it is the first stride of the group times the number that `unfold` gives to
  the position, and a group adds up to its first stride times one number, which is
  an index of the matrix. A slice in a group can only be of its last position, so
  that its start is multiplied by the sizes of all others, as
  `MemoryLayoutView.unfold` does; an induction over the views (`UnfoldedShift`) shows that it
  moves the index of the matrix by as much as the address. That the
  slice ends on the right dimension of the matrix has to be assumed
  (`SlicesKeepPlace`);
* for `ClaimedAccessIsAligned` the invariant of a description (`ClaimInv`) says under
  which conditions it was told that columns are aligned. Every addend of an address is
  then a multiple of the vector length (`AlignedEntry`, `LoopAligned`); the storage
  and its slices hold whole vectors, so that rows rounded to vectors do not leave them
  (`ExtendedHeld`). In a sparse matrix the entries before a column are counted: they are a
  union of disjoint vectors (`BlocksMultiple`, `PointerCounts`). That the storage starts
  with a vector has to be assumed (`AlignedOrigin`);
* `ResultIsCovered` needs three invariants more: `FitsInv`, that the storage lies within
  the shape but for the rows that were added to fill a vector; `ClaimInv`, for the rows
  that a claim adds; and `DescribedInv`, that all other ranges are ranges that are held.
  From `FitsInv` follows that only the last position of a group is stored in part
  (`FullPosition`), so that taking a number of the fused range apart into digits gives
  positions that are stored (`GroupReached`), and that a number whose digits are
  between those of two numbers is between them (`GroupBetween`): the range that `defuse`
  makes of every position is neither too small nor too large. A view clips a box and
  moves it (`MovesBox`, by induction over the views); what `notWritten` leaves are
  then the entries outside of the box that is written (`ClearedEntries`), by
  `EntriesAreStoredApart`, and an entry in the box is written because its address splits
  (`EntrySplits`). What the matrix holds of a group is what the term holds of its
  position, or the range of the group if no slice is over it (`HeldGroups`);
* `PermutationsMoveTogether` is an action property: it compares base and views
  before and after `permuted`.

`GemmKeepsLayouts` carries all this to the sessions of `Gemm`.

**The GEMM** (`GemmProofs`). `GemmIsComputed` proves that a call that
is generated leaves every entry of the result with the sum of its products, for
matrices of any size and pattern, in every layout that holds them, transposed or
not, for right operands as `RightsAssumption` describes them. `CallInv` says of
what a call was made (`Made`); `ReadyCall` derives from it, and from the assertions
that did not fail, what an execution needs (`CallReady`): the reals that the call
reads of an operand are those of the nonzeros of its range, each once and at its
address, and others that belong to no nonzero (`OperandRight`), and the rows and
columns of the product lie in the result, also when the rows were extended to
vectors.

* A dense operand is read by its strides from the first entry (`DenseReads`), a
  sparse one by the number of a nonzero from a column pointer (`SparseReads`);
  `OperandTurns` reduces a transposed operand to these.
* The ranges of a product are the bounding boxes of the parts of the patterns that
  meet (`MeetingBoxes`), and the box of the result takes them (`ResultBox`).
* `SumsAgree` sets the two sums side by side: pairs of reals that meet without being
  two nonzeros add zero, and the others are, under other names, the factors of the
  definition (`SumRenamed`, by induction over finite sets).
* With beta zero every entry of the result is in the box of the call or among what
  `notWritten` leaves (`AllOverwritten`).

What a tool does with its arguments is as in the model; that its routine does so
is external.

**Sessions** (`GeneratorProofs`). The index of a member is its parameters read
as digits, the stride being the products of the sizes below (`Radix`).
`DigitsUnique` shows, from the last digit down, that different parameters below
the sizes have different indices; `PMaxOk`, that the lexicographic maximum that
`addFamily` takes exists and bounds the parameters of a regular space.

* `SInv` relates a family to the history of its calls while its calls agree on
  a stride: the array holds, at their index, the last kernel made for its
  parameters. The members that a call in progress has still to make are those
  of its space, with its stride (`CallOk`); `EInv` adds that what was emitted is
  what the families held. `FamiliesFindTheirKernels` and
  `FamilyTestsNameTheirClass` follow.
* `CInv`: every entry of the cache comes from a request (`Genuine`) and every
  request finds an entry like it. `Added` takes the requests in the order of the set,
  and `LoopTurn` is the step of that loop. Two requests of one name differ only if
  a scale is `m1` (`NameClash`), which is why `Mistaken` has to name it. Equal to
  the code they are equal but for the rows of their sparse operands, since a name
  has the tool and the entries (`NamedRoutine`).
  `CallsFindTheirRoutines` follows.
* `OInvariant` shows of every cause of an exception in `generate` that it is a mistake of
  the user (`RaisesAreMistakes`). `GeneratorSucceeds` follows.

**Objects** (`GeneratorProofs`). `ObjectInv` says of the output that the memory
of a class is at least that of each of its members (`Fits`), and that the
arguments of a class have different slots, inside of their Containers (`Apart`);
of an object that every slot holds what was last given for its argument
(`Holds`), and that its memory is that of its batch (`HasMemory`). A Container
is indexed like a family, by a stride made from the largest index of
each dimension, so that `Apart` is `DigitsUnique` again; the code sums over a set and multiplies over
one, which `SlotLinear` and `LengthProduct` put in order. `ChunksOk` follows the
counter of `LinearAllocator` through its conversions between `size_t` and `int`:
they change nothing up to the largest int, and one past it only an empty buffer
can start. `ArgumentsAreOwn` and `MemorySuffices` follow.

Only model-checked:

* `PassesTerminate`, a liveness property;
* the front end (`OperandsOnce`, `RejectsIllFormed`, `PassesKeepFormula`,
  `PatternsSuffice`, `ReductionIsOptimal`, `GroupsFusable`, `FlopsOfKernel`):
  its passes and values are recursive operators over trees, about
  which the provers cannot reason.

## Not modelled

* `FindFusedGemms` and the fused GEMM automaton: they run for a GPU with one of
  two external back ends. First in the plan.
* Slices as destinations (`VariableView`, `visit_SliceView` of the lowering).
  Slices of operands are modelled in the front end and in the layouts.
* The tensors' initial values, the views and the copying of the support
  library (`TensorView.h`, `InitTools.h`): the generated tests use them on both
  sides of the comparison.
* What an external routine computes (a BLAS, libxsmm, PSpaMM, gemmforge): modelled
  by the meaning of its arguments. The batched calls for a GPU are text.
* Text: C++ and tiny tensor language output, test frameworks, XML and JSON
  input, names, printers. No later step reads what they produce.
* Several architectures in one run (`metagen.py`) call the Generator once for each.

## Plan

1. `FusedGemmAutomata` (`controlflow/fused_gemm_automata/`, `FindFusedGemms`):
   the automaton over programs from the passes, composed with `KernelPipeline`
   for a GPU target; the fused points execute to what the actions did.
   Theorem: the concatenation of the points' actions is the program.
2. `VariableView`: slices in `ControlFlow` and `visit_SliceView` in the
   lowering, which completes `graph.py` and `controlflow/visitor.py`.
