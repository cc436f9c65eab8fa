---------------------------- MODULE KernelObject ----------------------------
(***************************************************************************)
(* The generated program: an object of a class that generate has emitted,  *)
(* whose arguments are set and which is executed, by the user or by a      *)
(* generated unit test (UnitTestGenerator).  A kernel for a GPU takes its  *)
(* buffers from memory that the user provides for a batch of elements      *)
(* (include/yateto/LinearAllocator.h).                                     *)
(*                                                                         *)
(* A pointer or the value of a scalar is a number; 0 is the null pointer   *)
(* and stands for a scalar that was never set.                             *)
(***************************************************************************)
EXTENDS Generator

CONSTANTS
  Values,    \* pointers and values of scalars
  Batches,   \* numbers of elements
  MaxInt     \* the largest int

ASSUME ObjectAssumption ==
  Values \subseteq Nat \ {0} /\ Batches \subseteq Nat \ {0} /\ MaxInt \in Nat

VARIABLES
  object,  \* the object, as a set of at most one
  last     \* history: the execution that the last step was, as a set of at most one

ovars == <<kvars, object, last>>

-----------------------------------------------------------------------------
(* Arguments *)

Args(ko) == [kind : {"tensor"}, x : ko.tensors] \cup [kind : {"scalar"}, x : ko.scalars]

sizeOf(o, arg) ==
  LET sizes == IF arg.kind = "tensor" THEN o.containers ELSE o.scalars
  IN  sizes[baseNameWithNamespace(arg.x)]

\* operator() of the Container of a group
At(o, arg) == IF arg.x.group = <<>> THEN 0 ELSE slot(sizeOf(o, arg), arg.x.group)
Member(o, arg) == <<arg.kind, baseNameWithNamespace(arg.x), At(o, arg)>>

WithArguments(o, ko, v) ==
  LET members == {Member(o, arg) : arg \in Args(ko)}
  IN  [o EXCEPT !.args  = [y \in members \cup DOMAIN @ |-> IF y \in members THEN v ELSE @[y]],
                !.given = [arg \in Args(ko) \cup DOMAIN @ |-> IF arg \in Args(ko) THEN v ELSE @[arg]]]

-----------------------------------------------------------------------------
(* LinearAllocatorT *)

NewAllocator == [isInit |-> FALSE, byteCount |-> 0, userSpaceMem |-> 0]
initialize(bytes) == [isInit |-> TRUE, byteCount |-> 0, userSpaceMem |-> bytes]

asUnsigned(x) == x % (2 * (MaxInt + 1))
asInt(x) == ((x + MaxInt + 1) % (2 * (MaxInt + 1))) - (MaxInt + 1)

\* Where the buffers start, in reals from the beginning of the memory: allocate
\* counts with a size_t and takes the count for an int.
Allocated(alloc, numElements, buffers) ==
  LET before[k \in 1 .. Len(buffers)] ==
        IF k = 1 THEN alloc.byteCount
        ELSE before[k - 1] + asUnsigned(numElements * buffers[k - 1])
  IN  [k \in 1 .. Len(buffers) |-> asInt(before[k])]

-----------------------------------------------------------------------------
(* Executing a member of the class *)

\* The assertions at the beginning and the one in allocate end the program; a scalar of a group
\* that was never set may be anything, so nothing stops on it.
Aborts(o, ko) ==
  \/ \E arg \in Args(ko) : /\ arg.kind = "tensor" \/ arg.x.group = <<>>
                           /\ Get(o.args, Member(o, arg), 0) = 0
  \/ /\ ko.target = "gpu"
     /\ o.numElements = 0 \/ ~ o.stream \/ (~ o.alloc.isInit /\ ko.buffers # <<>>)

Execution(o, ko) ==
  [seen    |-> [arg \in Args(ko) |-> Get(o.args, Member(o, arg), 0)],
   given   |-> [arg \in Args(ko) |-> Get(o.given, arg, 0)],
   inside  |-> \A arg \in Args(ko) :
                 arg.x.group = <<>> \/ At(o, arg) < containerLength(sizeOf(o, arg)),
   namesakes |-> o.namesakes,
   batch   |-> IF ko.target = "gpu" THEN o.numElements ELSE 1,
   buffers |-> ko.buffers,
   memory  |-> o.alloc.userSpaceMem,
   chunks  |-> IF ko.target = "gpu" THEN Allocated(o.alloc, o.numElements, ko.buffers) ELSE <<>>]

\* freeTmp and reset_stream
Executed(o, ko) ==
  IF ko.target = "gpu" THEN [o EXCEPT !.alloc = NewAllocator, !.stream = FALSE] ELSE o

Run(o, ko) ==
  IF Aborts(o, ko) THEN object' = {} /\ last' = {}
  ELSE object' = {Executed(o, ko)} /\ last' = {Execution(o, ko)}

-----------------------------------------------------------------------------
(* The program *)

\* Every Container that the class has a member of has been declared.
Linked(class, out) ==
  /\ BaseNames(Grouped(class.tensors \cup class.prefetch)) \subseteq DOMAIN out.containers
  /\ BaseNames(Grouped(class.scalars)) \subseteq DOMAIN out.scalars

AllTensors(out) == UNION {c.class.tensors : c \in out.classes}

\* The generator has ended, and an object of one of the classes is declared.
Declare ==
  \E out \in output :
    \E c \in out.classes :
      /\ ClassCompiles(c.class)
      /\ Linked(c.class, out)
      /\ object' = {[outlines |-> c.class.outlines, TmpMaxMem |-> c.class.TmpMaxMem,
                     containers |-> out.containers, scalars |-> out.scalars,
                     namesakes |-> Namesakes(AllTensors(out)) # {},
                     args |-> Empty, given |-> Empty,
                     numElements |-> 0, stream |-> FALSE, alloc |-> NewAllocator]}
      /\ last' = {}
      /\ kernels' = <<>> /\ families' = Empty /\ call' = {} /\ calls' = MaxCalls
      /\ made' = Empty /\ strides' = Empty /\ spaces' = Empty
      /\ emitted' = Empty /\ output' = {} /\ outcome' = "ended"
      /\ cache' = NewRoutineCache /\ asked' = {}

\* The user sets everything a member needs.
SetArguments(o, ko, v) ==
  /\ object' = {WithArguments(o, ko, v)}
  /\ last' = {}

\* The user prepares a batch on the GPU, with the memory the class asks for.
Prepare(o, ko, k) ==
  /\ ko.target = "gpu"
  /\ object' = {[o EXCEPT !.numElements = k, !.stream = TRUE, !.alloc = initialize(k * o.TmpMaxMem)]}
  /\ last' = {}

\* A unit test has an object of its own: all arguments, one element, and on the
\* GPU always the same memory.
TMP_SIZE == 128 * 8

UnitTest(o, ko) ==
  LET test == [WithArguments(o, ko, Min(Values)) EXCEPT
                 !.numElements = 1, !.stream = TRUE, !.alloc = initialize(TMP_SIZE)]
  IN  /\ o.args = Empty /\ o.numElements = 0
      /\ object' = {}
      /\ last' = IF Aborts(test, ko) THEN {} ELSE {Execution(test, ko)}

OInit == KInit /\ object = {} /\ last = {}

UserStep(o, ko) ==
  \/ \E v \in Values : SetArguments(o, ko, v)
  \/ \E k \in Batches : Prepare(o, ko, k)
  \/ Run(o, ko)
  \/ UnitTest(o, ko)

ONext ==
  \/ outcome # "ended" /\ KNext /\ UNCHANGED <<object, last>>
  \/ Declare
  \/ \E o \in object : \E ko \in UNION Range(o.outlines) : UserStep(o, ko) /\ UNCHANGED kvars

OSpec == OInit /\ [][ONext]_ovars

-----------------------------------------------------------------------------
(* Properties *)

\* The memory that TmpMaxMemRequiredInBytes promises to be enough is enough for
\* every member of a family and every batch: the buffers of an execution lie
\* inside the memory it was given and apart from each other.  The buffers of
\* the batch must not be more reals than an int counts, and those of a unit
\* test not larger than TMP_SIZE.
TmpMemSuffices ==
  \A e \in last :
    LET chunk(k) == e.chunks[k] .. e.chunks[k] + e.batch * e.buffers[k] - 1
        total    == e.batch * requiredTmpMem(e.buffers)
    IN  total <= bytesPerReal * (MaxInt + 1) /\ (e.memory = TMP_SIZE => total <= TMP_SIZE)
        => \A k \in DOMAIN e.chunks :
             /\ chunk(k) \subseteq 0 .. e.memory \div bytesPerReal - 1
             /\ \A l \in DOMAIN e.chunks : l = k \/ chunk(k) \cap chunk(l) = {}

\* An execution sees for each of its tensors and scalars what was last set for
\* that very one, whatever was set for other groups of the same name, and looks
\* for it inside the Container.  Tensors of one name in two namespaces are
\* excluded: only one of them is declared.
SeesOwnArguments ==
  \A e \in last : ~ e.namesakes => e.inside /\ e.seen = e.given

=============================================================================
