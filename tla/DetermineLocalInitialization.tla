-------------------- MODULE DetermineLocalInitialization --------------------
(***************************************************************************)
(* Assignment of buffers to the variables of a program that are not        *)
(* arguments of the kernel (controlflow/transformer.py,                    *)
(* DetermineLocalInitialization).  The pass walks the program once: a      *)
(* plain definition takes a buffer, and the buffers of the locals that die *)
(* at the statement return to a queue.  The code that is emitted holds one *)
(* pointer per variable and sets it at every point with a bufferMap entry. *)
(*                                                                         *)
(* The locals that die are iterated in the order of a Python set of        *)
(* strings, which differs from run to run: they are freed in any order,    *)
(* one per step.                                                           *)
(***************************************************************************)
EXTENDS LivePoints

VARIABLES
  point,       \* the number of points visited
  pending,     \* the locals that point frees and that are still to be freed
  used,        \* usedBuffers: partial function from names to buffers
  free,        \* freeBuffers: the next buffer to reuse is its head
  numBuffers,  \* the next new buffer
  bufferSize,  \* bufferSize: reals allocated per buffer
  bufferMap    \* ProgramPoint.bufferMap of the points visited

dvars == <<cfg, live, point, pending, used, free, numBuffers, bufferSize, bufferMap>>

-----------------------------------------------------------------------------
(* Partial functions, as the dictionaries of the code *)

Empty         == [n \in {} |-> n]
Set(f, n, v)  == [m \in DOMAIN f \cup {n} |-> IF m = n THEN v ELSE f[m]]
Pop(f, n)     == [m \in DOMAIN f \ {n} |-> f[m]]

\* storage().requiredReals() of a layout
requiredReals(lay) == IF lay.cells = Cells THEN 2 ELSE 1

\* Points whose action is plain and whose result is not an argument.
TakesBuffer(a) == ~ isCompound(a) /\ ~ isGlobal(Def(a))

LargerSize_LastOnly(buf, size) == size  \* mistake: not the maximum

LargerSize(buf, size) ==
  IF buf \in DOMAIN bufferSize /\ bufferSize[buf] > size THEN bufferSize[buf] ELSE size

\* Mistake: off by one, the result is compared with the point before.
Dying_OffByOne(k, names) ==
  {n \in live[k] \cup {Def(cfg[k])} : isLocal(n) /\ n \in names
                                   /\ k + 2 \in DOMAIN live /\ n \notin live[k + 2]}

\* free = cfg[i].live - cfg[i+1].live; a tensor declared temporary is not
\* local and keeps its buffer.
Dying(k, names) ==
  {n \in live[k] \ live[k + 1] : isLocal(n) /\ n \in names}

-----------------------------------------------------------------------------
(* One iteration over the points: the buffer of the result, ... *)

Bind(a, buf) ==
  /\ used' = Set(used, Def(a), buf)
  /\ bufferSize' = Set(bufferSize, buf, LargerSize(buf, requiredReals(a.result.lay)))
  /\ bufferMap' = Append(bufferMap, Set(Empty, Def(a), buf))

Visit(k) ==
  /\ pending = {}
  /\ k = point + 1
  /\ k \in DOMAIN cfg
  /\ point' = k
  /\ UNCHANGED <<cfg, live>>

\* Mistake: a second definition of a variable takes another buffer.
KeepBuffer_Moves ==
  /\ Visit(point + 1)
  /\ LET a == cfg[point + 1]
     IN TakesBuffer(a) /\ Def(a) \in DOMAIN used /\ Bind(a, numBuffers)
  /\ numBuffers' = numBuffers + 1
  /\ pending' = Dying(point + 1, DOMAIN used')
  /\ UNCHANGED free

KeepBuffer ==
  /\ Visit(point + 1)
  /\ LET a == cfg[point + 1]
     IN  /\ TakesBuffer(a)
         /\ Def(a) \in DOMAIN used
         /\ Bind(a, used[Def(a)])
  /\ pending' = Dying(point + 1, DOMAIN used')
  /\ UNCHANGED <<free, numBuffers>>

\* Mistake: the buffer is taken but stays in the queue.
ReuseBuffer_StaysQueued ==
  /\ Visit(point + 1)
  /\ LET a == cfg[point + 1]
     IN  /\ TakesBuffer(a) /\ Def(a) \notin DOMAIN used /\ free # <<>>
         /\ Bind(a, Head(free))
  /\ pending' = Dying(point + 1, DOMAIN used')
  /\ UNCHANGED <<free, numBuffers>>

ReuseBuffer ==
  /\ Visit(point + 1)
  /\ LET a == cfg[point + 1]
     IN  /\ TakesBuffer(a)
         /\ Def(a) \notin DOMAIN used
         /\ free # <<>>
         /\ Bind(a, Head(free))
  /\ free' = Tail(free)
  /\ pending' = Dying(point + 1, DOMAIN used')
  /\ UNCHANGED numBuffers

\* Mistake: the counter stays.
NewBuffer_NotCounted ==
  /\ Visit(point + 1)
  /\ LET a == cfg[point + 1]
     IN  /\ TakesBuffer(a) /\ Def(a) \notin DOMAIN used /\ free = <<>>
         /\ Bind(a, numBuffers)
  /\ pending' = Dying(point + 1, DOMAIN used')
  /\ UNCHANGED <<free, numBuffers>>

\* Mistake: the queue is not looked at.
NewBuffer_IgnoresQueue ==
  /\ Visit(point + 1)
  /\ LET a == cfg[point + 1]
     IN  /\ TakesBuffer(a) /\ Def(a) \notin DOMAIN used
         /\ Bind(a, numBuffers)
  /\ numBuffers' = numBuffers + 1
  /\ pending' = Dying(point + 1, DOMAIN used')
  /\ UNCHANGED free

NewBuffer ==
  /\ Visit(point + 1)
  /\ LET a == cfg[point + 1]
     IN  /\ TakesBuffer(a)
         /\ Def(a) \notin DOMAIN used
         /\ free = <<>>
         /\ Bind(a, numBuffers)
  /\ numBuffers' = numBuffers + 1
  /\ pending' = Dying(point + 1, DOMAIN used')
  /\ UNCHANGED free

NoBuffer ==
  /\ Visit(point + 1)
  /\ ~ TakesBuffer(cfg[point + 1])
  /\ bufferMap' = Append(bufferMap, Empty)
  /\ pending' = Dying(point + 1, DOMAIN used)
  /\ UNCHANGED <<used, free, numBuffers, bufferSize>>

(* ... and then the buffers of the locals that die at the point. *)

FreeBuffer(n) ==
  /\ n \in pending
  /\ free' = Append(free, used[n])
  /\ used' = Pop(used, n)
  /\ pending' = pending \ {n}
  /\ UNCHANGED <<cfg, live, point, numBuffers, bufferSize, bufferMap>>

-----------------------------------------------------------------------------
\* The dictionaries before the first point.
DStart ==
  /\ point = 0
  /\ pending = {}
  /\ used = Empty
  /\ free = <<>>
  /\ numBuffers = 0
  /\ bufferSize = Empty
  /\ bufferMap = <<>>

\* Any program that initialises its temporaries, with its live sets.
DInit ==
  /\ cfg \in Seq(Actions)
  /\ LivenessOf(cfg, live)
  /\ live[1] \subseteq Tensor
  /\ DStart

DNext ==
  \/ KeepBuffer \/ ReuseBuffer \/ NewBuffer \/ NoBuffer
  \/ \E n \in pending : FreeBuffer(n)

DSpec == DInit /\ [][DNext]_dvars

Assigned == point = Len(cfg) /\ pending = {}

-----------------------------------------------------------------------------
(* Properties *)

Buffers == 0 .. numBuffers - 1

DTypeOK ==
  /\ point \in 0 .. Len(cfg)
  /\ DOMAIN used \subseteq Name
  /\ pending \subseteq DOMAIN used
  /\ numBuffers \in Nat
  /\ \A n \in DOMAIN used : used[n] \in Buffers
  /\ free \in Seq(Buffers)
  /\ DOMAIN bufferSize = Buffers
  /\ \A b \in Buffers : bufferSize[b] \in {1, 2}

\* Every buffer is owned exactly once: by one variable or by one place in the
\* queue.  None is lost and none is handed out twice, whatever the order in
\* which the dying locals were freed.
BuffersOwnedOnce ==
  /\ \A m, n \in DOMAIN used : used[m] = used[n] => m = n
  /\ \A j, k \in DOMAIN free : free[j] = free[k] => j = k
  /\ \A n \in DOMAIN used, j \in DOMAIN free : used[n] # free[j]

\* Every temporary the rest of the program reads has a buffer, and no two of
\* them share one: a value that is still needed is not overwritten.
LiveLocalsApart ==
  \A m, n \in live[point + 1] \ Tensor :
    /\ m \in DOMAIN used
    /\ m # n => used[m] # used[n]

\* A variable is never bound to a buffer that is allocated too small for it.
BufferFits ==
  \A k \in DOMAIN bufferMap : \A n \in DOMAIN bufferMap[k] :
    /\ bufferMap[k][n] \in DOMAIN bufferSize
    /\ bufferSize[bufferMap[k][n]] >= requiredReals(cfg[k].result.lay)

\* While a temporary stays live its buffer does not change: the pointer of
\* the emitted code is not moved away from a value that is still needed.
StableStep ==
  \A n \in (live[point + 1] \cap live'[point' + 1]) \ Tensor :
    n \in DOMAIN used' /\ used'[n] = used[n]
BufferStable == [][StableStep]_dvars

\* The queue and the dictionary are a pool: a buffer is handed out only while
\* nobody owns it, and one more is allocated only when none is idle.
Pool == INSTANCE BufferPool WITH
          owned <- used,
          idle  <- {free[k] : k \in DOMAIN free},
          made  <- numBuffers
ImplementsPool == Pool!PoolSpec
=============================================================================
