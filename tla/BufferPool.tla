----------------------------- MODULE BufferPool -----------------------------
(***************************************************************************)
(* What the buffer assignment promises, without the program it walks: a    *)
(* pool of buffers.  A variable acquires a buffer that nobody owns, the    *)
(* pool grows only when no buffer is idle, and a buffer that is released   *)
(* may be acquired again.  DetermineLocalInitialization implements it.     *)
(***************************************************************************)
EXTENDS Naturals

VARIABLES
  owned,  \* partial function from owners to their buffer
  idle,   \* the buffers nobody owns
  made    \* the number of buffers made: 0 .. made - 1

poolvars == <<owned, idle, made>>

PoolInit ==
  /\ owned = [n \in {} |-> n]
  /\ idle = {}
  /\ made = 0

Owns(n, b) == owned' = [m \in DOMAIN owned \cup {n} |-> IF m = n THEN b ELSE owned[m]]

AcquireIdle(n) ==
  /\ n \notin DOMAIN owned
  /\ \E b \in idle : Owns(n, b) /\ idle' = idle \ {b}
  /\ UNCHANGED made

AcquireNew(n) ==
  /\ n \notin DOMAIN owned
  /\ idle = {}
  /\ Owns(n, made)
  /\ made' = made + 1
  /\ UNCHANGED idle

Release(n) ==
  /\ n \in DOMAIN owned
  /\ owned' = [m \in DOMAIN owned \ {n} |-> owned[m]]
  /\ idle' = idle \cup {owned[n]}
  /\ UNCHANGED made

\* Anything may own a buffer: the owners are not a parameter of the pool.
PoolNext ==
  \/ \E n \in DOMAIN owned' : AcquireIdle(n) \/ AcquireNew(n)
  \/ \E n \in DOMAIN owned : Release(n)

PoolSpec == PoolInit /\ [][PoolNext]_poolvars
=============================================================================
