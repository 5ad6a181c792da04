----------------------------- MODULE DmaBufPool ----------------------------
(***************************************************************************)
(* hal/dma_buf_allocator.{h,cpp}: the pool the application leases its      *)
(* output buffers from.  Every method of the pool runs under its mutex and *)
(* is one action.  A buffer is the address of its DmaBuf object, and a     *)
(* pool that is initialized again may get back the addresses it has just   *)
(* freed, while leases of the earlier pool are still alive: generation_ is *)
(* what tells them apart.  Sizes, file descriptors and mappings are left   *)
(* out, and last_error_.                                                   *)
(***************************************************************************)
EXTENDS Naturals, Sequences

CONSTANTS
  Addresses,      \* addresses the allocator may return for a DmaBuf
  Leases,         \* DmaBufLease objects of the application
  MaxBuffers,     \* bound: buffer_count of an initialize
  MaxGeneration,  \* bound: calls of initialize and close
  NoAddress       \* a null DmaBuf*

ASSUME PoolAssumption ==
  /\ MaxBuffers \in Nat /\ MaxGeneration \in Nat
  /\ NoAddress \notin Addresses

VARIABLES
  generation,     \* generation_
  buffers,        \* buffers_, as the set of their addresses
  free,           \* free_buffers_
  acquired,       \* the buffers whose acquired_ is set
  lease           \* each lease's buffer_ and generation_

vars == <<generation, buffers, free, acquired, lease>>

NoLease == [buffer |-> NoAddress, generation |-> 0]
Lease == [buffer : Addresses, generation : Nat] \cup {NoLease}

TypeOK ==
  /\ generation \in Nat
  /\ buffers \in SUBSET Addresses /\ acquired \in SUBSET Addresses
  /\ free \in Seq(Addresses)
  /\ lease \in [Leases -> Lease]

Init ==
  /\ generation = 0 /\ buffers = {} /\ free = <<>> /\ acquired = {}
  /\ lease = [x \in Leases |-> NoLease]

-----------------------------------------------------------------------------
Entries(s) == {s[k] : k \in DOMAIN s}

\* The old buffers are destroyed, so their addresses can be handed out again.
Refill(s) ==
  /\ generation < MaxGeneration /\ generation' = generation + 1
  /\ buffers' = Entries(s) /\ free' = s /\ acquired' = {}
  /\ UNCHANGED lease

\* initialize, and initialize_for_testing: n fresh buffers
Initialize ==
  \E n \in 1..MaxBuffers : \E s \in [1..n -> Addresses] :
    /\ \A j, k \in 1..n : s[j] = s[k] => j = k
    /\ Refill(s)

\* A failed allocation leaves an empty pool; so does close.
InitializeFails == Refill(<<>>)

Close == Refill(<<>>)

\* mutant: acquired_ is not set
AcquireUnmarked(x) ==
  /\ lease[x] = NoLease /\ free # <<>>
  /\ lease' = [lease EXCEPT ![x] = [buffer |-> Head(free), generation |-> generation]]
  /\ free' = Tail(free)
  /\ UNCHANGED <<generation, buffers, acquired>>

\* acquire, into an empty lease
Acquire(x) ==
  /\ lease[x] = NoLease /\ free # <<>>
  /\ lease' = [lease EXCEPT ![x] = [buffer |-> Head(free), generation |-> generation]]
  /\ free' = Tail(free)
  /\ acquired' = acquired \cup {Head(free)}
  /\ UNCHANGED <<generation, buffers>>

\* mutant: whatever a lease holds is returned, a null buffer included
AcceptsAll(l) == TRUE

\* mutant: a lease of an earlier pool returns the buffer at its address
AcceptsAnyGeneration(l) == l.buffer \in buffers /\ l.buffer \in acquired

\* release: a lease of an earlier generation, a foreign buffer and one that is
\* not acquired are ignored.
Accepts(l) ==
  l.generation = generation /\ l.buffer \in buffers /\ l.buffer \in acquired

Release(l) ==
  IF Accepts(l)
  THEN acquired' = acquired \ {l.buffer} /\ free' = Append(free, l.buffer)
  ELSE UNCHANGED <<acquired, free>>

\* reset, and the destructor
Reset(x) ==
  /\ lease[x] # NoLease
  /\ Release(lease[x])
  /\ lease' = [lease EXCEPT ![x] = NoLease]
  /\ UNCHANGED <<generation, buffers>>

\* mutant: the target of a move is overwritten without being reset
MoveWithoutReset(x, y) ==
  /\ x # y
  /\ lease' = [lease EXCEPT ![x] = lease[y], ![y] = NoLease]
  /\ UNCHANGED <<generation, buffers, free, acquired>>

\* x = std::move(y): x is reset, then takes over what y holds
Move(x, y) ==
  /\ x # y
  /\ Release(lease[x])
  /\ lease' = [lease EXCEPT ![x] = lease[y], ![y] = NoLease]
  /\ UNCHANGED <<generation, buffers>>

Next ==
  \/ Initialize \/ InitializeFails \/ Close
  \/ \E x \in Leases : Acquire(x) \/ Reset(x) \/ \E y \in Leases : Move(x, y)

Spec == Init /\ [][Next]_vars

-----------------------------------------------------------------------------
\* A lease of the pool as it is now, not of one that was replaced or closed.
Current(x) == lease[x] # NoLease /\ lease[x].generation = generation

\* Two leases never hold the same buffer of the current pool, and a leased
\* buffer is not on the free list: acquire (line 207) cannot hand out a buffer
\* that someone may still be reading or the driver still writing.
LeaseExclusive ==
  \A x \in Leases : Current(x) =>
    /\ lease[x].buffer \in buffers \ Entries(free)
    /\ \A y \in Leases \ {x} :
         Current(y) => lease[y].buffer # lease[x].buffer

\* No buffer is lost and none is freed twice: every buffer of the pool is on
\* the free list exactly once or held by a live lease, whatever leases were
\* moved, dropped or outlived their pool.
PoolConserved ==
  /\ buffers = Entries(free) \cup {lease[x].buffer : x \in {y \in Leases : Current(y)}}
  /\ \A j, k \in DOMAIN free : free[j] = free[k] => j = k

\* The bookkeeping behind both: acquired_ marks exactly the buffers of the
\* current leases, and no lease is from a later generation.
AcquiredMarks ==
  /\ acquired = {lease[x].buffer : x \in {y \in Leases : Current(y)}}
  /\ \A x \in Leases : lease[x].generation <= generation
=============================================================================
