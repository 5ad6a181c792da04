--------------------------- MODULE BufferTracker ---------------------------
(***************************************************************************)
(* app/buffer_tracker.cpp: the leases the application holds, by buffer id. *)
(* A tracker is a function from ids to dma-bufs; dropping an entry drops   *)
(* its lease, which gives the buffer back to the pool (DmaBufPool).        *)
(***************************************************************************)
EXTENDS Functions

CONSTANT NoBuffer       \* no dma-buf: a null lease or an unknown id

\* an entry under a new key; the entry of a used key stays
Emplace(m, k, v) == [x \in DOMAIN m \cup {k} |-> IF x \in DOMAIN m THEN m[x] ELSE v]

NoBuffers == [id \in {} |-> NoBuffer]

\* register_buffer: an empty lease or a used id is refused
CanRegister(t, id, b) == b # NoBuffer /\ id \notin DOMAIN t
RegisterBuffer(t, id, b) == Emplace(t, id, b)

Resolve(t, id) == IF id \in DOMAIN t THEN t[id] ELSE NoBuffer

\* take_metadata, release
Release(t, id) == Restrict(t, DOMAIN t \ {id})

Leased(t) == {t[id] : id \in DOMAIN t}
=============================================================================
