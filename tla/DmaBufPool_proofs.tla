-------------------------- MODULE DmaBufPool_proofs -------------------------
(***************************************************************************)
(* The buffer pool, for every number of addresses, leases and buffers:     *)
(* leases are exclusive and no buffer is lost or freed twice.  The three   *)
(* invariants support one another: release trusts acquired_, acquired_     *)
(* marks the current leases, and exclusivity keeps the free list without   *)
(* duplicates.                                                             *)
(***************************************************************************)
EXTENDS DmaBufPool, TLAPS

Distinct(s) == \A j, k \in DOMAIN s : s[j] = s[k] => j = k
Leased == {lease[x].buffer : x \in {y \in Leases : Current(y)}}
Inv == TypeOK /\ LeaseExclusive /\ PoolConserved /\ AcquiredMarks

\* A free list without duplicates loses exactly its head to acquire.
LEMMA TailDistinct ==
  ASSUME NEW s \in Seq(Addresses), s # <<>>, Distinct(s)
  PROVE  /\ Tail(s) \in Seq(Addresses) /\ Head(s) \in Addresses
         /\ Distinct(Tail(s))
         /\ Head(s) \in Entries(s)
         /\ Entries(Tail(s)) = Entries(s) \ {Head(s)}
<1>1. Tail(s) \in Seq(Addresses) /\ Head(s) \in Addresses /\ Len(s) \in Nat \ {0}
  OBVIOUS
<1>2. /\ DOMAIN s = 1..Len(s) /\ DOMAIN Tail(s) = 1..(Len(s) - 1)
      /\ Head(s) = s[1]
      /\ \A k \in 1..(Len(s) - 1) : Tail(s)[k] = s[k + 1]
  OBVIOUS
<1>3. Distinct(Tail(s))
  BY <1>1, <1>2 DEF Distinct
<1>4. Entries(Tail(s)) \subseteq Entries(s) \ {Head(s)}
  BY <1>1, <1>2 DEF Distinct, Entries
<1>5. ASSUME NEW a \in Entries(s), a # Head(s) PROVE a \in Entries(Tail(s))
  <2>1. PICK k \in 1..Len(s) : a = s[k]
    BY <1>2 DEF Entries
  <2>2. k - 1 \in 1..(Len(s) - 1) /\ Tail(s)[k - 1] = s[k]
    BY <1>1, <1>2, <1>5, <2>1
  <2> QED BY <1>2, <2>1, <2>2 DEF Entries
<1>6. Head(s) \in Entries(s)
  BY <1>1, <1>2 DEF Entries
<1> QED BY <1>1, <1>3, <1>4, <1>5, <1>6

\* A released buffer that is not on the free list joins it once.
LEMMA AppendDistinct ==
  ASSUME NEW s \in Seq(Addresses), NEW a \in Addresses, Distinct(s), a \notin Entries(s)
  PROVE  /\ Append(s, a) \in Seq(Addresses)
         /\ Distinct(Append(s, a))
         /\ Entries(Append(s, a)) = Entries(s) \cup {a}
<1>1. /\ DOMAIN s = 1..Len(s) /\ DOMAIN Append(s, a) = 1..(Len(s) + 1)
      /\ Len(s) \in Nat
      /\ \A k \in 1..Len(s) : Append(s, a)[k] = s[k]
      /\ Append(s, a)[Len(s) + 1] = a
  OBVIOUS
<1>2. Distinct(Append(s, a))
  BY <1>1 DEF Distinct, Entries
<1>3. Entries(Append(s, a)) = Entries(s) \cup {a}
  BY <1>1 DEF Entries
<1> QED BY <1>2, <1>3

-----------------------------------------------------------------------------
\* A new generation starts with every lease stale and every buffer free.
LEMMA RefillStep ==
  ASSUME Inv, NEW s \in Seq(Addresses), Distinct(s), Refill(s)
  PROVE  Inv'
<1>1. Entries(s) \subseteq Addresses
  BY DEF Entries
<1>2. \A x \in Leases : ~Current(x)' /\ lease[x].generation <= generation'
  BY DEF Inv, AcquiredMarks, TypeOK, Lease, NoLease, Current, Refill
<1>3. TypeOK'
  BY <1>1 DEF Inv, TypeOK, Refill
<1>4. LeaseExclusive' /\ AcquiredMarks'
  BY <1>2 DEF LeaseExclusive, AcquiredMarks, Refill
<1>5. PoolConserved'
  BY <1>2 DEF PoolConserved, Refill, Distinct, Entries
<1> QED BY <1>3, <1>4, <1>5 DEF Inv

\* acquire takes a free buffer: it becomes a current lease and is marked.
LEMMA AcquireStep ==
  ASSUME Inv, NEW x \in Leases, Acquire(x)
  PROVE  Inv'
<1> DEFINE b == Head(free)
<1>1. /\ Tail(free) \in Seq(Addresses) /\ b \in Addresses /\ Distinct(Tail(free))
      /\ b \in Entries(free) /\ Entries(Tail(free)) = Entries(free) \ {b}
  BY TailDistinct DEF Inv, TypeOK, PoolConserved, Distinct, Acquire
<1> HIDE DEF b
<1>2. /\ lease' = [lease EXCEPT ![x] = [buffer |-> b, generation |-> generation]]
      /\ free' = Tail(free) /\ acquired' = acquired \cup {b}
      /\ generation' = generation /\ buffers' = buffers /\ ~Current(x)
  BY DEF Acquire, Current, b
<1>3. TypeOK'
  BY <1>1, <1>2 DEF Inv, TypeOK, Lease
<1>4. /\ Current(x)' /\ lease'[x].buffer = b /\ lease'[x].generation = generation
      /\ \A y \in Leases \ {x} : lease'[y] = lease[y] /\ Current(y)' = Current(y)
  <2>1. [buffer |-> b, generation |-> generation] # NoLease
    BY <1>1, PoolAssumption DEF NoLease
  <2>2. lease'[x] = [buffer |-> b, generation |-> generation]
    BY <1>2 DEF Inv, TypeOK
  <2>3. \A y \in Leases \ {x} : lease'[y] = lease[y]
    BY <1>2 DEF Inv, TypeOK
  <2> QED BY <1>2, <2>1, <2>2, <2>3 DEF Current
<1>5. LeaseExclusive'
  BY <1>1, <1>2, <1>4 DEF Inv, LeaseExclusive, PoolConserved
<1>6. Leased' = Leased \cup {b}
  BY <1>2, <1>4 DEF Leased
<1>7. PoolConserved'
  BY <1>1, <1>2, <1>6 DEF Inv, PoolConserved, Leased, Distinct
<1>8. AcquiredMarks'
  BY <1>2, <1>4, <1>6 DEF Inv, AcquiredMarks, Leased, TypeOK
<1> QED BY <1>3, <1>5, <1>7, <1>8 DEF Inv

\* What release does on behalf of a lease x: the buffer of a current lease goes
\* to the free list, any other lease changes nothing.
LEMMA ReleaseEffect ==
  ASSUME Inv, NEW x \in Leases, Release(lease[x])
  PROVE  LET gone == IF Current(x) THEN {lease[x].buffer} ELSE {} IN
         /\ free' \in Seq(Addresses) /\ Distinct(free')
         /\ Entries(free') = Entries(free) \cup gone
         /\ acquired' = acquired \ gone
<1>1. CASE Current(x)
  <2>1. Accepts(lease[x])
    BY <1>1 DEF Inv, LeaseExclusive, AcquiredMarks, Accepts, Current
  <2>2. lease[x].buffer \in Addresses /\ lease[x].buffer \notin Entries(free)
    BY <1>1 DEF Inv, TypeOK, LeaseExclusive
  <2>3. free' = Append(free, lease[x].buffer) /\ acquired' = acquired \ {lease[x].buffer}
    BY <2>1 DEF Release
  <2> QED BY <1>1, <2>2, <2>3, AppendDistinct DEF Inv, TypeOK, PoolConserved, Distinct
<1>2. CASE ~Current(x)
  <2>1. ~Accepts(lease[x])
    BY <1>2, PoolAssumption DEF Inv, TypeOK, Accepts, Current, NoLease
  <2> QED BY <1>2, <2>1 DEF Release, Inv, TypeOK, PoolConserved, Distinct
<1> QED BY <1>1, <1>2

\* Dropping a lease frees its buffer if the lease is current, and nothing else.
LEMMA ResetStep ==
  ASSUME Inv, NEW x \in Leases, Reset(x)
  PROVE  Inv'
<1> DEFINE gone == IF Current(x) THEN {lease[x].buffer} ELSE {}
<1>1. /\ free' \in Seq(Addresses) /\ Distinct(free')
      /\ Entries(free') = Entries(free) \cup gone
      /\ acquired' = acquired \ gone
  BY ReleaseEffect DEF Reset
<1>2. /\ lease'[x] = NoLease /\ ~Current(x)'
      /\ \A y \in Leases \ {x} : lease'[y] = lease[y] /\ Current(y)' = Current(y)
      /\ lease' \in [Leases -> Lease]
      /\ generation' = generation /\ buffers' = buffers
  <2>1. lease'[x] = NoLease /\ \A y \in Leases \ {x} : lease'[y] = lease[y]
    BY DEF Reset, Inv, TypeOK
  <2>2. lease' \in [Leases -> Lease]
    BY DEF Reset, Inv, TypeOK, Lease
  <2> QED BY <2>1, <2>2 DEF Reset, Current
<1>3. TypeOK'
  BY <1>1, <1>2 DEF Inv, TypeOK
<1>4. LeaseExclusive'
  BY <1>1, <1>2 DEF Inv, LeaseExclusive
<1>5. Leased' = Leased \ gone
  BY <1>2 DEF Inv, LeaseExclusive, Leased
<1>6. gone \subseteq Leased
  BY DEF Leased
<1> HIDE DEF gone
<1>7. PoolConserved'
  BY <1>1, <1>2, <1>5, <1>6 DEF Inv, PoolConserved, Leased, Distinct
<1>8. AcquiredMarks'
  BY <1>1, <1>2, <1>5 DEF Inv, AcquiredMarks, Leased, NoLease, TypeOK
<1> QED BY <1>3, <1>4, <1>7, <1>8 DEF Inv

\* A move drops the target's lease and hands over the source's.
LEMMA MoveStep ==
  ASSUME Inv, NEW x \in Leases, NEW y \in Leases, Move(x, y)
  PROVE  Inv'
<1> DEFINE gone == IF Current(x) THEN {lease[x].buffer} ELSE {}
<1>1. /\ free' \in Seq(Addresses) /\ Distinct(free')
      /\ Entries(free') = Entries(free) \cup gone
      /\ acquired' = acquired \ gone
  BY ReleaseEffect DEF Move
<1>2. /\ x # y /\ lease'[x] = lease[y] /\ lease'[y] = NoLease
      /\ Current(x)' = Current(y) /\ ~Current(y)'
      /\ \A z \in Leases \ {x, y} : lease'[z] = lease[z] /\ Current(z)' = Current(z)
      /\ lease' \in [Leases -> Lease]
      /\ generation' = generation /\ buffers' = buffers
  <2>1. /\ lease'[x] = lease[y] /\ lease'[y] = NoLease
        /\ \A z \in Leases \ {x, y} : lease'[z] = lease[z]
    BY DEF Move, Inv, TypeOK
  <2>2. lease' \in [Leases -> Lease]
    BY DEF Move, Inv, TypeOK, Lease
  <2> QED BY <2>1, <2>2 DEF Move, Current
<1>3. TypeOK'
  BY <1>1, <1>2 DEF Inv, TypeOK
<1>4. LeaseExclusive'
  BY <1>1, <1>2 DEF Inv, LeaseExclusive
<1>5. Leased' = Leased \ gone
  <2>1. Leased' \subseteq Leased \ gone
    BY <1>2 DEF Inv, LeaseExclusive, Leased
  <2>2. ASSUME NEW a \in Leased, a \notin gone PROVE a \in Leased'
    <3>1. PICK z \in Leases : Current(z) /\ a = lease[z].buffer
      BY <2>2 DEF Leased
    <3>2. z # x
      BY <2>2, <3>1
    <3> QED BY <1>2, <3>1, <3>2 DEF Leased
  <2> QED BY <2>1, <2>2
<1>6. gone \subseteq Leased
  BY DEF Leased
<1> HIDE DEF gone
<1>7. PoolConserved'
  BY <1>1, <1>2, <1>5, <1>6 DEF Inv, PoolConserved, Leased, Distinct
<1>8. AcquiredMarks'
  BY <1>1, <1>2, <1>5 DEF Inv, AcquiredMarks, Leased, NoLease, TypeOK
<1> QED BY <1>3, <1>4, <1>7, <1>8 DEF Inv

-----------------------------------------------------------------------------
\* For every number of buffers and leases: the pool's bookkeeping is an
\* invariant of initialize, acquire, release, move and close.
THEOREM PoolCorrect == Spec => []Inv
<1>1. Init => Inv
  BY DEF Init, Inv, TypeOK, LeaseExclusive, PoolConserved, AcquiredMarks, Current,
         Entries, NoLease, Lease
<1>2. Inv /\ [Next]_vars => Inv'
  <2> SUFFICES ASSUME Inv, [Next]_vars PROVE Inv'
    OBVIOUS
  <2>1. CASE Initialize
    <3>1. PICK n \in 1..MaxBuffers : \E s \in [1..n -> Addresses] :
             (\A j, k \in 1..n : s[j] = s[k] => j = k) /\ Refill(s)
      BY <2>1 DEF Initialize
    <3>2. PICK s \in [1..n -> Addresses] :
             (\A j, k \in 1..n : s[j] = s[k] => j = k) /\ Refill(s)
      BY <3>1
    <3>3. s \in Seq(Addresses) /\ Distinct(s)
      BY <3>2, PoolAssumption DEF Distinct
    <3> QED BY <3>2, <3>3, RefillStep
  <2>2. CASE InitializeFails \/ Close
    <3>1. <<>> \in Seq(Addresses) /\ Distinct(<<>>)
      BY DEF Distinct
    <3> QED BY <2>2, <3>1, RefillStep DEF InitializeFails, Close
  <2>3. CASE \E x \in Leases : Acquire(x) \/ Reset(x) \/ \E y \in Leases : Move(x, y)
    BY <2>3, AcquireStep, ResetStep, MoveStep
  <2>4. CASE UNCHANGED vars
    BY <2>4 DEF vars, Inv, TypeOK, LeaseExclusive, PoolConserved, AcquiredMarks, Current
  <2> QED BY <2>1, <2>2, <2>3, <2>4 DEF Next
<1> QED BY <1>1, <1>2, PTL DEF Spec

\* acquire never hands out a buffer another live lease of the pool holds, and
\* release never puts a leased buffer on the free list.
THEOREM LeaseExclusiveAlways == Spec => []LeaseExclusive
<1>1. Inv => LeaseExclusive
  BY DEF Inv
<1> QED BY <1>1, PoolCorrect, PTL

\* No sequence of moves, drops, re-initializations and closes loses a buffer of
\* the pool or frees it twice.
THEOREM PoolConservedAlways == Spec => []PoolConserved
<1>1. Inv => PoolConserved
  BY DEF Inv
<1> QED BY <1>1, PoolCorrect, PTL

\* Type correctness: the free list and the leases hold addresses of buffers.
THEOREM TypeCorrect == Spec => []TypeOK
<1>1. Inv => TypeOK
  BY DEF Inv
<1> QED BY <1>1, PoolCorrect, PTL

\* acquired_, which release trusts, marks exactly the buffers of current leases,
\* stale leases of an earlier generation notwithstanding.
THEOREM AcquiredMarksAlways == Spec => []AcquiredMarks
<1>1. Inv => AcquiredMarks
  BY DEF Inv
<1> QED BY <1>1, PoolCorrect, PTL
=============================================================================
