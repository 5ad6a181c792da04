------------------------ MODULE DriverAdapter_proofs ------------------------
(***************************************************************************)
(* What a session may rely on when it calls its driver, whichever backend  *)
(* it is: every call leaves a well-formed driver with the same routes, and *)
(* changes the slots and the kernel's buffers in the entry it works on and *)
(* nowhere else.  The invariants of the session are proved from these      *)
(* lemmas alone.                                                           *)
(***************************************************************************)
EXTENDS DriverAdapter, WellFoundedInduction, TLAPS

\* The nodes over a set B of buffers, NoBuffer among them.
NodeSet(B) ==
  [open : BOOLEAN, streaming : BOOLEAN, device : BOOLEAN, continuous : BOOLEAN,
   slot : [Index -> Nat], kernel : [Index -> B], done : Seq(Index)]

\* Entry i of the slot table and of the kernel's queue at endpoint e.
Slot(d, e, i) == d.node[e].slot[i]
Kernel(d, e, i) == d.node[e].kernel[i]
Device(d, e) == d.node[e].device
Continuous(d, e) == d.node[e].continuous

MockOK(d) ==
  d \in [kind : {"mock"}, route : {d.route}, faults : {d.faults},
         nextToken : Nat \ {0}, open : BOOLEAN, streaming : BOOLEAN,
         completions : Seq(Nat), bytes : Nat]

V4L2OK(d, B) ==
  /\ d \in [kind : {"v4l2"}, route : {d.route}, faults : {d.faults},
            nextToken : Nat \ {0}, node : [V4L2!Endpoints(d) -> NodeSet(B)]]
  /\ \A e \in V4L2!Endpoints(d) : \A i \in Index : d.node[e].slot[i] < d.nextToken

\* A driver a session can hold: it routes every buffer of B, and its slots
\* carry tokens that were drawn.
DriverOK(d, B) ==
  /\ NoBuffer \in B /\ DOMAIN d.route = B
  /\ IF IsMock(d) THEN MockOK(d) ELSE V4L2OK(d, B)

SameConfig(d, d2) ==
  /\ IsMock(d2) = IsMock(d) /\ d2.route = d.route /\ d2.faults = d.faults

\* No entry of d2 differs from that of d.
SameEntries(d, d2) ==
  \A e \in EventFds(d) : \A i \in Index :
    Slot(d2, e, i) = Slot(d, e, i) /\ Kernel(d2, e, i) = Kernel(d, e, i)

SameFlags(d, d2) ==
  \A e \in EventFds(d) :
    Device(d2, e) = Device(d, e) /\ Continuous(d2, e) = Continuous(d, e)

\* The completions d owes under drawn tokens are owed by d2 as well.
KeepsOwed(d, d2) ==
  \A x \in Nat \ {0} : \A b : Owes(d, x, b) => Owes(d2, x, b)

\* Entry i at endpoint e becomes token x with buffer b, and no other changes.
SetsEntry(d, d2, e, i, x, b) ==
  \A a \in EventFds(d) : \A j \in Index :
    /\ Slot(d2, a, j) = IF a = e /\ j = i THEN x ELSE Slot(d, a, j)
    /\ Kernel(d2, a, j) = IF a = e /\ j = i THEN b ELSE Kernel(d, a, j)

\* A call that draws no token, moves no buffer and starts or stops nothing.
Quiet(d, d2, B) ==
  /\ DriverOK(d2, B) /\ SameConfig(d, d2) /\ d2.nextToken = d.nextToken
  /\ KeepsOwed(d, d2)
  /\ ~IsMock(d) => SameEntries(d, d2) /\ SameFlags(d, d2)

\* A call that gives buffer b to the device under the next token.
Loads(d, d2, b, B) ==
  /\ DriverOK(d2, B) /\ SameConfig(d, d2) /\ d2.nextToken = d.nextToken + 1
  /\ KeepsOwed(d, d2) /\ Owes(d2, d.nextToken, b)
  /\ ~IsMock(d) =>
       /\ b # NoBuffer
       /\ \E i \in Index :
            /\ Slot(d, d.route[b], i) = 0 /\ Kernel(d, d.route[b], i) = NoBuffer
            /\ SetsEntry(d, d2, d.route[b], i, d.nextToken, b)
       /\ \A e \in EventFds(d) :
            /\ Device(d2, e) = (e = d.route[b] \/ Device(d, e))
            /\ Continuous(d2, e) = Continuous(d, e)

\* A call that failed to give b to the device: nothing is queued, unless a
\* first STREAMON failed and left b with the kernel in an entry without token.
LoadFails(d, d2, b, B) ==
  /\ DriverOK(d2, B) /\ SameConfig(d, d2)
  /\ d2.nextToken \in {d.nextToken, d.nextToken + 1}
  /\ KeepsOwed(d, d2)
  /\ ~IsMock(d) =>
       /\ SameFlags(d, d2)
       /\ \/ SameEntries(d, d2)
          \/ /\ "streamon" \in d.faults /\ ~Device(d, d.route[b])
             /\ \E i \in Index : /\ Slot(d, d.route[b], i) = 0
                                 /\ SetsEntry(d, d2, d.route[b], i, 0, b)

-----------------------------------------------------------------------------
\* bind_free_queued_request finds a free slot whenever there is one.
LEMMA FirstFreeIsFree ==
  ASSUME NEW n, V4L2!Node!FreeSlots(n) # {}
  PROVE  V4L2!Node!FirstFree(n) \in V4L2!Node!FreeSlots(n)
<1> DEFINE S == V4L2!Node!FreeSlots(n)
           less == OpToRel(<, Nat)
<1>1. S \subseteq Nat /\ S # {}
  BY IndexAssumption DEF V4L2!Node!FreeSlots
<1>2. IsWellFoundedOn(less, Nat)
  BY NatLessThanWellFounded
<1>3. ASSUME NEW p \in Nat \X Nat, p[1] < p[2] PROVE p \in less
  BY <1>3 DEF OpToRel
<1> HIDE DEF S, less
<1>4. PICK i \in S : \A j \in S : ~(<<j, i>> \in less)
  BY <1>1, <1>2, WFMin
<1>5. ASSUME NEW j \in S PROVE i <= j
  <2>1. <<j, i>> \in Nat \X Nat /\ <<j, i>>[1] = j /\ <<j, i>>[2] = i
    BY <1>1
  <2> QED BY <1>1, <1>3, <1>4, <2>1
<1> QED BY <1>5 DEF V4L2!Node!FirstFree, S

\* On a V4L2 driver, owing is having an entry with that token and buffer.
LEMMA OwesIsEntry ==
  ASSUME NEW d, ~IsMock(d)
  PROVE  \A x, b : Owes(d, x, b) <=>
           \E e \in EventFds(d) : \E i \in Index : Slot(d, e, i) = x /\ Kernel(d, e, i) = b
  BY DEF Owes, V4L2!Owes, Slot, Kernel, EventFds, V4L2!Endpoints

\* The same entries owe the same completions.
LEMMA SameEntriesKeep ==
  ASSUME NEW d, NEW d2, ~IsMock(d), SameConfig(d, d2), SameEntries(d, d2)
  PROVE  KeepsOwed(d, d2)
  BY OwesIsEntry DEF SameConfig, SameEntries, KeepsOwed, EventFds

\* Driver d with node n at e and next token t.
WithNode(d, e, n, t) == [d EXCEPT !.node[e] = n, !.nextToken = t]

\* A node that driver d may have once its next token is t.
NodeFits(d, n, t, B) ==
  /\ n \in NodeSet(B) /\ t \in Nat /\ d.nextToken <= t
  /\ \A i \in Index : n.slot[i] < t

\* It is well formed, and nothing else in it has changed.
LEMMA WithNodeDriver ==
  ASSUME NEW B, NEW d, V4L2OK(d, B), NEW e \in V4L2!Endpoints(d),
         NEW n \in NodeSet(B), NEW t \in Nat, d.nextToken <= t,
         \A i \in Index : n.slot[i] < t,
         NEW d2, d2 = WithNode(d, e, n, t)
  PROVE  /\ V4L2OK(d2, B) /\ V4L2!Endpoints(d2) = V4L2!Endpoints(d)
         /\ d2.kind = d.kind /\ d2.route = d.route /\ d2.faults = d.faults
         /\ d2.nextToken = t /\ d2.node[e] = n
         /\ \A a \in V4L2!Endpoints(d) : a # e => d2.node[a] = d.node[a]
<1> DEFINE m == [d.node EXCEPT ![e] = n]
<1>a. d2 = [d EXCEPT !.node = m, !.nextToken = t] /\ m \in [V4L2!Endpoints(d) -> NodeSet(B)]
  BY DEF V4L2OK, WithNode
<1>1. /\ d2.kind = d.kind /\ d2.route = d.route /\ d2.faults = d.faults
      /\ d2.nextToken = t /\ d2.node = m
      /\ d2 \in [kind : {"v4l2"}, route : {d.route}, faults : {d.faults},
                 nextToken : Nat \ {0}, node : [V4L2!Endpoints(d) -> NodeSet(B)]]
  <2>1. d.nextToken \in Nat \ {0} /\ t \in Nat \ {0}
    BY DEF V4L2OK
  <2> HIDE DEF m
  <2> QED BY <1>a, <2>1 DEF V4L2OK
<1>2. V4L2!Endpoints(d2) = V4L2!Endpoints(d)
  BY <1>1 DEF V4L2!Endpoints
<1>3. d2.node[e] = n /\ \A a \in V4L2!Endpoints(d) : a # e => d2.node[a] = d.node[a]
  BY <1>1 DEF V4L2OK
<1>4. \A a \in V4L2!Endpoints(d2) : \A i \in Index : d2.node[a].slot[i] < d2.nextToken
  <2> SUFFICES ASSUME NEW a \in V4L2!Endpoints(d), NEW i \in Index
               PROVE  d2.node[a].slot[i] < t
    BY <1>1, <1>2
  <2>1. CASE a = e
    BY <2>1, <1>3
  <2>2. CASE a # e
    <3>1. d2.node[a] = d.node[a] /\ d.node[a].slot[i] < d.nextToken
      BY <2>2, <1>3 DEF V4L2OK
    <3>2. d.node[a].slot[i] \in Nat /\ d.nextToken \in Nat
      BY DEF V4L2OK, NodeSet
    <3> QED BY <3>1, <3>2
  <2> QED BY <2>1, <2>2
<1> QED BY <1>1, <1>2, <1>3, <1>4 DEF V4L2OK

\* A driver after the same change on every node.
LEMMA EveryNode ==
  ASSUME NEW B, NEW d, V4L2OK(d, B),
         NEW f \in [V4L2!Endpoints(d) -> NodeSet(B)],
         \A e \in V4L2!Endpoints(d) : \A i \in Index :
           f[e].slot[i] \in {0, d.node[e].slot[i]},
         NEW d2, d2 = [d EXCEPT !.node = f]
  PROVE  /\ V4L2OK(d2, B) /\ V4L2!Endpoints(d2) = V4L2!Endpoints(d)
         /\ d2.kind = d.kind /\ d2.route = d.route /\ d2.faults = d.faults
         /\ d2.nextToken = d.nextToken /\ d2.node = f
<1>1. /\ d2.kind = d.kind /\ d2.route = d.route /\ d2.faults = d.faults
      /\ d2.nextToken = d.nextToken /\ d2.node = f
      /\ d2 \in [kind : {"v4l2"}, route : {d.route}, faults : {d.faults},
                 nextToken : Nat \ {0}, node : [V4L2!Endpoints(d) -> NodeSet(B)]]
  BY DEF V4L2OK
<1>2. V4L2!Endpoints(d2) = V4L2!Endpoints(d)
  BY <1>1 DEF V4L2!Endpoints
<1>3. ASSUME NEW e \in V4L2!Endpoints(d), NEW i \in Index
      PROVE  f[e].slot[i] < d.nextToken
  <2>1. d.node[e].slot[i] < d.nextToken /\ d.nextToken \in Nat \ {0}
    BY DEF V4L2OK
  <2>2. f[e].slot[i] = 0 \/ f[e].slot[i] = d.node[e].slot[i]
    OBVIOUS
  <2> QED BY <2>1, <2>2
<1> QED BY <1>1, <1>2, <1>3 DEF V4L2OK

-----------------------------------------------------------------------------
\* A new driver is closed, and neither it nor the device has anything.
LEMMA ClosedDriverOK ==
  ASSUME NEW B, NoBuffer \in B, NEW c, DOMAIN c.route = B
  PROVE  LET d == ClosedDriver(c) IN
         /\ DriverOK(d, B) /\ SameConfig(c, d) /\ d.nextToken = 1
         /\ ~IsMock(d) => \A e \in EventFds(d) : /\ ~Device(d, e) /\ ~Continuous(d, e)
                            /\ \A i \in Index : Slot(d, e, i) = 0 /\ Kernel(d, e, i) = NoBuffer
<1>1. CASE IsMock(c)
  BY <1>1 DEF ClosedDriver, IsMock, Mock!Closed, DriverOK, MockOK, SameConfig
<1>2. CASE ~IsMock(c)
  <2> DEFINE n == V4L2!Node!ClosedDriver
             d == V4L2!Closed(c)
  <2>1. /\ n \in NodeSet(B) /\ ~n.device /\ ~n.continuous
        /\ \A i \in Index : n.slot[i] = 0 /\ n.kernel[i] = NoBuffer
    BY DEF V4L2!Node!ClosedDriver, NodeSet
  <2> HIDE DEF n
  <2>2. /\ d.kind = "v4l2" /\ d.route = c.route /\ d.faults = c.faults
        /\ d.nextToken = 1 /\ d.node = [e \in V4L2!Endpoints(c) |-> n]
        /\ V4L2!Endpoints(d) = V4L2!Endpoints(c)
        /\ d \in [kind : {"v4l2"}, route : {c.route}, faults : {c.faults},
                  nextToken : Nat \ {0}, node : [V4L2!Endpoints(c) -> NodeSet(B)]]
    BY <2>1 DEF V4L2!Closed, n, V4L2!Endpoints
  <2>3. ClosedDriver(c) = d /\ ~IsMock(d)
    BY <1>2, <2>2 DEF ClosedDriver, IsMock
  <2> HIDE DEF d
  <2>4. \A e \in V4L2!Endpoints(d) : d.node[e] = n
    BY <2>2
  <2>5. V4L2OK(d, B)
    BY <2>1, <2>2, <2>4 DEF V4L2OK
  <2>6. \A e \in EventFds(d) : /\ ~Device(d, e) /\ ~Continuous(d, e)
          /\ \A i \in Index : Slot(d, e, i) = 0 /\ Kernel(d, e, i) = NoBuffer
    BY <2>1, <2>4 DEF EventFds, V4L2!Endpoints, Slot, Kernel, Device, Continuous
  <2> QED BY <1>2, <2>2, <2>3, <2>5, <2>6 DEF DriverOK, SameConfig, IsMock
<1> QED BY <1>1, <1>2

\* Calls that change nothing but open and streaming, on every node.
LEMMA EveryNodeQuiet ==
  ASSUME NEW B, NEW d, DriverOK(d, B), ~IsMock(d),
         NEW f \in [V4L2!Endpoints(d) -> NodeSet(B)],
         \A e \in V4L2!Endpoints(d) :
           /\ f[e].slot = d.node[e].slot /\ f[e].kernel = d.node[e].kernel
           /\ f[e].device = d.node[e].device /\ f[e].continuous = d.node[e].continuous,
         NEW d2, d2 = [d EXCEPT !.node = f]
  PROVE  Quiet(d, d2, B)
<1>1. V4L2OK(d, B)
  BY DEF DriverOK
<1>2. /\ V4L2OK(d2, B) /\ V4L2!Endpoints(d2) = V4L2!Endpoints(d)
      /\ d2.kind = d.kind /\ d2.route = d.route /\ d2.faults = d.faults
      /\ d2.nextToken = d.nextToken /\ d2.node = f
  BY <1>1, EveryNode
<1>3. SameConfig(d, d2) /\ SameEntries(d, d2) /\ SameFlags(d, d2)
  BY <1>2 DEF SameConfig, SameEntries, SameFlags, IsMock, EventFds,
     V4L2!Endpoints, Slot, Kernel, Device, Continuous
<1>4. KeepsOwed(d, d2)
  BY <1>3, SameEntriesKeep
<1> QED BY <1>2, <1>3, <1>4 DEF Quiet, DriverOK, IsMock

\* open leaves every slot and every buffer where it was.
LEMMA OpenDriverQuiet ==
  ASSUME NEW B, NEW d, DriverOK(d, B)
  PROVE  Quiet(d, OpenDriver(d), B)
<1>1. CASE IsMock(d)
  BY <1>1 DEF OpenDriver, IsMock, Mock!Open, DriverOK, MockOK, SameConfig, Quiet,
              KeepsOwed, Owes, Mock!Owes
<1>2. CASE ~IsMock(d)
  <2> DEFINE f == [e \in V4L2!Endpoints(d) |-> V4L2!Node!OpenDriver(d.node[e])]
  <2>1. \A n \in NodeSet(B) :
          LET m == V4L2!Node!OpenDriver(n) IN
          /\ m \in NodeSet(B) /\ m.slot = n.slot /\ m.kernel = n.kernel
          /\ m.device = n.device /\ m.continuous = n.continuous
    BY DEF NodeSet, V4L2!Node!OpenDriver
  <2>2. V4L2OK(d, B) /\ \A e \in V4L2!Endpoints(d) : d.node[e] \in NodeSet(B)
    BY <1>2 DEF DriverOK, V4L2OK
  <2>3. OpenDriver(d) = [d EXCEPT !.node = f]
    BY <1>2, <2>2 DEF OpenDriver, V4L2!Open, V4L2!OnEveryNode, V4L2OK
  <2>4. f \in [V4L2!Endpoints(d) -> NodeSet(B)]
    BY <2>1, <2>2
  <2>5. \A e \in V4L2!Endpoints(d) :
          /\ f[e].slot = d.node[e].slot /\ f[e].kernel = d.node[e].kernel
          /\ f[e].device = d.node[e].device /\ f[e].continuous = d.node[e].continuous
    BY <2>1, <2>2
  <2> HIDE DEF f
  <2> QED BY <1>2, <2>3, <2>4, <2>5, EveryNodeQuiet
<1> QED BY <1>1, <1>2

\* start leaves every slot and every buffer where it was.
LEMMA StartDriverQuiet ==
  ASSUME NEW B, NEW d, DriverOK(d, B)
  PROVE  Quiet(d, StartDriver(d), B)
<1>1. CASE IsMock(d)
  BY <1>1 DEF StartDriver, IsMock, Mock!Start, DriverOK, MockOK, SameConfig, Quiet,
              KeepsOwed, Owes, Mock!Owes
<1>2. CASE ~IsMock(d)
  <2> DEFINE f == [e \in V4L2!Endpoints(d) |-> V4L2!Node!StartDriver(d.node[e])]
  <2>1. \A n \in NodeSet(B) :
          LET m == V4L2!Node!StartDriver(n) IN
          /\ m \in NodeSet(B) /\ m.slot = n.slot /\ m.kernel = n.kernel
          /\ m.device = n.device /\ m.continuous = n.continuous
    BY DEF NodeSet, V4L2!Node!StartDriver
  <2>2. V4L2OK(d, B) /\ \A e \in V4L2!Endpoints(d) : d.node[e] \in NodeSet(B)
    BY <1>2 DEF DriverOK, V4L2OK
  <2>3. StartDriver(d) = [d EXCEPT !.node = f]
    BY <1>2, <2>2 DEF StartDriver, V4L2!Start, V4L2!OnEveryNode, V4L2OK
  <2>4. f \in [V4L2!Endpoints(d) -> NodeSet(B)]
    BY <2>1, <2>2
  <2>5. \A e \in V4L2!Endpoints(d) :
          /\ f[e].slot = d.node[e].slot /\ f[e].kernel = d.node[e].kernel
          /\ f[e].device = d.node[e].device /\ f[e].continuous = d.node[e].continuous
    BY <2>1, <2>2
  <2> HIDE DEF f
  <2> QED BY <1>2, <2>3, <2>4, <2>5, EveryNodeQuiet
<1> QED BY <1>1, <1>2

\* After a stop no slot is taken, nothing streams, and a device that had been
\* started has given its buffers back.
Stopped(d, d2, B) ==
  /\ DriverOK(d2, B) /\ SameConfig(d, d2) /\ d2.nextToken = d.nextToken
  /\ ~IsMock(d) => \A e \in EventFds(d) :
       /\ ~Device(d2, e) /\ ~Continuous(d2, e)
       /\ \A i \in Index :
            /\ Slot(d2, e, i) = 0
            /\ Kernel(d2, e, i) \in {NoBuffer, Kernel(d, e, i)}
            /\ Device(d, e) => Kernel(d2, e, i) = NoBuffer

\* Stopping each node stops the multi-stream driver.
LEMMA EveryNodeStopped ==
  ASSUME NEW B, NEW d, DriverOK(d, B), ~IsMock(d),
         NEW f \in [V4L2!Endpoints(d) -> NodeSet(B)],
         \A e \in V4L2!Endpoints(d) :
           /\ ~f[e].device /\ ~f[e].continuous
           /\ \A i \in Index :
                /\ f[e].slot[i] = 0 /\ f[e].kernel[i] \in {NoBuffer, d.node[e].kernel[i]}
                /\ d.node[e].device => f[e].kernel[i] = NoBuffer,
         NEW d2, d2 = [d EXCEPT !.node = f]
  PROVE  Stopped(d, d2, B)
<1>1. V4L2OK(d, B)
  BY DEF DriverOK
<1>2. /\ V4L2OK(d2, B) /\ V4L2!Endpoints(d2) = V4L2!Endpoints(d)
      /\ d2.kind = d.kind /\ d2.route = d.route /\ d2.faults = d.faults
      /\ d2.nextToken = d.nextToken /\ d2.node = f
  BY <1>1, EveryNode
<1>3. SameConfig(d, d2) /\ DriverOK(d2, B)
  BY <1>2 DEF SameConfig, IsMock, DriverOK
<1>4. EventFds(d) = V4L2!Endpoints(d)
  BY DEF EventFds, V4L2!Endpoints
<1> QED BY <1>2, <1>3, <1>4 DEF Stopped, Slot, Kernel, Device, Continuous

\* A stopped node has no slot in use, and none of its buffers if it was started.
LEMMA StopNode ==
  ASSUME NEW B, NoBuffer \in B, NEW n \in NodeSet(B)
  PROVE  LET m == V4L2!Node!StopDriver(n) IN
         /\ m \in NodeSet(B) /\ ~m.device /\ ~m.continuous
         /\ \A i \in Index :
              /\ m.slot[i] = 0 /\ m.kernel[i] \in {NoBuffer, n.kernel[i]}
              /\ n.device => m.kernel[i] = NoBuffer
<1> DEFINE r == [n EXCEPT !.slot = [i \in Index |-> 0]]
           k == IF n.device THEN [i \in Index |-> NoBuffer] ELSE n.kernel
           q == IF n.device THEN <<>> ELSE n.done
<1>1. /\ r \in NodeSet(B) /\ r.kernel = n.kernel /\ r.done = n.done
      /\ \A i \in Index : r.slot[i] = 0
  BY DEF NodeSet
<1>2. /\ k \in [Index -> B] /\ q \in Seq(Index)
      /\ \A i \in Index : /\ k[i] \in {NoBuffer, n.kernel[i]}
                          /\ n.device => k[i] = NoBuffer
  BY DEF NodeSet
<1>3. V4L2!Node!StopDriver(n) =
        [r EXCEPT !.kernel = k, !.done = q,
                  !.device = FALSE, !.streaming = FALSE, !.continuous = FALSE]
  BY <1>1 DEF V4L2!Node!StopDriver, V4L2!Node!ResetSlots
<1> HIDE DEF r, k, q
<1> QED BY <1>1, <1>2, <1>3 DEF NodeSet

\* stop frees every slot and keeps the tokens that were drawn.
LEMMA StopDriverStops ==
  ASSUME NEW B, NEW d, DriverOK(d, B)
  PROVE  Stopped(d, StopDriver(d), B)
<1>1. CASE IsMock(d)
  BY <1>1 DEF StopDriver, IsMock, Mock!Stop, DriverOK, MockOK, SameConfig, Stopped
<1>2. CASE ~IsMock(d)
  <2> DEFINE f == [e \in V4L2!Endpoints(d) |-> V4L2!Node!StopDriver(d.node[e])]
  <2>0. NoBuffer \in B
    BY DEF DriverOK
  <2>1. ASSUME NEW n \in NodeSet(B)
        PROVE  LET m == V4L2!Node!StopDriver(n) IN
          /\ m \in NodeSet(B) /\ ~m.device /\ ~m.continuous
          /\ \A i \in Index :
               /\ m.slot[i] = 0 /\ m.kernel[i] \in {NoBuffer, n.kernel[i]}
               /\ n.device => m.kernel[i] = NoBuffer
    BY <2>0, StopNode
  <2>2. V4L2OK(d, B) /\ \A e \in V4L2!Endpoints(d) : d.node[e] \in NodeSet(B)
    BY <1>2 DEF DriverOK, V4L2OK
  <2>3. StopDriver(d) = [d EXCEPT !.node = f]
    BY <1>2, <2>2 DEF StopDriver, V4L2!Stop, V4L2!OnEveryNode, V4L2OK
  <2>4. f \in [V4L2!Endpoints(d) -> NodeSet(B)]
    BY <2>1, <2>2
  <2>5. \A e \in V4L2!Endpoints(d) :
           /\ ~f[e].device /\ ~f[e].continuous
           /\ \A i \in Index :
                /\ f[e].slot[i] = 0 /\ f[e].kernel[i] \in {NoBuffer, d.node[e].kernel[i]}
                /\ d.node[e].device => f[e].kernel[i] = NoBuffer
    BY <2>1, <2>2
  <2> HIDE DEF f
  <2> QED BY <1>2, <2>3, <2>4, <2>5, EveryNodeStopped
<1> QED BY <1>1, <1>2

\* close frees every slot, takes every buffer back and keeps the token counter.
LEMMA CloseDriverStops ==
  ASSUME NEW B, NEW d, DriverOK(d, B)
  PROVE  /\ Stopped(d, CloseDriver(d), B)
         /\ ~IsMock(d) => \A e \in EventFds(d) : \A i \in Index :
                            Kernel(CloseDriver(d), e, i) = NoBuffer
<1>1. CASE IsMock(d)
  <2>1. CloseDriver(d) = Mock!Close(d) /\ MockOK(d)
    BY <1>1 DEF CloseDriver, DriverOK
  <2>2. MockOK(Mock!Close(d)) /\ Mock!Close(d).kind = d.kind
        /\ Mock!Close(d).route = d.route /\ Mock!Close(d).faults = d.faults
        /\ Mock!Close(d).nextToken = d.nextToken
    <3>1. <<>> \in Seq(Nat)
      OBVIOUS
    <3> QED BY <2>1, <3>1 DEF MockOK, Mock!Close
  <2> QED BY <1>1, <2>1, <2>2 DEF DriverOK, SameConfig, Stopped, IsMock
<1>2. CASE ~IsMock(d)
  <2> DEFINE f == [e \in V4L2!Endpoints(d) |-> V4L2!Node!CloseDriver(d.node[e])]
  <2>0. NoBuffer \in B
    BY DEF DriverOK
  <2>1. ASSUME NEW n \in NodeSet(B)
        PROVE  LET m == V4L2!Node!CloseDriver(n) IN
          /\ m \in NodeSet(B) /\ ~m.device /\ ~m.continuous
          /\ \A i \in Index : m.slot[i] = 0 /\ m.kernel[i] = NoBuffer
    <3> DEFINE k == V4L2!Node!StopDriver(n)
    <3>1. k \in NodeSet(B) /\ ~k.device /\ ~k.continuous /\ \A i \in Index : k.slot[i] = 0
      BY <2>0, StopNode
    <3> HIDE DEF k
    <3>2. V4L2!Node!CloseDriver(n) =
            [k EXCEPT !.open = FALSE, !.done = <<>>, !.kernel = [i \in Index |-> NoBuffer]]
      BY DEF V4L2!Node!CloseDriver, k
    <3>3. <<>> \in Seq(Index) /\ [i \in Index |-> NoBuffer] \in [Index -> B]
      BY <2>0
    <3> QED BY <2>0, <3>1, <3>2, <3>3 DEF NodeSet
  <2>2. V4L2OK(d, B) /\ \A e \in V4L2!Endpoints(d) : d.node[e] \in NodeSet(B)
    BY <1>2 DEF DriverOK, V4L2OK
  <2>3. CloseDriver(d) = [d EXCEPT !.node = f]
    BY <1>2, <2>2 DEF CloseDriver, V4L2!Close, V4L2!OnEveryNode, V4L2OK
  <2>4. f \in [V4L2!Endpoints(d) -> NodeSet(B)]
    BY <2>1, <2>2
  <2>5. \A e \in V4L2!Endpoints(d) :
           /\ ~f[e].device /\ ~f[e].continuous
           /\ \A i \in Index : f[e].slot[i] = 0 /\ f[e].kernel[i] = NoBuffer
    BY <2>1, <2>2
  <2>6. CloseDriver(d).node = f
    BY <2>2, <2>3 DEF V4L2OK
  <2> HIDE DEF f
  <2>7. Stopped(d, CloseDriver(d), B)
    BY <1>2, <2>3, <2>4, <2>5, EveryNodeStopped
  <2> QED BY <2>5, <2>6, <2>7 DEF Kernel, EventFds, V4L2!Endpoints
<1> QED BY <1>1, <1>2

\* The driver after a change of one node, seen from the session.
LEMMA WithNodeOK ==
  ASSUME NEW B, NEW d, DriverOK(d, B), ~IsMock(d), NEW e \in EventFds(d),
         NEW n, NEW t, NodeFits(d, n, t, B)
  PROVE  LET d2 == WithNode(d, e, n, t) IN
         /\ DriverOK(d2, B) /\ SameConfig(d, d2) /\ d2.nextToken = t
         /\ EventFds(d2) = EventFds(d)
         /\ d2.node[e] = n
         /\ \A a \in EventFds(d) : a # e => d2.node[a] = d.node[a]
<1> DEFINE d2 == WithNode(d, e, n, t)
<1> HIDE DEF d2
<1>1. V4L2OK(d, B) /\ EventFds(d) = V4L2!Endpoints(d)
  BY DEF DriverOK, EventFds, V4L2!Endpoints
<1>2. /\ V4L2OK(d2, B) /\ V4L2!Endpoints(d2) = V4L2!Endpoints(d)
      /\ d2.kind = d.kind /\ d2.route = d.route /\ d2.faults = d.faults
      /\ d2.nextToken = t /\ d2.node[e] = n
      /\ \A a \in V4L2!Endpoints(d) : a # e => d2.node[a] = d.node[a]
  BY <1>1, WithNodeDriver DEF d2, NodeFits
<1>3. DriverOK(d2, B) /\ SameConfig(d, d2)
  BY <1>2 DEF DriverOK, SameConfig, IsMock
<1> QED BY <1>1, <1>2, <1>3 DEF EventFds, d2

\* What is known of the node that serves buffer b.
LEMMA NodeOf ==
  ASSUME NEW B, NEW d, DriverOK(d, B), ~IsMock(d), NEW b \in B
  PROVE  /\ d.route[b] \in EventFds(d)
         /\ d.nextToken \in Nat \ {0}
         /\ \A e \in EventFds(d) : /\ d.node[e] \in NodeSet(B)
                                   /\ \A i \in Index : d.node[e].slot[i] < d.nextToken
<1>1. V4L2OK(d, B) /\ EventFds(d) = V4L2!Endpoints(d) /\ d.route[b] \in EventFds(d)
  BY DEF DriverOK, EventFds, V4L2!Endpoints
<1> QED BY <1>1 DEF V4L2OK

\* A change of entry i at e keeps what was owed under drawn tokens, if the slot
\* was free.
LEMMA SetsEntryKeeps ==
  ASSUME NEW d, NEW d2, ~IsMock(d), SameConfig(d, d2), NEW e, NEW i, NEW x, NEW b,
         Slot(d, e, i) = 0, SetsEntry(d, d2, e, i, x, b)
  PROVE  KeepsOwed(d, d2)
<1> SUFFICES ASSUME NEW y \in Nat \ {0}, NEW c, Owes(d, y, c)
             PROVE  Owes(d2, y, c)
  BY DEF KeepsOwed
<1>1. PICK a \in EventFds(d), j \in Index : Slot(d, a, j) = y /\ Kernel(d, a, j) = c
  BY OwesIsEntry
<1>2. Slot(d2, a, j) = y /\ Kernel(d2, a, j) = c
  BY <1>1 DEF SetsEntry
<1>3. EventFds(d2) = EventFds(d) /\ ~IsMock(d2)
  BY DEF SameConfig, EventFds
<1> QED BY <1>1, <1>2, <1>3, OwesIsEntry

\* The mock's submission is its own completion, announced or not.
LEMMA MockCompletes ==
  ASSUME NEW B, NEW d, DriverOK(d, B), IsMock(d), NEW n \in Nat, NEW b
  PROVE  LET d2 == [Mock!Complete(d) EXCEPT !.bytes = n] IN
         /\ DriverOK(d2, B) /\ SameConfig(d, d2) /\ d2.nextToken = d.nextToken + 1
         /\ KeepsOwed(d, d2) /\ Owes(d2, d.nextToken, b)
<1> DEFINE d2 == [Mock!Complete(d) EXCEPT !.bytes = n]
<1>1. MockOK(d)
  BY DEF DriverOK
<1>2. /\ MockOK(d2) /\ d2.kind = d.kind /\ d2.route = d.route /\ d2.faults = d.faults
      /\ d2.nextToken = d.nextToken + 1 /\ d2.completions = Append(d.completions, d.nextToken)
  <2>1. /\ Append(d.completions, d.nextToken) \in Seq(Nat)
        /\ d.nextToken + 1 \in Nat \ {0}
    BY <1>1 DEF MockOK
  <2> QED BY <1>1, <2>1 DEF MockOK, Mock!Complete
<1>3. d.completions \in Seq(Nat) /\ d.nextToken \in Nat
  BY <1>1 DEF MockOK
<1> HIDE DEF d2
<1>4. /\ DOMAIN d2.completions = 1..(Len(d.completions) + 1)
      /\ DOMAIN d.completions = 1..Len(d.completions) /\ Len(d.completions) \in Nat
      /\ \A k \in 1..Len(d.completions) : d2.completions[k] = d.completions[k]
      /\ d2.completions[Len(d.completions) + 1] = d.nextToken
  BY <1>2, <1>3
<1>5. KeepsOwed(d, d2) /\ Owes(d2, d.nextToken, b)
  BY <1>2, <1>4 DEF KeepsOwed, Owes, IsMock, Mock!Owes
<1> QED BY <1>2, <1>5 DEF DriverOK, SameConfig, IsMock, d2

\* A successful submission takes a free entry, under a token of its own.
LEMMA QueueLoads ==
  ASSUME NEW B, NEW d, DriverOK(d, B), NEW b \in B, CanQueue(d, b)
  PROVE  Loads(d, Queue(d, b), b, B)
<1>1. CASE IsMock(d)
  <2>1. d.bytes + 1 \in Nat /\ Queue(d, b) = [Mock!Complete(d) EXCEPT !.bytes = d.bytes + 1]
    BY <1>1 DEF Queue, Mock!Queue, Mock!Complete, DriverOK, MockOK
  <2> QED BY <1>1, <2>1, MockCompletes DEF Loads
<1>2. CASE ~IsMock(d)
  <2> DEFINE e == d.route[b]
             n == d.node[e]
             i == V4L2!Node!FirstFree(n)
             m == [n EXCEPT !.slot[i] = d.nextToken, !.kernel[i] = b, !.device = TRUE]
             d2 == Queue(d, b)
             t == d.nextToken + 1
  <2>1. /\ e \in EventFds(d) /\ n \in NodeSet(B) /\ d.nextToken \in Nat \ {0}
        /\ \A j \in Index : n.slot[j] < d.nextToken
    BY <1>2, NodeOf
  <2>2. /\ b # NoBuffer /\ i \in Index /\ n.slot[i] = 0 /\ n.kernel[i] = NoBuffer
    BY <1>2, FirstFreeIsFree DEF CanQueue, V4L2!CanQueue, V4L2!Node!CanQueue,
       V4L2!NodeFor, V4L2!Node!FreeSlots
  <2>3. d2 = WithNode(d, e, m, t)
    BY <1>2 DEF Queue, V4L2!Queue, V4L2!Node!Queue, DriverOK, V4L2OK, WithNode
  <2> HIDE DEF e, n, i
  <2>4. /\ m \in NodeSet(B) /\ m.slot = [n.slot EXCEPT ![i] = d.nextToken]
        /\ m.kernel = [n.kernel EXCEPT ![i] = b]
        /\ m.device = TRUE /\ m.continuous = n.continuous
    BY <2>1, <2>2 DEF NodeSet
  <2>5. /\ \A j \in Index : /\ m.slot[j] = IF j = i THEN d.nextToken ELSE n.slot[j]
                            /\ m.kernel[j] = IF j = i THEN b ELSE n.kernel[j]
        /\ \A j \in Index : n.slot[j] \in Nat
    BY <2>1, <2>2, <2>4 DEF NodeSet
  <2> HIDE DEF m, d2
  <2>6. \A j \in Index : m.slot[j] < t
    BY <2>1, <2>5
  <2>7. t \in Nat /\ d.nextToken <= t
    BY <2>1
  <2>a. NodeFits(d, m, t, B)
    BY <2>4, <2>6, <2>7 DEF NodeFits
  <2> HIDE DEF t
  <2>8. /\ DriverOK(d2, B) /\ SameConfig(d, d2) /\ d2.nextToken = t
        /\ EventFds(d2) = EventFds(d) /\ d2.node[e] = m
        /\ \A a \in EventFds(d) : a # e => d2.node[a] = d.node[a]
    BY <1>2, <2>1, <2>3, <2>a, WithNodeOK
  <2>9. SetsEntry(d, d2, e, i, d.nextToken, b)
    BY <2>5, <2>8 DEF SetsEntry, Slot, Kernel, n
  <2>10. Slot(d, e, i) = 0 /\ Kernel(d, e, i) = NoBuffer
    BY <2>2 DEF Slot, Kernel, n
  <2>11. KeepsOwed(d, d2)
    BY <1>2, <2>8, <2>9, <2>10, SetsEntryKeeps
  <2>12. Owes(d2, d.nextToken, b)
    BY <1>2, <2>1, <2>2, <2>8, <2>9, OwesIsEntry DEF SetsEntry, SameConfig
  <2>13. \A a \in EventFds(d) : /\ Device(d2, a) = (a = e \/ Device(d, a))
                                /\ Continuous(d2, a) = Continuous(d, a)
    <3>1. \A a \in EventFds(d) : d.node[a].device \in BOOLEAN
      BY <1>2, NodeOf DEF NodeSet
    <3> QED BY <2>4, <2>8, <3>1 DEF Device, Continuous, n
  <2> QED BY <1>2, <2>2, <2>8, <2>9, <2>10, <2>11, <2>12, <2>13 DEF Loads, t, e, d2
<1> QED BY <1>1, <1>2

\* Every way in which a submission can fail is one of the two of LoadFails.
LEMMA QueueFails ==
  ASSUME NEW B, NEW d, DriverOK(d, B), NEW b \in B, NEW d2 \in QueueFailures(d, b)
  PROVE  LoadFails(d, d2, b, B)
<1>1. CASE IsMock(d)
  <2>1. CASE d2 = d
    BY <1>1, <2>1 DEF LoadFails, SameConfig, KeepsOwed
  <2>2. CASE d2 = Mock!Complete(d)
    <3>1. d.bytes \in Nat /\ d2 = [Mock!Complete(d) EXCEPT !.bytes = d.bytes]
      BY <1>1, <2>2 DEF Mock!Complete, DriverOK, MockOK
    <3> QED BY <1>1, <3>1, MockCompletes DEF LoadFails
  <2> QED BY <1>1, <2>1, <2>2 DEF QueueFailures, Mock!QueueFailures
<1>2. CASE ~IsMock(d)
  <2> DEFINE e == d.route[b]
             n == d.node[e]
             i == V4L2!Node!FirstFree(n)
             m == [n EXCEPT !.kernel[i] = b]
  <2>1. /\ e \in EventFds(d) /\ n \in NodeSet(B) /\ d.nextToken \in Nat \ {0}
        /\ \A j \in Index : n.slot[j] < d.nextToken
    BY <1>2, NodeOf
  <2>2. PICK x \in V4L2!Node!QueueFailures(n, b, d.faults) :
          d2 = [d EXCEPT !.node[e] = x.node, !.nextToken = @ + x.drawn]
    BY <1>2 DEF QueueFailures, V4L2!QueueFailures, V4L2!NodeFor
  <2>3. d2 = WithNode(d, e, x.node, d.nextToken + x.drawn)
    BY <2>2, <1>2 DEF WithNode, DriverOK, V4L2OK
  <2>4. \/ x.node = n /\ x.drawn \in {0, 1}
        \/ /\ x.node = m /\ x.drawn = 1 /\ "streamon" \in d.faults /\ ~n.device
           /\ V4L2!Node!CanQueue(n, b)
    BY DEF V4L2!Node!QueueFailures, V4L2!Node!FenceFailure, V4L2!Node!QBufFailure,
           V4L2!Node!StreamOnFailure, V4L2!Node!Failure
  <2> HIDE DEF e, n, m
  <2> DEFINE t == d.nextToken + x.drawn
  <2>5. t \in {d.nextToken, d.nextToken + 1}
    BY <2>1, <2>4
  <2> HIDE DEF t
  <2>6. ASSUME x.node = n PROVE LoadFails(d, d2, b, B)
    <3>1. NodeFits(d, n, t, B)
      <4>1. \A j \in Index : n.slot[j] \in Nat
        BY <2>1 DEF NodeSet
      <4> QED BY <2>1, <2>5, <4>1 DEF NodeFits
    <3>2. d2 = WithNode(d, e, n, t)
      BY <2>3, <2>6 DEF t
    <3>3. /\ DriverOK(d2, B) /\ SameConfig(d, d2) /\ d2.nextToken = t
          /\ EventFds(d2) = EventFds(d) /\ d2.node[e] = n
          /\ \A a \in EventFds(d) : a # e => d2.node[a] = d.node[a]
      BY <1>2, <2>1, <3>1, <3>2, WithNodeOK
    <3>4. \A a \in EventFds(d) : d2.node[a] = d.node[a]
      BY <3>3 DEF n
    <3>5. SameEntries(d, d2) /\ SameFlags(d, d2)
      BY <3>4 DEF SameEntries, SameFlags, Slot, Kernel, Device, Continuous
    <3>6. KeepsOwed(d, d2)
      BY <1>2, <3>3, <3>5, SameEntriesKeep
    <3> QED BY <2>5, <3>3, <3>5, <3>6 DEF LoadFails
  <2>7. ASSUME x.node = m, "streamon" \in d.faults, ~n.device, V4L2!Node!CanQueue(n, b)
        PROVE  LoadFails(d, d2, b, B)
    <3>1. i \in Index /\ n.slot[i] = 0
      BY <2>7, FirstFreeIsFree DEF V4L2!Node!CanQueue, V4L2!Node!FreeSlots
    <3> HIDE DEF i
    <3>2. /\ m \in NodeSet(B) /\ m.slot = n.slot /\ m.device = n.device
          /\ m.continuous = n.continuous
          /\ \A j \in Index : m.kernel[j] = IF j = i THEN b ELSE n.kernel[j]
          /\ \A j \in Index : n.slot[j] \in Nat
      BY <2>1, <3>1 DEF NodeSet, m
    <3>3. NodeFits(d, m, t, B)
      BY <2>1, <2>5, <3>2 DEF NodeFits
    <3>4. d2 = WithNode(d, e, m, t)
      BY <2>3, <2>7 DEF t
    <3>5. /\ DriverOK(d2, B) /\ SameConfig(d, d2) /\ d2.nextToken = t
          /\ EventFds(d2) = EventFds(d) /\ d2.node[e] = m
          /\ \A a \in EventFds(d) : a # e => d2.node[a] = d.node[a]
      BY <1>2, <2>1, <3>3, <3>4, WithNodeOK
    <3>6. SetsEntry(d, d2, e, i, 0, b) /\ SameFlags(d, d2)
      BY <3>1, <3>2, <3>5 DEF SetsEntry, SameFlags, Slot, Kernel, Device, Continuous, n
    <3>7. Slot(d, e, i) = 0 /\ ~Device(d, e)
      BY <2>7, <3>1 DEF Slot, Device, n
    <3>8. KeepsOwed(d, d2)
      BY <1>2, <3>5, <3>6, <3>7, SetsEntryKeeps
    <3> QED BY <2>5, <2>7, <3>1, <3>5, <3>6, <3>7, <3>8 DEF LoadFails, e
  <2> QED BY <2>4, <2>6, <2>7
<1> QED BY <1>1, <1>2

\* return_stream_buffer on a node that streams continuously queues the buffer;
\* on any other it does nothing and answers token 0.
LEMMA ReturnCases ==
  ASSUME NEW B, NEW d, DriverOK(d, B), NEW b \in B, ~IsMock(d)
  PROVE  /\ Continuous(d, d.route[b]) =>
              /\ ReturnedToken(d, b) = d.nextToken
              /\ CanReturn(d, b) => CanQueue(d, b) /\ Return(d, b) = Queue(d, b)
              /\ ReturnFailures(d, b) = QueueFailures(d, b)
         /\ ~Continuous(d, d.route[b]) =>
              /\ ReturnedToken(d, b) = 0 /\ Return(d, b) = d
              /\ ReturnFailures(d, b) = {}
<1> DEFINE e == d.route[b]
           n == d.node[e]
<1>1. V4L2OK(d, B) /\ e \in V4L2!Endpoints(d)
  BY DEF DriverOK, V4L2!Endpoints
<1>2. ASSUME Continuous(d, e)
      PROVE  /\ ReturnedToken(d, b) = d.nextToken
             /\ CanReturn(d, b) => CanQueue(d, b) /\ Return(d, b) = Queue(d, b)
             /\ ReturnFailures(d, b) = QueueFailures(d, b)
  <2>1. V4L2!NodeFor(d, b) = n /\ n.continuous
    BY <1>2 DEF V4L2!NodeFor, Continuous
  <2>2. Return(d, b) = [d EXCEPT !.node[e] = V4L2!Node!Queue(n, b, d.nextToken),
                                 !.nextToken = d.nextToken + 1]
    BY <1>1, <2>1 DEF Return, V4L2!Return, V4L2!Node!Return, V4L2OK
  <2>3. Queue(d, b) = [d EXCEPT !.node[e] = V4L2!Node!Queue(n, b, d.nextToken),
                                !.nextToken = d.nextToken + 1]
    BY <1>1 DEF Queue, V4L2!Queue, V4L2OK
  <2> QED BY <2>1, <2>2, <2>3 DEF ReturnedToken, V4L2!ReturnedToken, CanReturn,
             V4L2!CanReturn, V4L2!Node!CanReturn, CanQueue, V4L2!CanQueue,
             ReturnFailures, V4L2!ReturnFailures, QueueFailures
<1>3. ASSUME ~Continuous(d, e)
      PROVE  /\ ReturnedToken(d, b) = 0 /\ Return(d, b) = d
             /\ ReturnFailures(d, b) = {}
  <2>1. V4L2!NodeFor(d, b) = n /\ ~n.continuous
    BY <1>3 DEF V4L2!NodeFor, Continuous
  <2>2. Return(d, b) = [d EXCEPT !.node[e] = n, !.nextToken = d.nextToken]
    BY <1>1, <2>1 DEF Return, V4L2!Return, V4L2!Node!Return, V4L2OK
  <2>3. [d.node EXCEPT ![e] = n] = d.node
    BY <1>1 DEF V4L2OK
  <2>4. Return(d, b) = [d EXCEPT !.node = d.node, !.nextToken = d.nextToken]
    BY <2>2, <2>3
  <2>5. Return(d, b) = d
    BY <1>1, <2>4 DEF V4L2OK
  <2> QED BY <2>1, <2>5 DEF ReturnedToken, V4L2!ReturnedToken, ReturnFailures,
             V4L2!ReturnFailures
<1> QED BY <1>2, <1>3 DEF e

\* The mock draws a token for a returned buffer and does nothing else.
LEMMA MockReturn ==
  ASSUME NEW B, NEW d, DriverOK(d, B), NEW b \in B, IsMock(d)
  PROVE  LET d2 == Return(d, b) IN
         /\ DriverOK(d2, B) /\ SameConfig(d, d2) /\ d2.nextToken = d.nextToken + 1
         /\ KeepsOwed(d, d2)
         /\ ReturnedToken(d, b) = d.nextToken /\ ReturnFailures(d, b) = {}
<1> DEFINE d2 == Return(d, b)
<1>1. d2 = [d EXCEPT !.nextToken = d.nextToken + 1] /\ MockOK(d)
  BY DEF Return, Mock!Return, DriverOK, MockOK
<1>2. /\ MockOK(d2) /\ d2.kind = d.kind /\ d2.route = d.route /\ d2.faults = d.faults
      /\ d2.nextToken = d.nextToken + 1 /\ d2.completions = d.completions
  <2>1. d.nextToken + 1 \in Nat \ {0}
    BY <1>1 DEF MockOK
  <2> QED BY <1>1, <2>1 DEF MockOK
<1> HIDE DEF d2
<1> QED BY <1>2 DEF DriverOK, SameConfig, KeepsOwed, Owes, Mock!Owes, IsMock,
           ReturnedToken, ReturnFailures, d2

\* A completion taken from endpoint e frees the entry of token x; what is owed
\* under other tokens is still owed.
Unloads(d, d2, e, x, B) ==
  /\ DriverOK(d2, B) /\ SameConfig(d, d2) /\ d2.nextToken = d.nextToken
  /\ x \in Nat
  /\ \A y \in Nat \ {0, x} : \A b : Owes(d, y, b) => Owes(d2, y, b)
  /\ ~IsMock(d) =>
       /\ SameFlags(d, d2)
       /\ \E i \in Index : /\ Slot(d, e, i) = x
                           /\ SetsEntry(d, d2, e, i, 0, NoBuffer)

\* dequeue_completion frees the slot of the index it dequeues and no other.
LEMMA DequeueUnloads ==
  ASSUME NEW B, NEW d, DriverOK(d, B), NEW e \in EventFds(d), CanDequeue(d, e)
  PROVE  Unloads(d, Dequeue(d, e), e, DequeuedToken(d, e), B)
<1> DEFINE d2 == Dequeue(d, e)
           x == DequeuedToken(d, e)
<1>1. CASE IsMock(d)
  <2> DEFINE s == d.completions
  <2>1. MockOK(d) /\ s # <<>> /\ x = Head(s) /\ s \in Seq(Nat)
    BY <1>1 DEF DriverOK, MockOK, CanDequeue, Mock!CanDequeue, DequeuedToken,
                Mock!DequeuedToken
  <2>2. PICK n \in Nat : d2 = [d EXCEPT !.completions = Tail(s), !.bytes = n]
    <3> DEFINE n == IF d.bytes = 0 THEN 0 ELSE d.bytes - 1
    <3>1. n \in Nat
      BY <2>1 DEF MockOK
    <3>2. d2 = [d EXCEPT !.completions = Tail(s), !.bytes = n]
      BY <1>1 DEF Dequeue, Mock!Dequeue
    <3> QED BY <3>1, <3>2
  <2>3. /\ Tail(s) \in Seq(Nat) /\ Head(s) \in Nat /\ Head(s) = s[1]
        /\ DOMAIN s = 1..Len(s) /\ DOMAIN Tail(s) = 1..(Len(s) - 1) /\ Len(s) \in Nat \ {0}
        /\ \A k \in 1..(Len(s) - 1) : Tail(s)[k] = s[k + 1]
    BY <2>1
  <2>4. /\ MockOK(d2) /\ d2.kind = d.kind /\ d2.route = d.route /\ d2.faults = d.faults
        /\ d2.nextToken = d.nextToken /\ d2.completions = Tail(s)
    BY <2>1, <2>2, <2>3 DEF MockOK
  <2> HIDE DEF d2, x
  <2>5. ASSUME NEW y \in Nat \ {0, x}, NEW b, Owes(d, y, b) PROVE Owes(d2, y, b)
    <3>1. PICK k \in 1..Len(s) : s[k] = y
      BY <1>1, <2>3, <2>5 DEF Owes, Mock!Owes
    <3>2. k # 1
      BY <2>1, <2>3, <2>5, <3>1
    <3>3. k - 1 \in 1..(Len(s) - 1) /\ Tail(s)[k - 1] = y
      BY <2>3, <3>1, <3>2
    <3> QED BY <1>1, <2>3, <2>4, <3>3 DEF Owes, Mock!Owes, IsMock
  <2>6. x \in Nat
    BY <2>1, <2>3
  <2> QED BY <1>1, <2>4, <2>5, <2>6 DEF Unloads, DriverOK, SameConfig, IsMock, d2, x
<1>2. CASE ~IsMock(d)
  <2> DEFINE n == d.node[e]
             i == Head(n.done)
             q == Tail(n.done)
             m == [n EXCEPT !.slot[i] = 0, !.kernel[i] = NoBuffer, !.done = q]
             t == d.nextToken
  <2>0. NoBuffer \in B
    BY DEF DriverOK
  <2>1. /\ n \in NodeSet(B) /\ t \in Nat \ {0}
        /\ \A j \in Index : n.slot[j] < t
    BY <1>2, <2>0, NodeOf
  <2>2. n.done # <<>> /\ x = n.slot[i]
    BY <1>2 DEF CanDequeue, V4L2!CanDequeue, V4L2!Node!CanDequeue, DequeuedToken,
       V4L2!DequeuedToken, V4L2!Node!DequeuedToken
  <2>3. i \in Index /\ q \in Seq(Index)
    BY <2>1, <2>2 DEF NodeSet
  <2>4. d2 = WithNode(d, e, m, t)
    <3>1. d2 = [d EXCEPT !.node[e] = m]
      BY <1>2, <2>1 DEF Dequeue, V4L2!Dequeue, V4L2!Node!Dequeue, V4L2!Node!ClearSlot,
         DriverOK, V4L2OK, NodeSet
    <3> HIDE DEF m
    <3> QED BY <3>1, <1>2 DEF WithNode, DriverOK, V4L2OK
  <2> HIDE DEF n, i, q
  <2>5. /\ m \in NodeSet(B) /\ m.device = n.device /\ m.continuous = n.continuous
        /\ \A j \in Index : /\ m.slot[j] = IF j = i THEN 0 ELSE n.slot[j]
                            /\ m.kernel[j] = IF j = i THEN NoBuffer ELSE n.kernel[j]
        /\ \A j \in Index : n.slot[j] \in Nat
    BY <2>0, <2>1, <2>3 DEF NodeSet
  <2> HIDE DEF m, d2, x
  <2>6. NodeFits(d, m, t, B)
    BY <2>1, <2>5 DEF NodeFits
  <2> HIDE DEF t
  <2>7. /\ DriverOK(d2, B) /\ SameConfig(d, d2) /\ d2.nextToken = t
        /\ EventFds(d2) = EventFds(d) /\ d2.node[e] = m
        /\ \A a \in EventFds(d) : a # e => d2.node[a] = d.node[a]
    BY <1>2, <2>4, <2>6, WithNodeOK
  <2>8. SetsEntry(d, d2, e, i, 0, NoBuffer) /\ SameFlags(d, d2)
    BY <2>3, <2>5, <2>7 DEF SetsEntry, SameFlags, Slot, Kernel, Device, Continuous, n
  <2>9. Slot(d, e, i) = x /\ x \in Nat
    BY <2>2, <2>3, <2>5 DEF Slot, n
  <2>10. ASSUME NEW y \in Nat \ {0, x}, NEW b, Owes(d, y, b) PROVE Owes(d2, y, b)
    <3>1. PICK a \in EventFds(d), j \in Index : Slot(d, a, j) = y /\ Kernel(d, a, j) = b
      BY <1>2, <2>10, OwesIsEntry
    <3>2. Slot(d2, a, j) = y /\ Kernel(d2, a, j) = b
      BY <2>8, <2>9, <3>1 DEF SetsEntry
    <3> QED BY <1>2, <2>7, <3>1, <3>2, OwesIsEntry DEF SameConfig
  <2> QED BY <2>3, <2>7, <2>8, <2>9, <2>10 DEF Unloads, t, d2, x
<1> QED BY <1>1, <1>2

\* A buffer the device has filled is still in its slot until it is dequeued.
LEMMA FillQuiet ==
  ASSUME NEW B, NEW d, DriverOK(d, B), NEW e \in EventFds(d), NEW i \in Index,
         CanFill(d, e, i)
  PROVE  Quiet(d, Fill(d, e, i), B)
<1> DEFINE n == d.node[e]
           q == Append(n.done, i)
           m == [n EXCEPT !.done = q]
           t == d.nextToken
           d2 == Fill(d, e, i)
<1>0. ~IsMock(d) /\ NoBuffer \in B
  BY DEF CanFill, DriverOK
<1>1. n \in NodeSet(B) /\ t \in Nat \ {0} /\ \A j \in Index : n.slot[j] < t
  BY <1>0, NodeOf
<1>2. q \in Seq(Index)
  BY <1>1 DEF NodeSet
<1>3. d2 = WithNode(d, e, m, t)
  BY <1>0 DEF Fill, V4L2!Fill, V4L2!Node!Fill, WithNode, DriverOK, V4L2OK
<1> HIDE DEF n, q
<1>4. /\ m \in NodeSet(B) /\ m.device = n.device /\ m.continuous = n.continuous
      /\ m.slot = n.slot /\ m.kernel = n.kernel
  BY <1>1, <1>2 DEF NodeSet
<1> HIDE DEF m, d2
<1>5. NodeFits(d, m, t, B)
  BY <1>1, <1>4 DEF NodeFits
<1> HIDE DEF t
<1>6. /\ DriverOK(d2, B) /\ SameConfig(d, d2) /\ d2.nextToken = t
      /\ EventFds(d2) = EventFds(d) /\ d2.node[e] = m
      /\ \A a \in EventFds(d) : a # e => d2.node[a] = d.node[a]
  BY <1>0, <1>3, <1>5, WithNodeOK
<1>7. SameEntries(d, d2) /\ SameFlags(d, d2)
  BY <1>4, <1>6 DEF SameEntries, SameFlags, Slot, Kernel, Device, Continuous, n
<1>8. KeepsOwed(d, d2)
  BY <1>0, <1>6, <1>7, SameEntriesKeep
<1> QED BY <1>6, <1>7, <1>8 DEF Quiet, t, d2

\* set_continuous_streaming changes the mode of one node and nothing else.
LEMMA SetContinuousSets ==
  ASSUME NEW B, NEW d, DriverOK(d, B), NEW b \in B, NEW on \in BOOLEAN
  PROVE  LET d2 == SetContinuous(d, b, on) IN
         /\ DriverOK(d2, B) /\ SameConfig(d, d2) /\ d2.nextToken = d.nextToken
         /\ KeepsOwed(d, d2)
         /\ ~IsMock(d) =>
              /\ SameEntries(d, d2)
              /\ \A e \in EventFds(d) :
                   /\ Device(d2, e) = Device(d, e)
                   /\ Continuous(d2, e) = IF e = d.route[b] THEN on ELSE Continuous(d, e)
<1> DEFINE d2 == SetContinuous(d, b, on)
<1>1. CASE IsMock(d)
  BY <1>1 DEF SetContinuous, SameConfig, KeepsOwed
<1>2. CASE ~IsMock(d)
  <2> DEFINE e == d.route[b]
             n == d.node[e]
             m == [n EXCEPT !.continuous = on]
             t == d.nextToken
  <2>1. /\ e \in EventFds(d) /\ n \in NodeSet(B) /\ t \in Nat \ {0}
        /\ \A j \in Index : n.slot[j] < t
    BY <1>2, NodeOf
  <2>2. d2 = WithNode(d, e, m, t)
    BY <1>2 DEF SetContinuous, V4L2!SetContinuous, WithNode, DriverOK, V4L2OK
  <2> HIDE DEF e, n
  <2>3. /\ m \in NodeSet(B) /\ m.device = n.device /\ m.continuous = on
        /\ m.slot = n.slot /\ m.kernel = n.kernel
    BY <2>1 DEF NodeSet
  <2> HIDE DEF m, d2
  <2>4. NodeFits(d, m, t, B)
    BY <2>1, <2>3 DEF NodeFits
  <2> HIDE DEF t
  <2>5. /\ DriverOK(d2, B) /\ SameConfig(d, d2) /\ d2.nextToken = t
        /\ EventFds(d2) = EventFds(d) /\ d2.node[e] = m
        /\ \A a \in EventFds(d) : a # e => d2.node[a] = d.node[a]
    BY <1>2, <2>1, <2>2, <2>4, WithNodeOK
  <2>6. /\ SameEntries(d, d2)
        /\ \A a \in EventFds(d) :
             /\ Device(d2, a) = Device(d, a)
             /\ Continuous(d2, a) = IF a = e THEN on ELSE Continuous(d, a)
    BY <2>3, <2>5 DEF SameEntries, Slot, Kernel, Device, Continuous, n
  <2>7. KeepsOwed(d, d2)
    BY <1>2, <2>5, <2>6, SameEntriesKeep
  <2> QED BY <2>5, <2>6, <2>7 DEF t, d2, e
<1> QED BY <1>1, <1>2

\* The device holds a buffer in an entry of the kernel's queue.
LEMMA HeldIsKernel ==
  ASSUME NEW d, NEW b
  PROVE  b \in Held(d) <=>
           /\ ~IsMock(d) /\ b # NoBuffer
           /\ \E e \in EventFds(d) : \E i \in Index : Kernel(d, e, i) = b
  BY DEF Held, V4L2!Held, V4L2!Node!Held, V4L2!Endpoints, EventFds, Kernel
=============================================================================
