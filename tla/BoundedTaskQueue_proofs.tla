---------------------- MODULE BoundedTaskQueue_proofs ----------------------
(***************************************************************************)
(* Proofs about the shard queue, for any number of producers, any capacity *)
(* and any number of pushes.  RingInv is the inductive strengthening: the  *)
(* window head .. head + Capacity - 1 has no two positions on one slot     *)
(* (SlotInjective), so the state of a slot is that of its one position.    *)
(***************************************************************************)
EXTENDS BoundedTaskQueue, TLAPS

-----------------------------------------------------------------------------
(* Positions and slots: what i % capacity_ does to a window of positions.   *)

\* Euclidean division, in the form the provers can use for a symbolic divisor.
LEMMA Division ==
  ASSUME NEW c \in Nat \ {0}, NEW a \in Nat
  PROVE  /\ a % c \in 0..(c - 1)
         /\ a \div c \in Nat
         /\ a = c * (a \div c) + (a % c)
<1>1. a % c \in 0..(c - 1)
  BY SMT
<1>2. a \div c \in Nat
  BY SMT
<1>3. a = c * (a \div c) + (a % c)
  BY SMT
<1>4. QED
  BY <1>1, <1>2, <1>3

\* Multiples of c differ by at least c.
LEMMA MultiplesApart ==
  ASSUME NEW c \in Nat \ {0}, NEW x \in Nat, NEW y \in Nat, x < y
  PROVE  c * x \in Nat /\ c * y \in Nat /\ c * y >= c * x + c
<1>1. c * y >= c * x + c
  BY SMT
<1>2. c * x \in Nat /\ c * y \in Nat
  BY SMT
<1>3. QED
  BY <1>1, <1>2

\* Every position has a slot.
LEMMA SlotType == \A i \in Nat : Slot(i) \in Slots
  BY Division, CapacityAssumption DEF Slot, Slots

\* Two positions less than capacity_ apart never share a slot.
LEMMA SlotInjective ==
  \A a, b \in Nat : a < b /\ b < a + Capacity => Slot(a) # Slot(b)
<1> SUFFICES ASSUME NEW a \in Nat, NEW b \in Nat, a < b, b < a + Capacity,
                    a % Capacity = b % Capacity
             PROVE  FALSE
  BY DEF Slot
<1> DEFINE x == a \div Capacity
           y == b \div Capacity
           r == a % Capacity
<1>1. x \in Nat /\ y \in Nat /\ r \in 0..(Capacity - 1)
  BY Division, CapacityAssumption
<1>2. a = Capacity * x + r /\ b = Capacity * y + r
  BY Division, CapacityAssumption
<1> HIDE DEF x, y, r
<1>3. CASE x < y
  <2>1. /\ Capacity * x \in Nat /\ Capacity * y \in Nat
        /\ Capacity * y >= Capacity * x + Capacity
    BY <1>1, <1>3, MultiplesApart, CapacityAssumption
  <2>2. QED
    BY <1>1, <1>2, <2>1, CapacityAssumption
<1>4. CASE y < x
  <2>1. /\ Capacity * x \in Nat /\ Capacity * y \in Nat
        /\ Capacity * x >= Capacity * y + Capacity
    BY <1>1, <1>4, MultiplesApart, CapacityAssumption
  <2>2. QED
    BY <1>1, <1>2, <2>1, CapacityAssumption
<1>5. CASE x = y
  BY <1>1, <1>2, <1>5
<1>6. QED
  BY <1>1, <1>3, <1>4, <1>5

\* A position and the one a generation later use the same slot: sequences_
\* may hand the slot over by storing current_head + capacity_.
LEMMA SlotNextGeneration == \A i \in Nat : Slot(i + Capacity) = Slot(i)
<1> SUFFICES ASSUME NEW i \in Nat
             PROVE  (i + Capacity) % Capacity = i % Capacity
  BY DEF Slot
<1> DEFINE x == i \div Capacity
           r == i % Capacity
<1>1. x \in Nat /\ r \in 0..(Capacity - 1) /\ i = Capacity * x + r
  BY Division, CapacityAssumption
<1>2. (Capacity * (x + 1) + r) % Capacity = r
  <2> HIDE DEF x, r
  <2>1. \A c \in Nat \ {0}, q \in Nat, s \in Nat : s < c => (c * q + s) % c = s
    BY SMT
  <2>2. QED
    BY <1>1, <2>1, CapacityAssumption
<1>3. i + Capacity = Capacity * (x + 1) + r
  <2> HIDE DEF x, r
  <2>1. Capacity * (x + 1) = Capacity * x + Capacity /\ Capacity * x \in Nat
    BY <1>1, CapacityAssumption
  <2>2. QED
    BY <1>1, <2>1, CapacityAssumption
<1>4. QED
  BY <1>2, <1>3

\* The slots of the first window, in the order reset numbers them.
LEMMA SlotOfSmall == \A i \in Slots : i \in Nat /\ Slot(i) = i
  BY CapacityAssumption DEF Slot, Slots

-----------------------------------------------------------------------------
(* Type correctness.  It is not inductive alone: that the worker pops a task *)
(* and not the null left in a slot is what WorkerInv says.                   *)

\* The initial state is well typed and every slot is free.
LEMMA InitInv == Init => TypeOK /\ RingInv
<1> SUFFICES ASSUME Init PROVE TypeOK /\ RingInv
  OBVIOUS
<1>1. TypeOK
  <2>1. sequences \in [Slots -> Nat]
    BY CapacityAssumption DEF Init, Slots
  <2>2. <<>> \in Seq(Task)
    OBVIOUS
  <2>3. ring \in [Slots -> Task \cup {NoTask}]
    BY DEF Init
  <2>4. /\ ptail \in [Producers -> Nat]
        /\ pushed \in [Producers -> 0..MaxTasks]
        /\ sawFull \in [Producers -> BOOLEAN]
    BY BoundAssumption DEF Init
  <2>5. QED
    BY <2>1, <2>2, <2>3, <2>4 DEF Init, TypeOK
<1>2. Window /\ ClaimsInv /\ PublishedInv /\ WorkerInv
  BY CapacityAssumption
     DEF Init, Window, ClaimsInv, PublishedInv, WorkerInv, Claiming
<1>3. FreeInv
  BY SlotOfSmall, CapacityAssumption DEF Init, FreeInv, Slots
<1>4. QED
  BY <1>1, <1>2, <1>3 DEF RingInv

\* Every step leaves every variable in its type.
LEMMA TypeStep == TypeOK /\ RingInv /\ [Next]_vars => TypeOK'
<1> SUFFICES ASSUME TypeOK, RingInv, [Next]_vars PROVE TypeOK'
  OBVIOUS
<1> USE CapacityAssumption, BoundAssumption DEF TypeOK
<1>1. ASSUME NEW p \in Producers, Call(p) PROVE TypeOK'
  BY <1>1 DEF Call, Task, queueVars
<1>2. ASSUME NEW p \in Producers, PushStep(p) PROVE TypeOK'
  <2>1. CASE CheckStopped(p)
    BY <2>1 DEF CheckStopped, Reject, queueVars, historyVars
  <2>2. CASE LoadTail(p)
    BY <2>2 DEF LoadTail, queueVars, historyVars
  <2>3. CASE LoadHead(p)
    BY <2>3 DEF LoadHead, Reject, queueVars, historyVars
  <2>4. CASE CasSucceeds(p)
    <3>1. ptask[p] \in Task
      BY <2>4 DEF CasSucceeds, RingInv, ClaimsInv
    <3>2. QED
      BY <2>4, <3>1 DEF CasSucceeds
  <2>5. CASE CasFails(p) \/ AwaitSlot(p)
    BY <2>5 DEF CasFails, AwaitSlot, queueVars, historyVars
  <2>6. CASE WriteSlot(p)
    BY <2>6 DEF WriteSlot, historyVars
  <2>7. CASE Publish(p)
    <3>1. ptail[p] + 1 \in Nat
      OBVIOUS
    <3>2. sequences' \in [Slots -> Nat]
      BY <2>7, <3>1 DEF Publish
    <3>3. QED
      BY <2>7, <3>2 DEF Publish, historyVars
  <2>8. CASE Notify(p)
    <3>1. ptask[p] \in Task
      BY <2>8 DEF Notify, RingInv, ClaimsInv
    <3>2. QED
      BY <2>8, <3>1 DEF Notify, Wake, queueVars
  <2>9. QED
    BY <1>2, <2>1, <2>2, <2>3, <2>4, <2>5, <2>6, <2>7, <2>8 DEF PushStep
<1>3. CASE WorkerStep \/ SpuriousWake
  <2>1. CASE Take
    BY <2>1, SlotType DEF Take, producerVars, historyVars
  <2>2. CASE FreeSlot
    <3>1. head + Capacity \in Nat
      OBVIOUS
    <3>2. sequences' \in [Slots -> Nat]
      BY <2>2, <3>1 DEF FreeSlot
    <3>3. QED
      BY <2>2, <3>2 DEF FreeSlot, producerVars, historyVars
  <2>3. CASE Advance
    <3>1. out \in Task
      BY <2>3 DEF Advance, RingInv, WorkerInv, Window
    <3>2. QED
      BY <2>3, <3>1 DEF Advance, producerVars
  <2>4. CASE RunTask
    BY <2>4 DEF RunTask, queueVars, producerVars, historyVars
  <2>5. CASE \/ TryPop \/ StopCheck \/ EmptyCheck \/ PredAvailable
             \/ PredStopped \/ PredEmpty \/ Sleep \/ SpuriousWake
    BY <2>5 DEF TryPop, StopCheck, EmptyCheck, PredAvailable, PredStopped,
                PredEmpty, Sleep, SpuriousWake, Goto, queueVars, producerVars,
                historyVars
  <2>6. QED
    BY <1>3, <2>1, <2>2, <2>3, <2>4, <2>5 DEF WorkerStep
<1>4. CASE StopStore
  BY <1>4 DEF StopStore, producerVars, historyVars
<1>5. CASE StopNotify
  BY <1>5 DEF StopNotify, Wake, queueVars, producerVars, historyVars
<1>6. CASE Restart
  <2>1. sequences' \in [Slots -> Nat]
    BY <1>6 DEF Restart, Reset, Slots
  <2>2. <<>> \in Seq(Task)
    OBVIOUS
  <2>3. ring' \in [Slots -> Task \cup {NoTask}]
    BY <1>6 DEF Restart, Reset
  <2>4. QED
    BY <1>6, <2>1, <2>2, <2>3 DEF Restart, Reset, producerVars
<1>7. CASE UNCHANGED vars
  BY <1>7 DEF vars, queueVars, producerVars, historyVars
<1>8. QED
  BY <1>1, <1>2, <1>3, <1>4, <1>5, <1>6, <1>7 DEF Next

-----------------------------------------------------------------------------
(* RingInv is inductive.  One lemma per group of steps.                     *)

\* No two positions of the window share a slot.
LEMMA WindowDistinct ==
  ASSUME TypeOK, NEW a \in head..(head + Capacity - 1),
                 NEW b \in head..(head + Capacity - 1), a # b
  PROVE  Slot(a) \in Slots /\ Slot(b) \in Slots /\ Slot(a) # Slot(b)
<1>1. head \in Nat /\ a \in Nat /\ b \in Nat
  BY CapacityAssumption DEF TypeOK
<1>2. (a < b /\ b < a + Capacity) \/ (b < a /\ a < b + Capacity)
  BY <1>1, CapacityAssumption
<1>3. QED
  BY <1>1, <1>2, SlotType, SlotInjective

\* Steps of push before the compare-exchange, and after the publication, touch
\* neither the ring nor the claims.
LEMMA QuietPushStep ==
  ASSUME TypeOK, RingInv, NEW p \in Producers,
         \/ Call(p) \/ CheckStopped(p) \/ LoadTail(p) \/ LoadHead(p)
         \/ CasFails(p) \/ AwaitSlot(p) \/ Notify(p)
  PROVE  RingInv'
<1> USE CapacityAssumption DEF TypeOK, Claiming
<1>1. UNCHANGED <<head, tail, sequences, ring, claimed, out>>
  BY DEF Call, CheckStopped, LoadTail, LoadHead, CasFails, AwaitSlot, Notify,
         queueVars, historyVars
<1>2. /\ \A q \in Producers \ {p} : ppc'[q] = ppc[q] /\ ptail'[q] = ptail[q]
                                    /\ ptask'[q] = ptask[q]
      /\ ppc'[p] \in Claiming <=> ppc[p] \in Claiming
      /\ ppc[p] \in Claiming => ptail'[p] = ptail[p] /\ ptask'[p] = ptask[p]
                                /\ ppc[p] # "publish" /\ ppc'[p] # "publish"
  BY DEF Call, CheckStopped, LoadTail, LoadHead, CasFails, AwaitSlot, Notify,
         Reject, queueVars, historyVars
<1>3. ppc'[p] # "idle" => ptask'[p] \in Task
  <2>1. CASE Call(p)
    BY <2>1, BoundAssumption DEF Call, Task
  <2>2. CASE ~Call(p)
    BY <2>2
       DEF CheckStopped, LoadTail, LoadHead, CasFails, AwaitSlot, Notify, Reject,
           RingInv, ClaimsInv
  <2>3. QED
    BY <2>1, <2>2
<1>4. ppc'[p] = "cas" => ptail'[p] < head + Capacity
  BY BoundAssumption
     DEF Call, CheckStopped, LoadTail, LoadHead, CasFails, AwaitSlot, Notify,
         Reject, SeesFull, Sub, queueVars, historyVars
<1>5. cpc' \in {"take", "free", "advance"} => cpc' = cpc
  BY DEF Call, CheckStopped, LoadTail, LoadHead, CasFails, AwaitSlot, Notify,
         Wake, queueVars, historyVars
<1>6. cpc \in {"free", "advance"} => cpc' = cpc
  BY DEF Call, CheckStopped, LoadTail, LoadHead, CasFails, AwaitSlot, Notify,
         Wake, queueVars, historyVars
<1>7. \A i : Owned(i)' <=> Owned(i)
  BY <1>2 DEF Owned
<1>8. Window' /\ FreeInv'
  BY <1>1 DEF RingInv, Window, FreeInv
<1>9. ClaimsInv'
  <2> SUFFICES ASSUME NEW q \in Producers
               PROVE  ClaimsInv!(q)'
    BY DEF ClaimsInv
  <2>1. CASE q = p
    BY <2>1, <1>1, <1>2, <1>3, <1>4 DEF RingInv, ClaimsInv
  <2>2. CASE q # p
    <3>1. ppc'[q] = ppc[q] /\ ptail'[q] = ptail[q] /\ ptask'[q] = ptask[q]
      BY <2>2, <1>2
    <3>2. \A r \in Producers : ppc'[r] \in Claiming =>
             ppc[r] \in Claiming /\ ptail'[r] = ptail[r]
      BY <1>2
    <3>3. QED
      BY <1>1, <3>1, <3>2 DEF RingInv, ClaimsInv
  <2>3. QED
    BY <2>1, <2>2
<1>10. PublishedInv'
  BY <1>1, <1>6, <1>7 DEF RingInv, PublishedInv
<1>11. WorkerInv'
  BY <1>1, <1>5, <1>7 DEF RingInv, WorkerInv
<1>12. QED
  BY <1>8, <1>9, <1>10, <1>11 DEF RingInv

\* A successful compare-exchange turns the free position tail into a claim:
\* the tail it compared with was below the window's end when it was tested,
\* and head only grows.
LEMMA CasStep ==
  ASSUME TypeOK, RingInv, NEW p \in Producers, CasSucceeds(p)
  PROVE  RingInv'
<1> USE CapacityAssumption DEF TypeOK, Claiming
<1>1. /\ tail' = tail + 1 /\ ptail' = ptail /\ ptask' = ptask
      /\ UNCHANGED <<head, sequences, ring, cpc, out>>
      /\ ppc' = [ppc EXCEPT ![p] = "slot"] /\ ppc[p] = "cas"
      /\ ptail[p] = tail /\ claimed' = Append(claimed, ptask[p])
  BY DEF CasSucceeds
<1>2. ptail[p] < head + Capacity /\ ptask[p] \in Task
  BY <1>1 DEF RingInv, ClaimsInv
<1>3. /\ Len(claimed') = tail + 1 /\ claimed'[tail + 1] = ptask[p]
      /\ \A i \in 1..tail : claimed'[i] = claimed[i]
  BY <1>1, <1>2 DEF RingInv, Window
<1>4. sequences[Slot(tail)] = tail /\ ring[Slot(tail)] = NoTask
  BY <1>1, <1>2 DEF RingInv, FreeInv, Window
<1>5. \A i : Owned(i)' <=> Owned(i) \/ i = tail
  BY <1>1 DEF Owned
<1>6. Window'
  BY <1>1, <1>2, <1>3 DEF RingInv, Window
<1>7. ClaimsInv'
  <2> SUFFICES ASSUME NEW q \in Producers
               PROVE  ClaimsInv!(q)'
    BY DEF ClaimsInv
  <2>1. CASE q = p
    BY <2>1, <1>1, <1>2, <1>3, <1>4 DEF RingInv, ClaimsInv, Window
  <2>2. CASE q # p
    BY <2>2, <1>1, <1>3 DEF RingInv, ClaimsInv, Window
  <2>3. QED
    BY <2>1, <2>2
<1>8. PublishedInv'
  BY <1>1, <1>3, <1>5 DEF RingInv, PublishedInv, Window
<1>9. FreeInv'
  BY <1>1 DEF RingInv, FreeInv, Window
<1>10. WorkerInv'
  BY <1>1, <1>3, <1>5 DEF RingInv, WorkerInv, Window
<1>11. QED
  BY <1>6, <1>7, <1>8, <1>9, <1>10 DEF RingInv

\* Writing the task touches only the slot of the producer's own position.
LEMMA WriteStep ==
  ASSUME TypeOK, RingInv, NEW p \in Producers, WriteSlot(p)
  PROVE  RingInv'
<1> USE CapacityAssumption DEF TypeOK, Claiming
<1>1. /\ UNCHANGED <<head, tail, sequences, ptail, ptask, claimed, cpc, out>>
      /\ ring' = [ring EXCEPT ![Slot(ptail[p])] = ptask[p]]
      /\ ppc' = [ppc EXCEPT ![p] = "publish"] /\ ppc[p] = "write"
  BY DEF WriteSlot, historyVars
<1>2. head <= ptail[p] /\ ptail[p] < tail /\ tail <= head + Capacity
  BY <1>1 DEF RingInv, ClaimsInv, Window
<1>3. ring'[Slot(ptail[p])] = ptask[p]
  BY <1>1, SlotType
<1>4. \A i \in head..(head + Capacity - 1) :
        i # ptail[p] => ring'[Slot(i)] = ring[Slot(i)]
  <2> SUFFICES ASSUME NEW i \in head..(head + Capacity - 1), i # ptail[p]
               PROVE  ring'[Slot(i)] = ring[Slot(i)]
    OBVIOUS
  <2>1. ptail[p] \in head..(head + Capacity - 1)
    BY <1>2
  <2>2. Slot(i) \in Slots /\ Slot(i) # Slot(ptail[p])
    BY <2>1, WindowDistinct
  <2>3. QED
    BY <1>1, <2>2
<1>5. \A i : Owned(i)' <=> Owned(i)
  BY <1>1 DEF Owned
<1>6. Window'
  BY <1>1 DEF RingInv, Window
<1>7. ClaimsInv'
  <2> SUFFICES ASSUME NEW q \in Producers
               PROVE  ClaimsInv!(q)'
    BY DEF ClaimsInv
  <2>1. CASE q = p
    BY <2>1, <1>1, <1>3 DEF RingInv, ClaimsInv
  <2>2. CASE q # p
    BY <2>2, <1>1, <1>2, <1>4 DEF RingInv, ClaimsInv
  <2>3. QED
    BY <2>1, <2>2
<1>8. PublishedInv'
  <2>1. Owned(ptail[p])
    BY <1>1 DEF Owned
  <2>2. SUFFICES ASSUME NEW i \in head..(tail - 1), ~Owned(i),
                        ~(i = head /\ cpc \in {"free", "advance"})
                 PROVE  /\ sequences[Slot(i)] = i + 1
                        /\ ring'[Slot(i)] = claimed[i + 1]
    BY <1>1, <1>5 DEF PublishedInv
  <2>3. i \in head..(head + Capacity - 1) /\ i # ptail[p]
    BY <1>2, <2>1, <2>2
  <2>4. QED
    BY <1>4, <2>2, <2>3 DEF RingInv, PublishedInv
<1>9. FreeInv'
  <2>1. SUFFICES ASSUME NEW i \in tail..(head + Capacity - 1)
                 PROVE  sequences[Slot(i)] = i /\ ring'[Slot(i)] = NoTask
    BY <1>1 DEF FreeInv
  <2>2. i \in head..(head + Capacity - 1) /\ i # ptail[p]
    BY <1>2
  <2>3. QED
    BY <1>4, <2>2 DEF RingInv, FreeInv
<1>10. WorkerInv'
  <2>1. Owned(ptail[p])
    BY <1>1 DEF Owned
  <2>2. cpc \in {"free", "advance"} => ring'[Slot(head)] = ring[Slot(head)]
    <3>1. head \in head..(head + Capacity - 1)
      OBVIOUS
    <3>2. QED
      BY <1>4, <2>1, <3>1 DEF RingInv, WorkerInv
  <2>3. QED
    BY <1>1, <1>5, <2>2 DEF RingInv, WorkerInv
<1>11. QED
  BY <1>6, <1>7, <1>8, <1>9, <1>10 DEF RingInv

\* Publishing turns the claim into a published position.
LEMMA PublishStep ==
  ASSUME TypeOK, RingInv, NEW p \in Producers, Publish(p)
  PROVE  RingInv'
<1> USE CapacityAssumption DEF TypeOK, Claiming
<1>1. /\ UNCHANGED <<head, tail, ring, ptail, ptask, claimed, cpc, out>>
      /\ sequences' = [sequences EXCEPT ![Slot(ptail[p])] = ptail[p] + 1]
      /\ ppc' = [ppc EXCEPT ![p] = "notify"] /\ ppc[p] = "publish"
  BY DEF Publish, historyVars
<1>2. /\ head <= ptail[p] /\ ptail[p] < tail /\ tail <= head + Capacity
      /\ ring[Slot(ptail[p])] = claimed[ptail[p] + 1]
      /\ \A q \in Producers \ {p} : ppc[q] \in Claiming => ptail[q] # ptail[p]
  BY <1>1 DEF RingInv, ClaimsInv, Window
<1>3. sequences'[Slot(ptail[p])] = ptail[p] + 1
  BY <1>1, SlotType
<1>4. \A i \in head..(head + Capacity - 1) :
        i # ptail[p] => sequences'[Slot(i)] = sequences[Slot(i)]
  <2> SUFFICES ASSUME NEW i \in head..(head + Capacity - 1), i # ptail[p]
               PROVE  sequences'[Slot(i)] = sequences[Slot(i)]
    OBVIOUS
  <2>1. ptail[p] \in head..(head + Capacity - 1)
    BY <1>2
  <2>2. Slot(i) \in Slots /\ Slot(i) # Slot(ptail[p])
    BY <2>1, WindowDistinct
  <2>3. QED
    BY <1>1, <2>2
<1>5. \A i : Owned(i)' <=> Owned(i) /\ i # ptail[p]
  BY <1>1, <1>2 DEF Owned
<1>6. Owned(ptail[p])
  BY <1>1 DEF Owned
<1>7. Window'
  BY <1>1 DEF RingInv, Window
<1>8. ClaimsInv'
  <2> SUFFICES ASSUME NEW q \in Producers
               PROVE  ClaimsInv!(q)'
    BY DEF ClaimsInv
  <2>1. CASE q = p
    BY <2>1, <1>1 DEF RingInv, ClaimsInv
  <2>2. CASE q # p
    BY <2>2, <1>1, <1>2, <1>4 DEF RingInv, ClaimsInv
  <2>3. QED
    BY <2>1, <2>2
<1>9. PublishedInv'
  <2>1. SUFFICES ASSUME NEW i \in head..(tail - 1), ~Owned(i) \/ i = ptail[p],
                        ~(i = head /\ cpc \in {"free", "advance"})
                 PROVE  /\ sequences'[Slot(i)] = i + 1
                        /\ ring[Slot(i)] = claimed[i + 1]
    BY <1>1, <1>5 DEF PublishedInv
  <2>2. CASE i = ptail[p]
    BY <1>2, <1>3, <2>2
  <2>3. CASE i # ptail[p]
    <3>1. i \in head..(head + Capacity - 1)
      BY <1>2
    <3>2. QED
      BY <1>4, <2>1, <2>3, <3>1 DEF RingInv, PublishedInv
  <2>4. QED
    BY <2>2, <2>3
<1>10. FreeInv'
  <2>1. SUFFICES ASSUME NEW i \in tail..(head + Capacity - 1)
                 PROVE  sequences'[Slot(i)] = i /\ ring[Slot(i)] = NoTask
    BY <1>1 DEF FreeInv
  <2>2. i \in head..(head + Capacity - 1) /\ i # ptail[p]
    BY <1>2
  <2>3. QED
    BY <1>4, <2>2 DEF RingInv, FreeInv
<1>11. WorkerInv'
  <2>1. cpc = "advance" => sequences'[Slot(head)] = sequences[Slot(head)]
    <3>1. head \in head..(head + Capacity - 1)
      OBVIOUS
    <3>2. QED
      BY <1>4, <1>6, <3>1 DEF RingInv, WorkerInv
  <2>2. QED
    BY <1>1, <1>5, <2>1 DEF RingInv, WorkerInv
<1>12. QED
  BY <1>7, <1>8, <1>9, <1>10, <1>11 DEF RingInv

\* Tests and sleeps of the worker change nothing but its program counter; it
\* goes on to take a task only from a published position.
LEMMA QuietWorkerStep ==
  ASSUME TypeOK, RingInv,
         \/ TryPop \/ RunTask \/ StopCheck \/ EmptyCheck \/ PredAvailable
         \/ PredStopped \/ PredEmpty \/ Sleep \/ SpuriousWake
         \/ StopStore \/ StopNotify
  PROVE  RingInv'
<1> USE CapacityAssumption DEF TypeOK
<1>1. UNCHANGED <<head, tail, sequences, ring, claimed, ppc, ptail, ptask>>
  BY DEF TryPop, RunTask, StopCheck, EmptyCheck, PredAvailable, PredStopped,
         PredEmpty, Sleep, SpuriousWake, StopStore, StopNotify, Goto, queueVars,
         producerVars, historyVars
<1>2. /\ cpc' \in {"free", "advance"} => cpc' = cpc /\ out' = out
      /\ cpc \in {"free", "advance"} => cpc' = cpc
      /\ cpc' = "take" /\ cpc # "take" => HasAvailableTask
  BY DEF TryPop, RunTask, StopCheck, EmptyCheck, PredAvailable, PredStopped,
         PredEmpty, Sleep, SpuriousWake, StopStore, StopNotify, Goto, Wake,
         producerVars, historyVars
<1>3. \A i : Owned(i)' <=> Owned(i)
  BY <1>1 DEF Owned
<1>4. HasAvailableTask => head < tail /\ ~Owned(head)
  <2>1. ASSUME HasAvailableTask, ~(head < tail) PROVE FALSE
    <3>1. head \in tail..(head + Capacity - 1)
      BY <2>1 DEF RingInv, Window
    <3>2. QED
      BY <2>1, <3>1 DEF RingInv, FreeInv, HasAvailableTask
  <2>2. ASSUME HasAvailableTask, Owned(head) PROVE FALSE
    BY <2>2 DEF RingInv, ClaimsInv, HasAvailableTask, Owned
  <2>3. QED
    BY <2>1, <2>2
<1>5. Window' /\ FreeInv'
  BY <1>1 DEF RingInv, Window, FreeInv
<1>6. ClaimsInv'
  BY <1>1 DEF RingInv, ClaimsInv
<1>7. PublishedInv'
  BY <1>1, <1>2, <1>3 DEF RingInv, PublishedInv
<1>8. WorkerInv'
  BY <1>1, <1>2, <1>3, <1>4 DEF RingInv, WorkerInv
<1>9. QED
  BY <1>5, <1>6, <1>7, <1>8 DEF RingInv

\* Taking the task empties the slot of the oldest position only.
LEMMA TakeStep ==
  ASSUME TypeOK, RingInv, Take
  PROVE  RingInv'
<1> USE CapacityAssumption DEF TypeOK
<1>1. /\ UNCHANGED <<head, tail, sequences, claimed, ppc, ptail, ptask>>
      /\ ring' = [ring EXCEPT ![Slot(head)] = NoTask] /\ out' = ring[Slot(head)]
      /\ cpc = "take" /\ cpc' = "free"
  BY DEF Take, producerVars, historyVars
<1>2. head < tail /\ tail <= head + Capacity /\ ~Owned(head)
  BY <1>1 DEF RingInv, WorkerInv, Window
<1>3. ring[Slot(head)] = claimed[head + 1]
  <2>1. head \in head..(tail - 1)
    BY <1>2
  <2>2. QED
    BY <1>1, <1>2, <2>1 DEF RingInv, PublishedInv
<1>4. ring'[Slot(head)] = NoTask
  BY <1>1, SlotType
<1>5. \A i \in head..(head + Capacity - 1) :
        i # head => ring'[Slot(i)] = ring[Slot(i)]
  <2> SUFFICES ASSUME NEW i \in head..(head + Capacity - 1), i # head
               PROVE  ring'[Slot(i)] = ring[Slot(i)]
    OBVIOUS
  <2>1. head \in head..(head + Capacity - 1)
    OBVIOUS
  <2>2. Slot(i) \in Slots /\ Slot(i) # Slot(head)
    BY <2>1, WindowDistinct
  <2>3. QED
    BY <1>1, <2>2
<1>6. \A i : Owned(i)' <=> Owned(i)
  BY <1>1 DEF Owned
<1>7. Window'
  BY <1>1 DEF RingInv, Window
<1>8. ClaimsInv'
  <2> SUFFICES ASSUME NEW q \in Producers
               PROVE  ClaimsInv!(q)'
    BY DEF ClaimsInv
  <2>1. ppc[q] \in Claiming =>
          ptail[q] \in head..(head + Capacity - 1) /\ ptail[q] # head
    BY <1>2 DEF RingInv, ClaimsInv, Owned
  <2>2. QED
    BY <1>1, <1>5, <2>1 DEF RingInv, ClaimsInv
<1>9. PublishedInv'
  <2>1. SUFFICES ASSUME NEW i \in head..(tail - 1), ~Owned(i), i # head
                 PROVE  /\ sequences[Slot(i)] = i + 1
                        /\ ring'[Slot(i)] = claimed[i + 1]
    BY <1>1, <1>6 DEF PublishedInv
  <2>2. i \in head..(head + Capacity - 1)
    BY <1>2
  <2>3. QED
    BY <1>5, <2>1, <2>2 DEF RingInv, PublishedInv
<1>10. FreeInv'
  <2>1. SUFFICES ASSUME NEW i \in tail..(head + Capacity - 1)
                 PROVE  sequences[Slot(i)] = i /\ ring'[Slot(i)] = NoTask
    BY <1>1 DEF FreeInv
  <2>2. i \in head..(head + Capacity - 1) /\ i # head
    BY <1>2
  <2>3. QED
    BY <1>5, <2>2 DEF RingInv, FreeInv
<1>11. WorkerInv'
  BY <1>1, <1>2, <1>3, <1>4, <1>6 DEF WorkerInv
<1>12. QED
  BY <1>7, <1>8, <1>9, <1>10, <1>11 DEF RingInv

\* Releasing the slot writes the sequence of the oldest position only.
LEMMA FreeStep ==
  ASSUME TypeOK, RingInv, FreeSlot
  PROVE  RingInv'
<1> USE CapacityAssumption DEF TypeOK
<1>1. /\ UNCHANGED <<head, tail, ring, claimed, ppc, ptail, ptask, out>>
      /\ sequences' = [sequences EXCEPT ![Slot(head)] = head + Capacity]
      /\ cpc = "free" /\ cpc' = "advance"
  BY DEF FreeSlot, producerVars, historyVars
<1>2. head < tail /\ tail <= head + Capacity /\ ~Owned(head)
  BY <1>1 DEF RingInv, WorkerInv, Window
<1>3. sequences'[Slot(head)] = head + Capacity
  BY <1>1, SlotType
<1>4. \A i \in head..(head + Capacity - 1) :
        i # head => sequences'[Slot(i)] = sequences[Slot(i)]
  <2> SUFFICES ASSUME NEW i \in head..(head + Capacity - 1), i # head
               PROVE  sequences'[Slot(i)] = sequences[Slot(i)]
    OBVIOUS
  <2>1. head \in head..(head + Capacity - 1)
    OBVIOUS
  <2>2. Slot(i) \in Slots /\ Slot(i) # Slot(head)
    BY <2>1, WindowDistinct
  <2>3. QED
    BY <1>1, <2>2
<1>5. \A i : Owned(i)' <=> Owned(i)
  BY <1>1 DEF Owned
<1>6. Window'
  BY <1>1 DEF RingInv, Window
<1>7. ClaimsInv'
  <2> SUFFICES ASSUME NEW q \in Producers
               PROVE  ClaimsInv!(q)'
    BY DEF ClaimsInv
  <2>1. ppc[q] \in Claiming =>
          ptail[q] \in head..(head + Capacity - 1) /\ ptail[q] # head
    BY <1>2 DEF RingInv, ClaimsInv, Owned
  <2>2. QED
    BY <1>1, <1>4, <2>1 DEF RingInv, ClaimsInv
<1>8. PublishedInv'
  <2>1. SUFFICES ASSUME NEW i \in head..(tail - 1), ~Owned(i), i # head
                 PROVE  /\ sequences'[Slot(i)] = i + 1
                        /\ ring[Slot(i)] = claimed[i + 1]
    BY <1>1, <1>5 DEF PublishedInv
  <2>2. i \in head..(head + Capacity - 1)
    BY <1>2
  <2>3. QED
    BY <1>4, <2>1, <2>2 DEF RingInv, PublishedInv
<1>9. FreeInv'
  <2>1. SUFFICES ASSUME NEW i \in tail..(head + Capacity - 1)
                 PROVE  sequences'[Slot(i)] = i /\ ring[Slot(i)] = NoTask
    BY <1>1 DEF FreeInv
  <2>2. i \in head..(head + Capacity - 1) /\ i # head
    BY <1>2
  <2>3. QED
    BY <1>4, <2>2 DEF RingInv, FreeInv
<1>10. WorkerInv'
  BY <1>1, <1>2, <1>3, <1>5 DEF RingInv, WorkerInv
<1>11. QED
  BY <1>6, <1>7, <1>8, <1>9, <1>10 DEF RingInv

\* Advancing head moves the window: the released slot re-enters it at the far
\* end, already carrying the sequence of its next generation.
LEMMA AdvanceStep ==
  ASSUME TypeOK, RingInv, Advance
  PROVE  RingInv'
<1> USE CapacityAssumption DEF TypeOK
<1>1. /\ UNCHANGED <<tail, sequences, ring, claimed, ppc, ptail, ptask, out>>
      /\ head' = head + 1 /\ cpc = "advance" /\ cpc' = "run"
  BY DEF Advance, producerVars
<1>2. /\ head < tail /\ tail <= head + Capacity /\ ~Owned(head)
      /\ sequences[Slot(head)] = head + Capacity /\ ring[Slot(head)] = NoTask
  BY <1>1 DEF RingInv, WorkerInv, Window
<1>3. \A i : Owned(i)' <=> Owned(i)
  BY <1>1 DEF Owned
<1>4. Window' /\ WorkerInv'
  BY <1>1, <1>2 DEF RingInv, Window, WorkerInv
<1>5. ClaimsInv'
  <2> SUFFICES ASSUME NEW q \in Producers
               PROVE  ClaimsInv!(q)'
    BY DEF ClaimsInv
  <2>1. ppc[q] \in Claiming => ptail[q] # head
    BY <1>2 DEF Owned
  <2>2. QED
    BY <1>1, <2>1 DEF RingInv, ClaimsInv
<1>6. PublishedInv'
  <2>1. SUFFICES ASSUME NEW i \in (head + 1)..(tail - 1), ~Owned(i)
                 PROVE  /\ sequences[Slot(i)] = i + 1
                        /\ ring[Slot(i)] = claimed[i + 1]
    BY <1>1, <1>3 DEF PublishedInv
  <2>2. i \in head..(tail - 1) /\ i # head
    OBVIOUS
  <2>3. QED
    BY <2>1, <2>2 DEF RingInv, PublishedInv
<1>7. FreeInv'
  <2>1. SUFFICES ASSUME NEW i \in tail..(head + Capacity)
                 PROVE  sequences[Slot(i)] = i /\ ring[Slot(i)] = NoTask
    BY <1>1 DEF FreeInv
  <2>2. CASE i = head + Capacity
    BY <1>2, <2>2, SlotNextGeneration
  <2>3. CASE i # head + Capacity
    <3>1. i \in tail..(head + Capacity - 1)
      BY <2>3
    <3>2. QED
      BY <3>1 DEF RingInv, FreeInv
  <2>4. QED
    BY <2>2, <2>3
<1>8. QED
  BY <1>4, <1>5, <1>6, <1>7 DEF RingInv

\* A restart establishes the invariant as the initial state does.
LEMMA RestartStep ==
  ASSUME TypeOK, RingInv, Restart
  PROVE  RingInv'
<1>1. /\ head' = 0 /\ tail' = 0 /\ claimed' = <<>> /\ cpc' = "try"
      /\ sequences' = [s \in Slots |-> s] /\ ring' = [s \in Slots |-> NoTask]
      /\ \A p \in Producers : ppc'[p] = "idle"
  BY DEF Restart, Reset, producerVars
<1>2. Window' /\ ClaimsInv' /\ PublishedInv' /\ WorkerInv'
  BY <1>1, CapacityAssumption
     DEF Window, ClaimsInv, PublishedInv, WorkerInv, Claiming
<1>3. FreeInv'
  BY <1>1, SlotOfSmall, CapacityAssumption DEF FreeInv, Slots
<1>4. QED
  BY <1>2, <1>3 DEF RingInv

\* Every step preserves the ring invariant.
LEMMA RingStep == TypeOK /\ RingInv /\ [Next]_vars => RingInv'
<1> SUFFICES ASSUME TypeOK, RingInv, [Next]_vars PROVE RingInv'
  OBVIOUS
<1>1. ASSUME NEW p \in Producers, Call(p) \/ PushStep(p) PROVE RingInv'
  BY <1>1, QuietPushStep, CasStep, WriteStep, PublishStep DEF PushStep
<1>2. CASE WorkerStep
  BY <1>2, QuietWorkerStep, TakeStep, FreeStep, AdvanceStep DEF WorkerStep
<1>3. CASE SpuriousWake \/ StopStore \/ StopNotify
  BY <1>3, QuietWorkerStep
<1>4. CASE Restart
  BY <1>4, RestartStep
<1>5. CASE UNCHANGED vars
  BY <1>5 DEF vars, queueVars, producerVars, historyVars, RingInv, Window,
              ClaimsInv, PublishedInv, FreeInv, WorkerInv, Owned
<1>6. QED
  BY <1>1, <1>2, <1>3, <1>4, <1>5 DEF Next

-----------------------------------------------------------------------------
(* The theorems.                                                             *)

\* The queue's variables stay in their types, and every position of the window
\* is free, claimed once, published or being emptied, as its slot says.
THEOREM RingCorrect == Spec => [](TypeOK /\ RingInv)
<1>1. TypeOK /\ RingInv /\ [Next]_vars => (TypeOK /\ RingInv)'
  BY TypeStep, RingStep
<1>2. QED
  BY <1>1, InitInv, PTL DEF Spec

\* Type correctness of the queue, the worker and the history.
THEOREM TypeCorrect == Spec => []TypeOK
  BY RingCorrect, PTL

\* The assertion of push (line 39) never fails, whatever the capacity and the
\* number of producers.
THEOREM SlotReusableAlways == Spec => []SlotReusable
<1>1. TypeOK /\ RingInv => SlotReusable
  BY DEF RingInv, ClaimsInv, SlotReusable, Claiming
<1>2. QED
  BY <1>1, RingCorrect, PTL

\* ring_ needs no lock: the sequence numbers alone keep every slot access
\* exclusive, and no task is overwritten before it is taken.
THEOREM NoSlotRaceAlways == Spec => []NoSlotRace
<1>1. TypeOK /\ RingInv => NoSlotRace
  <2> SUFFICES ASSUME TypeOK, RingInv, NEW p \in Producers, ppc[p] = "write"
               PROVE  NoSlotRace!(p)!2
    BY DEF NoSlotRace
  <2>1. /\ ptail[p] \in head..(head + Capacity - 1) /\ Owned(ptail[p])
        /\ ring[Slot(ptail[p])] = NoTask
    BY CapacityAssumption DEF TypeOK, RingInv, ClaimsInv, Window, Claiming, Owned
  <2>2. ASSUME cpc = "take" PROVE Slot(head) # Slot(ptail[p])
    <3>1. head \in head..(head + Capacity - 1) /\ head # ptail[p]
      BY <2>1, <2>2, CapacityAssumption DEF TypeOK, RingInv, WorkerInv
    <3>2. QED
      BY <2>1, <3>1, WindowDistinct
  <2>3. ASSUME NEW q \in Producers \ {p}, ppc[q] = "write"
        PROVE  Slot(ptail[q]) # Slot(ptail[p])
    <3>1. ptail[q] \in head..(head + Capacity - 1) /\ ptail[q] # ptail[p]
      BY <2>3, CapacityAssumption DEF TypeOK, RingInv, ClaimsInv, Window, Claiming
    <3>2. QED
      BY <2>1, <3>1, WindowDistinct
  <2>4. QED
    BY <2>1, <2>2, <2>3
<1>2. QED
  BY <1>1, RingCorrect, PTL

-----------------------------------------------------------------------------
(* stop() loses nothing that was accepted before it.  The property is about  *)
(* the worker's last test: what it has to know is that the popped tasks are  *)
(* a prefix of the claimed ones, that a push returns true only for a claimed *)
(* task, and that no push counts as returned once stopped_ is set.           *)

PoppedPrefix ==
  /\ Len(popped) = head
  /\ \A i \in 1..head : popped[i] = claimed[i]

ReturnedClaimed ==
  /\ \A t \in returned : \E i \in 1..tail : claimed[i] = t
  /\ \A p \in Producers : ppc[p] = "notify" => \E i \in 1..tail : claimed[i] = ptask[p]

DrainInv ==
  /\ PoppedPrefix /\ ReturnedClaimed /\ DrainedBeforeExit
  /\ cpc \in {"emptyCheck", "returned"} => stopped

\* A claim adds its task behind the ones that were claimed before.
LEMMA DrainCas ==
  ASSUME TypeOK, RingInv, DrainInv, NEW p \in Producers, CasSucceeds(p)
  PROVE  DrainInv'
<1>1. /\ head' = head /\ tail' = tail + 1 /\ popped' = popped /\ returned' = returned
      /\ claimed' = Append(claimed, ptask[p]) /\ ptask[p] \in Task
      /\ head <= tail /\ Len(claimed) = tail /\ head \in Nat /\ tail \in Nat
      /\ claimed \in Seq(Task) /\ popped \in Seq(Task)
      /\ cpc' = cpc /\ stopped' = stopped /\ ptask' = ptask
      /\ ppc' = [ppc EXCEPT ![p] = "slot"]
  BY DEF CasSucceeds, TypeOK, RingInv, Window, ClaimsInv
<1>2. \A i \in 1..tail : i \in 1..tail' /\ claimed'[i] = claimed[i]
  BY <1>1
<1>3. \A q \in Producers : ppc'[q] = "notify" => ppc[q] = "notify"
  BY <1>1 DEF TypeOK
<1>4. PoppedPrefix'
  BY <1>1, <1>2 DEF DrainInv, PoppedPrefix
<1>5. ReturnedClaimed'
  BY <1>1, <1>2, <1>3 DEF DrainInv, ReturnedClaimed
<1>6. QED
  BY <1>1, <1>4, <1>5 DEF DrainInv, DrainedBeforeExit

\* head_ moves past the task the worker has taken.
LEMMA DrainAdvance ==
  ASSUME TypeOK, RingInv, DrainInv, Advance
  PROVE  DrainInv'
<1>1. /\ head' = head + 1 /\ tail' = tail /\ returned' = returned /\ claimed' = claimed
      /\ popped' = Append(popped, out) /\ out = claimed[head + 1] /\ out \in Task
      /\ head < tail /\ Len(claimed) = tail /\ head \in Nat /\ tail \in Nat
      /\ claimed \in Seq(Task) /\ popped \in Seq(Task)
      /\ cpc' = "run" /\ ppc' = ppc /\ ptask' = ptask
  BY DEF Advance, TypeOK, RingInv, Window, WorkerInv, producerVars
<1>2. Len(popped) = head /\ \A i \in 1..head : popped[i] = claimed[i]
  BY DEF DrainInv, PoppedPrefix
<1>3. PoppedPrefix'
  <2>1. Len(popped') = head + 1 /\ popped'[head + 1] = out
    BY <1>1, <1>2
  <2>2. \A i \in 1..head : popped'[i] = popped[i]
    BY <1>1, <1>2
  <2>3. QED
    BY <1>1, <1>2, <2>1, <2>2 DEF PoppedPrefix
<1>4. ReturnedClaimed'
  BY <1>1 DEF DrainInv, ReturnedClaimed
<1>5. QED
  BY <1>1, <1>3, <1>4 DEF DrainInv, DrainedBeforeExit

\* A push returns true for a task that has its place among the claimed ones.
LEMMA DrainPublish ==
  ASSUME TypeOK, RingInv, DrainInv, NEW p \in Producers, Publish(p)
  PROVE  DrainInv'
<1>1. /\ UNCHANGED <<head, tail, stopped, claimed, popped, returned, cpc, ptask>>
      /\ ppc' = [ppc EXCEPT ![p] = "notify"]
      /\ ptail[p] + 1 \in 1..tail /\ claimed[ptail[p] + 1] = ptask[p]
  BY DEF Publish, TypeOK, RingInv, ClaimsInv, Claiming, historyVars
<1>2. \A q \in Producers : ppc'[q] = "notify" => q = p \/ ppc[q] = "notify"
  BY <1>1 DEF TypeOK
<1>3. ReturnedClaimed'
  BY <1>1, <1>2 DEF DrainInv, ReturnedClaimed
<1>4. QED
  BY <1>1, <1>3 DEF DrainInv, PoppedPrefix, DrainedBeforeExit

\* The notifying steps of push leave what the worker drains alone.
LEMMA DrainNotify ==
  ASSUME TypeOK, RingInv, DrainInv, NEW p \in Producers, Notify(p)
  PROVE  DrainInv'
<1>1. /\ UNCHANGED <<head, tail, stopped, claimed, popped>>
      /\ cpc' = IF cpc = "parked" THEN "predAvailable" ELSE cpc
      /\ ppc[p] = "notify"
      /\ ppc' = [ppc EXCEPT ![p] = "idle"] /\ ptask' = [ptask EXCEPT ![p] = NoTask]
      /\ returned' = IF stopped THEN returned ELSE returned \cup {ptask[p]}
  BY DEF Notify, Wake, queueVars
<1>2. \A q \in Producers : ppc'[q] = "notify" => ppc[q] = "notify" /\ ptask'[q] = ptask[q]
  BY <1>1 DEF TypeOK
<1>3. ReturnedClaimed'
  BY <1>1, <1>2 DEF DrainInv, ReturnedClaimed
<1>4. cpc' \in {"emptyCheck", "returned"} =>
        cpc' = cpc /\ stopped /\ returned' = returned
  BY <1>1 DEF DrainInv
<1>5. QED
  BY <1>1, <1>3, <1>4 DEF DrainInv, PoppedPrefix, DrainedBeforeExit

\* The worker's last test: head_ has met tail_, so everything claimed is popped.
LEMMA DrainEmptyCheck ==
  ASSUME TypeOK, RingInv, DrainInv, EmptyCheck
  PROVE  DrainInv'
<1>1. /\ UNCHANGED <<head, tail, stopped, claimed, popped, returned, ppc, ptask>>
      /\ stopped
      /\ cpc' = "returned" => head = tail
      /\ cpc' \in {"returned", "predAvailable"}
  BY DEF EmptyCheck, Goto, HasNoPendingTask, DrainInv, queueVars, producerVars,
         historyVars
<1>2. DrainedBeforeExit'
  BY <1>1 DEF DrainInv, PoppedPrefix, ReturnedClaimed, DrainedBeforeExit
<1>3. QED
  BY <1>1, <1>2 DEF DrainInv, PoppedPrefix, ReturnedClaimed

\* The other steps of the worker and of the stopping thread.
LEMMA DrainWorker ==
  ASSUME TypeOK, RingInv, DrainInv,
         \/ TryPop \/ Take \/ FreeSlot \/ RunTask \/ StopCheck \/ PredAvailable
         \/ PredStopped \/ PredEmpty \/ Sleep \/ SpuriousWake
         \/ StopStore \/ StopNotify \/ UNCHANGED vars
  PROVE  DrainInv'
<1>1. UNCHANGED <<head, tail, claimed, popped, returned, ppc, ptask>>
  BY DEF TryPop, Take, FreeSlot, RunTask, StopCheck, PredAvailable, PredStopped,
         PredEmpty, Sleep, SpuriousWake, StopStore, StopNotify, Goto, vars, queueVars,
         producerVars, historyVars
<1>2. /\ stopped => stopped'
      /\ cpc' = "returned" => cpc = "returned"
      /\ cpc' = "emptyCheck" => stopped \/ cpc = "emptyCheck"
  BY DEF TryPop, Take, FreeSlot, RunTask, StopCheck, PredAvailable, PredStopped,
         PredEmpty, Sleep, SpuriousWake, StopStore, StopNotify, Wake, Goto, vars,
         queueVars
<1>3. QED
  BY <1>1, <1>2 DEF DrainInv, PoppedPrefix, ReturnedClaimed, DrainedBeforeExit

\* The other steps of a producer.
LEMMA DrainProducer ==
  ASSUME TypeOK, RingInv, DrainInv, NEW p \in Producers,
         \/ Call(p) \/ CheckStopped(p) \/ LoadTail(p) \/ LoadHead(p)
         \/ CasFails(p) \/ AwaitSlot(p) \/ WriteSlot(p)
  PROVE  DrainInv'
<1>1. UNCHANGED <<head, tail, stopped, claimed, popped, returned, cpc>>
  BY DEF Call, CheckStopped, LoadTail, LoadHead, CasFails, AwaitSlot, WriteSlot,
         queueVars, historyVars
<1>2. \A q \in Producers : ppc'[q] = "notify" => ppc[q] = "notify" /\ ptask'[q] = ptask[q]
  BY DEF TypeOK, Call, CheckStopped, LoadTail, LoadHead, CasFails, AwaitSlot, WriteSlot,
         Reject
<1>3. ReturnedClaimed'
  BY <1>1, <1>2 DEF DrainInv, ReturnedClaimed
<1>4. QED
  BY <1>1, <1>3 DEF DrainInv, PoppedPrefix, DrainedBeforeExit

\* The facts about stop() hold in every reachable state.
LEMMA DrainCorrect == Spec => []DrainInv
<1>1. Init => DrainInv
  BY DEF Init, DrainInv, PoppedPrefix, ReturnedClaimed, DrainedBeforeExit
<1>2. TypeOK /\ RingInv /\ DrainInv /\ [Next]_vars => DrainInv'
  <2> SUFFICES ASSUME TypeOK, RingInv, DrainInv, [Next]_vars PROVE DrainInv'
    OBVIOUS
  <2>1. CASE Restart
    BY <2>1 DEF Restart, Reset, producerVars, DrainInv, PoppedPrefix, ReturnedClaimed,
                DrainedBeforeExit
  <2>2. ASSUME NEW p \in Producers, Call(p) \/ PushStep(p) PROVE DrainInv'
    BY <2>2, DrainCas, DrainPublish, DrainNotify, DrainProducer DEF PushStep
  <2>3. CASE WorkerStep \/ SpuriousWake \/ StopStore \/ StopNotify \/ UNCHANGED vars
    BY <2>3, DrainAdvance, DrainEmptyCheck, DrainWorker DEF WorkerStep
  <2>4. QED
    BY <2>1, <2>2, <2>3 DEF Next
<1>3. QED
  BY <1>1, <1>2, RingCorrect, PTL DEF Spec

\* When wait_pop has returned false, every task whose push returned true before
\* stop() has been run: for every capacity, every number of producers and every
\* interleaving of push with the worker's last tests.
THEOREM DrainedBeforeExitAlways == Spec => []DrainedBeforeExit
<1>1. DrainInv => DrainedBeforeExit
  BY DEF DrainInv
<1>2. QED
  BY <1>1, DrainCorrect, PTL

-----------------------------------------------------------------------------
(* The ring implements the bounded FIFO queue.                               *)

\* The tasks of the window after a claim: the claimed task is the youngest.
LEMMA WaitingAppend ==
  ASSUME NEW S, NEW s \in Seq(S), NEW t \in S,
         NEW m \in Nat, NEW n \in Nat, Len(s) = n, m <= n
  PROVE  SubSeq(Append(s, t), m + 1, n + 1) = Append(SubSeq(s, m + 1, n), t)
  OBVIOUS

\* The tasks of the window after a pop: the oldest one is gone.
LEMMA WaitingTail ==
  ASSUME NEW S, NEW s \in Seq(S), NEW m \in Nat, NEW n \in Nat, Len(s) = n, m < n
  PROVE  /\ SubSeq(s, m + 1, n) # <<>>
         /\ Head(SubSeq(s, m + 1, n)) = s[m + 1]
         /\ Tail(SubSeq(s, m + 1, n)) = SubSeq(s, m + 2, n)
  OBVIOUS

\* Steps that leave the tasks alone, and what they do to the worker.
LEMMA OtherSteps ==
  ASSUME TypeOK, DrainInv,
         \/ \E p \in Producers :
              \/ Call(p) \/ CheckStopped(p) \/ LoadTail(p) \/ LoadHead(p)
              \/ CasFails(p) \/ AwaitSlot(p) \/ WriteSlot(p) \/ Publish(p)
              \/ Notify(p)
         \/ TryPop \/ Take \/ FreeSlot \/ RunTask \/ StopCheck \/ EmptyCheck
         \/ PredAvailable \/ PredStopped \/ PredEmpty \/ Sleep \/ SpuriousWake
         \/ StopStore \/ StopNotify \/ UNCHANGED vars
  PROVE  /\ UNCHANGED <<head, tail, claimed, popped>>
         /\ \/ stopped' = TRUE /\ UNCHANGED WorkerState
            \/ UNCHANGED <<stopped, WorkerState>>
            \/ UNCHANGED stopped /\ WorkerState = "awake" /\ WorkerState' = "asleep"
            \/ UNCHANGED stopped /\ WorkerState = "asleep" /\ WorkerState' = "awake"
            \/ /\ UNCHANGED stopped /\ stopped /\ head = tail
               /\ WorkerState = "awake" /\ WorkerState' = "exited"
<1>1. CASE \E p \in Producers :
              \/ Call(p) \/ CheckStopped(p) \/ LoadTail(p) \/ LoadHead(p)
              \/ CasFails(p) \/ AwaitSlot(p) \/ WriteSlot(p) \/ Publish(p)
  BY <1>1 DEF Call, CheckStopped, LoadTail, LoadHead, CasFails, AwaitSlot, WriteSlot,
              Publish, queueVars, historyVars, WorkerState
<1>2. CASE StopStore \/ StopNotify \/ \E p \in Producers : Notify(p)
  BY <1>2 DEF StopStore, StopNotify, Notify, Wake, queueVars, historyVars, WorkerState
<1>3. CASE TryPop \/ Take \/ FreeSlot \/ RunTask \/ StopCheck \/ PredAvailable
             \/ UNCHANGED vars
  BY <1>3 DEF TryPop, Take, FreeSlot, RunTask, StopCheck, PredAvailable, Goto, vars,
              queueVars, historyVars, WorkerState
<1>4. CASE PredStopped \/ PredEmpty \/ Sleep \/ SpuriousWake
  BY <1>4 DEF PredStopped, PredEmpty, Sleep, SpuriousWake, Goto, queueVars, historyVars,
              WorkerState
<1>5. CASE EmptyCheck
  BY <1>5 DEF EmptyCheck, HasNoPendingTask, Goto, queueVars, historyVars, WorkerState,
              DrainInv
<1>6. QED
  BY <1>1, <1>2, <1>3, <1>4, <1>5

\* Every behaviour of the ring, its producers and its worker is a behaviour of
\* the bounded FIFO queue: tasks are delivered once each, in the order in which
\* the compare-exchange admitted them, at most Capacity of them wait, and the
\* worker exits only from a stopped queue in which none waits.
THEOREM RingImplementsTaskQueue == Spec => ImplementsTaskQueue
<1> DEFINE w == SubSeq(claimed, head + 1, tail)
<1>1. Init => Queue!Init
  BY DEF Init, Queue!Init, WorkerState
<1>2. ASSUME TypeOK, RingInv, DrainInv, [Next]_vars
      PROVE  [Queue!Next]_<<w, popped, stopped, WorkerState>>
  <2>1. CASE \E p \in Producers : CasSucceeds(p)
    <3>1. PICK p \in Producers : CasSucceeds(p)
      BY <2>1
    <3>2. /\ head' = head /\ tail' = tail + 1 /\ popped' = popped
          /\ claimed' = Append(claimed, ptask[p]) /\ ptask[p] \in Task
          /\ head <= tail /\ tail < head + Capacity /\ Len(claimed) = tail
          /\ head \in Nat /\ tail \in Nat /\ claimed \in Seq(Task)
          /\ UNCHANGED <<stopped, WorkerState>>
      BY <1>2, <3>1, CapacityAssumption
         DEF CasSucceeds, TypeOK, RingInv, Window, ClaimsInv, WorkerState
    <3>3. w' = Append(w, ptask[p])
      BY <3>2, WaitingAppend
    <3>4. Len(w) < Capacity
      BY <3>2, CapacityAssumption
    <3>5. QED
      BY <3>2, <3>3, <3>4 DEF Queue!Next, Queue!Accept
  <2>2. CASE Advance
    <3>1. /\ head' = head + 1 /\ tail' = tail /\ claimed' = claimed
          /\ popped' = Append(popped, out) /\ out = claimed[head + 1]
          /\ head < tail /\ Len(claimed) = tail
          /\ head \in Nat /\ tail \in Nat /\ claimed \in Seq(Task)
          /\ WorkerState = "awake" /\ UNCHANGED <<stopped, WorkerState>>
      BY <1>2, <2>2 DEF Advance, TypeOK, RingInv, Window, WorkerInv, WorkerState
    <3>2. w # <<>> /\ Head(w) = out /\ w' = Tail(w)
      <4>1. head' + 1 = head + 2
        BY <3>1
      <4>2. QED
        BY <3>1, <4>1, WaitingTail
    <3>3. QED
      BY <3>1, <3>2 DEF Queue!Next, Queue!Deliver
  <2>3. CASE Restart
    BY <2>3 DEF Restart, Reset, WorkerState, Queue!Next, Queue!Restart
  <2>4. CASE ~Restart /\ ~Advance /\ ~\E p \in Producers : CasSucceeds(p)
    <3>1. /\ UNCHANGED <<head, tail, claimed, popped>>
          /\ \/ stopped' = TRUE /\ UNCHANGED WorkerState
             \/ UNCHANGED <<stopped, WorkerState>>
             \/ UNCHANGED stopped /\ WorkerState = "awake" /\ WorkerState' = "asleep"
             \/ UNCHANGED stopped /\ WorkerState = "asleep" /\ WorkerState' = "awake"
             \/ /\ UNCHANGED stopped /\ stopped /\ head = tail
                /\ WorkerState = "awake" /\ WorkerState' = "exited"
      BY <1>2, <2>4, OtherSteps DEF Next, PushStep, WorkerStep
    <3>2. UNCHANGED <<w, popped>>
      BY <3>1
    <3>3. head = tail => w = <<>>
      BY <1>2 DEF TypeOK
    <3>4. QED
      BY <3>1, <3>2, <3>3
         DEF Queue!Next, Queue!Stop, Queue!Sleep, Queue!Wake, Queue!Exit
  <2>5. QED
    BY <2>1, <2>2, <2>3, <2>4
<1>3. QED
  BY <1>1, <1>2, RingCorrect, DrainCorrect, PTL
     DEF Spec, ImplementsTaskQueue, Queue!Spec, Queue!queueVars
=============================================================================
