------------------------- MODULE BoundedTaskQueue --------------------------
(***************************************************************************)
(* hal/bounded_task_queue.{h,cpp}: the multi-producer single-consumer ring *)
(* of one shard, together with the worker loop that drains it and the      *)
(* thread that stops and restarts it (ShardedWorker, hal/task_executor).   *)
(*                                                                         *)
(* Every step is one access to shared memory: an atomic load or store, the *)
(* compare-exchange, or the access to ring_[slot].  wait_mutex_ is taken   *)
(* by the consumer only, so it orders nothing and has no variable; what it *)
(* does not do, make "test the predicate, then sleep" atomic with respect  *)
(* to a notify, is what the steps pred... and sleep express.               *)
(***************************************************************************)
EXTENDS Integers, Sequences

CONSTANTS
  Producers,      \* threads that call push: event loop, framework threads
  Capacity,       \* capacity_
  MaxTasks,       \* bound: tasks each producer ever tries to push
  Word,           \* modulus of the uint64_t counters
  NoTask          \* an empty std::function

Task == Producers \X (1..MaxTasks)

ASSUME CapacityAssumption == Capacity \in Nat \ {0}
ASSUME BoundAssumption == MaxTasks \in Nat /\ Word \in Nat
ASSUME NoTaskAssumption == NoTask \notin Task

VARIABLES
  head, tail, stopped,    \* head_, tail_, stopped_
  sequences, ring,        \* sequences_, ring_
  ppc, ptail, ptask,      \* per producer: point in push, current_tail, task
  pushed,                 \* per producer: number of pushes begun
  cpc, out,               \* the worker: point in wait_pop, *task
  spc,                    \* the thread inside ShardedWorker::stop
  claimed,                \* history: tasks in the order the CAS admitted them
  popped,                 \* history: tasks handed to the worker
  returned,               \* history: tasks whose push returned true before stop
  sawFull                 \* history: queue was full at some time during p's push

queueVars == <<head, tail, stopped, sequences, ring>>
producerVars == <<ppc, ptail, ptask, pushed>>
historyVars == <<claimed, popped, returned, sawFull>>
vars == <<queueVars, producerVars, cpc, out, spc, historyVars>>

Slots == 0..(Capacity - 1)
Slot(i) == i % Capacity

\* uint64_t subtraction: a - b, modulo the word
Sub(a, b) == IF a >= b THEN a - b ELSE a - b + Word

Claiming == {"slot", "write", "publish"}      \* after a successful CAS

-----------------------------------------------------------------------------
TypeOK ==
  /\ head \in Nat /\ tail \in Nat /\ stopped \in BOOLEAN
  /\ sequences \in [Slots -> Nat]
  /\ ring \in [Slots -> Task \cup {NoTask}]
  /\ ppc \in [Producers -> {"idle", "stopped", "tail", "head", "cas",
                            "slot", "write", "publish", "notify"}]
  /\ ptail \in [Producers -> Nat]
  /\ ptask \in [Producers -> Task \cup {NoTask}]
  /\ pushed \in [Producers -> 0..MaxTasks]
  /\ cpc \in {"try", "take", "free", "advance", "run", "stopCheck", "emptyCheck",
              "predAvailable", "predStopped", "predEmpty", "sleep", "parked",
              "returned"}
  /\ out \in Task \cup {NoTask}
  /\ spc \in {"idle", "notify", "join"}
  /\ claimed \in Seq(Task) /\ popped \in Seq(Task)
  /\ returned \in SUBSET Task
  /\ sawFull \in [Producers -> BOOLEAN]

\* The constructor and ShardedWorker::start: reset, then spawn the worker.
Init ==
  /\ head = 0 /\ tail = 0 /\ stopped = FALSE
  /\ sequences = [s \in Slots |-> s]
  /\ ring = [s \in Slots |-> NoTask]
  /\ ppc = [p \in Producers |-> "idle"]
  /\ ptail = [p \in Producers |-> 0]
  /\ ptask = [p \in Producers |-> NoTask]
  /\ pushed = [p \in Producers |-> 0]
  /\ cpc = "try" /\ out = NoTask /\ spc = "idle"
  /\ claimed = <<>> /\ popped = <<>> /\ returned = {}
  /\ sawFull = [p \in Producers |-> FALSE]

-----------------------------------------------------------------------------
\* push(task), one action per shared access.

Call(p) ==
  /\ ppc[p] = "idle" /\ pushed[p] < MaxTasks
  /\ pushed' = [pushed EXCEPT ![p] = @ + 1]
  /\ ptask' = [ptask EXCEPT ![p] = <<p, pushed[p] + 1>>]
  /\ sawFull' = [sawFull EXCEPT ![p] = tail - head >= Capacity]
  /\ ppc' = [ppc EXCEPT ![p] = "stopped"]
  /\ UNCHANGED <<queueVars, ptail, cpc, out, spc, claimed, popped, returned>>

Reject(p) ==
  /\ ppc' = [ppc EXCEPT ![p] = "idle"]
  /\ ptask' = [ptask EXCEPT ![p] = NoTask]

\* if (stopped_.load()) return false
CheckStopped(p) ==
  /\ ppc[p] = "stopped"
  /\ \/ stopped /\ Reject(p)
     \/ ~stopped /\ ppc' = [ppc EXCEPT ![p] = "tail"] /\ UNCHANGED ptask
  /\ UNCHANGED <<queueVars, ptail, pushed, cpc, out, spc, historyVars>>

LoadTail(p) ==
  /\ ppc[p] = "tail"
  /\ ptail' = [ptail EXCEPT ![p] = tail]
  /\ ppc' = [ppc EXCEPT ![p] = "head"]
  /\ UNCHANGED <<queueVars, ptask, pushed, cpc, out, spc, historyVars>>

\* mutant: > for >=
SeesFullLate(p) == Sub(ptail[p], head) > Capacity

\* current_tail - current_head >= capacity_, on the tail loaded earlier and the
\* head loaded now.
SeesFull(p) == Sub(ptail[p], head) >= Capacity

LoadHead(p) ==
  /\ ppc[p] = "head"
  /\ \/ SeesFull(p) /\ Reject(p)
     \/ ~SeesFull(p) /\ ppc' = [ppc EXCEPT ![p] = "cas"] /\ UNCHANGED ptask
  /\ UNCHANGED <<queueVars, ptail, pushed, cpc, out, spc, historyVars>>

\* mutant: a store in place of the compare-exchange
StoreTail(p) ==
  /\ ppc[p] = "cas"
  /\ tail' = ptail[p] + 1
  /\ claimed' = Append(claimed, ptask[p])
  /\ ppc' = [ppc EXCEPT ![p] = "slot"]
  /\ UNCHANGED <<head, stopped, sequences, ring, ptail, ptask, pushed, cpc, out,
                 spc, popped, returned, sawFull>>

\* compare_exchange_weak: it may also fail spuriously; both failures retry.
CasSucceeds(p) ==
  /\ ppc[p] = "cas" /\ tail = ptail[p]
  /\ tail' = tail + 1
  /\ claimed' = Append(claimed, ptask[p])
  /\ sawFull' = [q \in Producers |-> sawFull[q] \/ tail + 1 - head >= Capacity]
  /\ ppc' = [ppc EXCEPT ![p] = "slot"]
  /\ UNCHANGED <<head, stopped, sequences, ring, ptail, ptask, pushed, cpc, out,
                 spc, popped, returned>>

CasFails(p) ==
  /\ ppc[p] = "cas"
  /\ ppc' = [ppc EXCEPT ![p] = "stopped"]
  /\ UNCHANGED <<queueVars, ptail, ptask, pushed, cpc, out, spc, historyVars>>

\* The assert and the defensive loop: wait until the slot is reusable.
AwaitSlot(p) ==
  /\ ppc[p] = "slot" /\ sequences[Slot(ptail[p])] = ptail[p]
  /\ ppc' = [ppc EXCEPT ![p] = "write"]
  /\ UNCHANGED <<queueVars, ptail, ptask, pushed, cpc, out, spc, historyVars>>

WriteSlot(p) ==
  /\ ppc[p] = "write"
  /\ ring' = [ring EXCEPT ![Slot(ptail[p])] = ptask[p]]
  /\ ppc' = [ppc EXCEPT ![p] = "publish"]
  /\ UNCHANGED <<head, tail, stopped, sequences, ptail, ptask, pushed, cpc, out,
                 spc, historyVars>>

Publish(p) ==
  /\ ppc[p] = "publish"
  /\ sequences' = [sequences EXCEPT ![Slot(ptail[p])] = ptail[p] + 1]
  /\ ppc' = [ppc EXCEPT ![p] = "notify"]
  /\ UNCHANGED <<head, tail, stopped, ring, ptail, ptask, pushed, cpc, out, spc,
                 historyVars>>

\* notify_one and notify_all wake the worker only if it already sleeps.
Wake == cpc' = IF cpc = "parked" THEN "predAvailable" ELSE cpc

\* not_empty_.notify_one(); return true
Notify(p) ==
  /\ ppc[p] = "notify"
  /\ Wake
  /\ returned' = IF stopped THEN returned ELSE returned \cup {ptask[p]}
  /\ ppc' = [ppc EXCEPT ![p] = "idle"]
  /\ ptask' = [ptask EXCEPT ![p] = NoTask]
  /\ UNCHANGED <<queueVars, ptail, pushed, out, spc, claimed, popped, sawFull>>

-----------------------------------------------------------------------------
\* The worker: ShardedWorker::run around wait_pop and try_pop.  current_head
\* is head itself: only the worker stores head_.

\* mutant: a slot that is free, or claimed and unwritten, counts as published
HasClaimedTask == sequences[Slot(head)] >= head

HasAvailableTask == sequences[Slot(head)] = head + 1
HasNoPendingTask == head = tail

Goto(from, to) ==
  /\ cpc = from /\ cpc' = to
  /\ UNCHANGED <<queueVars, producerVars, out, spc, historyVars>>

TryPop ==
  \/ HasAvailableTask /\ Goto("try", "take")
  \/ ~HasAvailableTask /\ Goto("try", "stopCheck")

Take ==
  /\ cpc = "take" /\ cpc' = "free"
  /\ out' = ring[Slot(head)]
  /\ ring' = [ring EXCEPT ![Slot(head)] = NoTask]
  /\ UNCHANGED <<head, tail, stopped, sequences, producerVars, spc, historyVars>>

\* mutant: the slot is released for the generation that was just popped
FreeSlotSameGeneration ==
  /\ cpc = "free" /\ cpc' = "advance"
  /\ sequences' = [sequences EXCEPT ![Slot(head)] = head]
  /\ UNCHANGED <<head, tail, stopped, ring, producerVars, out, spc, historyVars>>

\* The slot is released for the next generation before head_ advances.
FreeSlot ==
  /\ cpc = "free" /\ cpc' = "advance"
  /\ sequences' = [sequences EXCEPT ![Slot(head)] = head + Capacity]
  /\ UNCHANGED <<head, tail, stopped, ring, producerVars, out, spc, historyVars>>

Advance ==
  /\ cpc = "advance" /\ cpc' = "run"
  /\ head' = head + 1
  /\ popped' = Append(popped, out)
  /\ UNCHANGED <<tail, stopped, sequences, ring, producerVars, out, spc, claimed,
                 returned, sawFull>>

\* task(); task = nullptr; and back into wait_pop
RunTask ==
  /\ cpc = "run" /\ cpc' = "try"
  /\ out' = NoTask
  /\ UNCHANGED <<queueVars, producerVars, spc, historyVars>>

StopCheck ==
  \/ stopped /\ Goto("stopCheck", "emptyCheck")
  \/ ~stopped /\ Goto("stopCheck", "predAvailable")

\* mutant: stopped_ alone ends the worker
ExitUndrained == Goto("emptyCheck", "returned")

\* mutant: the worker never leaves its loop
NeverExit == Goto("emptyCheck", "predAvailable")

\* return false ends the worker's loop and its thread
EmptyCheck ==
  \/ HasNoPendingTask /\ Goto("emptyCheck", "returned")
  \/ ~HasNoPendingTask /\ Goto("emptyCheck", "predAvailable")

\* not_empty_.wait(lock, predicate): the predicate's loads, then the sleep.
PredAvailable ==
  \/ HasAvailableTask /\ Goto("predAvailable", "try")
  \/ ~HasAvailableTask /\ Goto("predAvailable", "predStopped")

PredStopped ==
  \/ stopped /\ Goto("predStopped", "predEmpty")
  \/ ~stopped /\ Goto("predStopped", "sleep")

PredEmpty ==
  \/ HasNoPendingTask /\ Goto("predEmpty", "try")
  \/ ~HasNoPendingTask /\ Goto("predEmpty", "sleep")

Sleep == Goto("sleep", "parked")

SpuriousWake == Goto("parked", "predAvailable")

-----------------------------------------------------------------------------
\* ShardedWorker::stop: stop() stores the flag, then notifies; join waits for
\* the worker; the next start() resets the queue, whatever the producers do.  That
\* no push is in progress then is a contract with the callers: the runtime joins
\* its event loop before it stops the executor, but nothing keeps a framework
\* thread from posting while the runtime is restarted.

StopStore ==
  /\ spc = "idle" /\ spc' = "notify"
  /\ stopped' = TRUE
  /\ UNCHANGED <<head, tail, sequences, ring, producerVars, cpc, out, historyVars>>

StopNotify ==
  /\ spc = "notify" /\ spc' = "join"
  /\ Wake
  /\ UNCHANGED <<queueVars, producerVars, out, historyVars>>

\* mutant: the sequence numbers of the last run are kept
ResetKeepsSequences ==
  /\ head' = 0 /\ tail' = 0 /\ stopped' = FALSE
  /\ ring' = [s \in Slots |-> NoTask]
  /\ UNCHANGED sequences

Reset ==
  /\ head' = 0 /\ tail' = 0 /\ stopped' = FALSE
  /\ sequences' = [s \in Slots |-> s]
  /\ ring' = [s \in Slots |-> NoTask]

Restart ==
  /\ spc = "join" /\ cpc = "returned"
  /\ \A p \in Producers : ppc[p] = "idle"
  /\ Reset
  /\ spc' = "idle" /\ cpc' = "try" /\ out' = NoTask
  /\ claimed' = <<>> /\ popped' = <<>> /\ returned' = {}
  /\ UNCHANGED <<producerVars, sawFull>>

-----------------------------------------------------------------------------
PushStep(p) ==
  \/ CheckStopped(p) \/ LoadTail(p) \/ LoadHead(p)
  \/ CasSucceeds(p) \/ CasFails(p)
  \/ AwaitSlot(p) \/ WriteSlot(p) \/ Publish(p) \/ Notify(p)

WorkerStep ==
  \/ TryPop \/ Take \/ FreeSlot \/ Advance \/ RunTask
  \/ StopCheck \/ EmptyCheck
  \/ PredAvailable \/ PredStopped \/ PredEmpty \/ Sleep

Next ==
  \/ \E p \in Producers : Call(p) \/ PushStep(p)
  \/ WorkerStep \/ SpuriousWake
  \/ StopStore \/ StopNotify \/ Restart

Spec == Init /\ [][Next]_vars

\* The scheduler runs every thread that can run.  compare_exchange_weak fails
\* spuriously finitely often: an attempt on an unchanged tail_ eventually
\* succeeds.
Fairness ==
  /\ \A p \in Producers : WF_vars(PushStep(p)) /\ SF_vars(CasSucceeds(p))
  /\ WF_vars(WorkerStep)
  /\ WF_vars(StopNotify)

FairSpec == Spec /\ Fairness
-----------------------------------------------------------------------------
\* The assertion at line 39: when a producer has won a tail position, the slot
\* of that position has been released by the worker, so the defensive loop
\* behind the assertion never spins.
SlotReusable ==
  \A p \in Producers :
    ppc[p] = "slot" => sequences[Slot(ptail[p])] = ptail[p]

\* ring_ holds plain std::functions: no two threads are ever about to access
\* the same slot, and a producer never overwrites a task that was not taken.
NoSlotRace ==
  \A p \in Producers : ppc[p] = "write" =>
    /\ ring[Slot(ptail[p])] = NoTask
    /\ cpc = "take" => Slot(head) # Slot(ptail[p])
    /\ \A q \in Producers \ {p} :
         ppc[q] = "write" => Slot(ptail[q]) # Slot(ptail[p])

\* What each position of the window head .. head + Capacity - 1 holds.  A
\* position is free, claimed by exactly one producer, published, or being
\* emptied by the worker; its sequence number and its ring entry say which.
Owned(i) == \E p \in Producers : ppc[p] \in Claiming /\ ptail[p] = i

Window ==
  /\ head <= tail /\ tail <= head + Capacity
  /\ Len(claimed) = tail

ClaimsInv ==
  \A p \in Producers :
    /\ ppc[p] # "idle" => ptask[p] \in Task
    /\ ppc[p] = "cas" => ptail[p] < head + Capacity
    /\ ppc[p] \in Claiming =>
         /\ head <= ptail[p] /\ ptail[p] < tail
         /\ sequences[Slot(ptail[p])] = ptail[p]
         /\ ring[Slot(ptail[p])] = IF ppc[p] = "publish" THEN ptask[p] ELSE NoTask
         /\ claimed[ptail[p] + 1] = ptask[p]
         /\ \A q \in Producers \ {p} :
              ppc[q] \in Claiming => ptail[q] # ptail[p]

PublishedInv ==
  \A i \in head..(tail - 1) :
    ~Owned(i) /\ ~(i = head /\ cpc \in {"free", "advance"}) =>
      sequences[Slot(i)] = i + 1 /\ ring[Slot(i)] = claimed[i + 1]

FreeInv ==
  \A i \in tail..(head + Capacity - 1) :
    sequences[Slot(i)] = i /\ ring[Slot(i)] = NoTask

WorkerInv ==
  /\ cpc \in {"take", "free", "advance"} => head < tail /\ ~Owned(head)
  /\ cpc \in {"free", "advance"} =>
       out = claimed[head + 1] /\ ring[Slot(head)] = NoTask
  /\ cpc = "advance" => sequences[Slot(head)] = head + Capacity

RingInv == Window /\ ClaimsInv /\ PublishedInv /\ FreeInv /\ WorkerInv

\* StopDrainsAlreadyQueuedTasks: wait_pop returns false, which ends the worker,
\* only when every task whose push had returned true before stop() was popped.
DrainedBeforeExit ==
  cpc = "returned" => \A t \in returned : \E i \in 1..Len(popped) : popped[i] = t

\* What the callers see of the worker: from the last load of the predicate on it
\* sleeps, and ends when wait_pop returns false.
WorkerState ==
  IF cpc \in {"sleep", "parked"} THEN "asleep"
  ELSE IF cpc = "returned" THEN "exited" ELSE "awake"

\* The ring is a bounded FIFO queue: the compare-exchange admits a task, the
\* store of head_ delivers the oldest one, and the worker leaves only a queue
\* that is stopped and has no claimed task.
Queue == INSTANCE TaskQueue WITH
  waiting <- SubSeq(claimed, head + 1, tail),
  delivered <- popped,
  closed <- stopped,
  worker <- WorkerState

ImplementsTaskQueue == Queue!Spec

\* A call of push returns: neither the retry loop nor the defensive wait for
\* the slot holds a producer forever.
PushReturns ==
  \A p \in Producers : []<>(ppc[p] = "idle")

\* ShardedWorker::run: a worker that is awake again and again while tasks wait
\* pops them, and one that is awake again and again on a stopped and empty queue
\* ends; only its sleep can come in between.  A producer preempted between its
\* claim and its publish does not hold it up for ever.
AwakeWorkerRuns ==
  /\ []<>(WorkerState = "awake" /\ head # tail) => []<><<Advance>>_vars
  /\ []<>(WorkerState = "awake" /\ stopped /\ head = tail) => []<>(cpc = "returned")

\* push rejects a task, other than because of stop, only if the queue was full
\* at some moment of the call (line 28).
RejectsOnlyWhenFull ==
  [][\A p \in Producers : ppc[p] = "head" /\ ppc'[p] = "idle" => sawFull[p]]_vars

\* A worker that sleeps while the predicate it waits for holds is woken: push
\* (line 50) and stop (line 80) notify after they made the predicate true.
ParkedWorkerWakes ==
  (cpc = "parked" /\ (HasAvailableTask \/ (stopped /\ HasNoPendingTask)))
    ~> (cpc # "parked")
=============================================================================
