------------------------- MODULE HalRuntime_proofs -------------------------
(***************************************************************************)
(* Theorems about HalRuntime, for every set of sessions and descriptors,   *)
(* every number of shards and every queue capacity.                        *)
(***************************************************************************)
EXTENDS HalRuntime, TLAPS

USE DEF loopVars, kernelVars, executorVars, historyVars

\* A session id always names a shard.
LEMMA ShardInRange ==
  ASSUME NEW s \in Sessions
  PROVE  s % ShardCount \in Shards
<1>1. s \in Nat /\ ShardCount \in Nat /\ ShardCount > 0
  BY RuntimeAssumption
<1>2. QED  BY <1>1 DEF Shards

\* The tasks that are posted are tasks, and no task is NoTask.
LEMMA PostedTasks ==
  ASSUME NEW s \in Sessions, NEW f \in Fds \cup {NoFd}
  PROVE  /\ Request(s) \in Tasks /\ Readiness(s, f) \in Tasks
         /\ ShardOf(Request(s)) = s % ShardCount
         /\ ShardOf(Readiness(s, f)) = s % ShardCount
         /\ ShardOf(Request(s)) \in Shards /\ ShardOf(Readiness(s, f)) \in Shards
  BY ShardInRange DEF Request, Readiness, Tasks, ShardOf

\* The idle worker's task is not one that post can queue.
LEMMA NoTaskIsNoTask == NoTask \notin Tasks
  BY RuntimeAssumption DEF NoTask, Tasks

\* What a push leaves in the queues: the task at the end of its shard's queue,
\* marked late if that queue is stopped.
LEMMA EnqueueEffect ==
  ASSUME queue \in [Shards -> Seq(Tasks)], stopped \in [Shards -> BOOLEAN],
         NEW task \in Tasks, ShardOf(task) \in Shards, Enqueue(task)
  PROVE  LET w == ShardOf(task) IN
         \E x \in Tasks :
           /\ x.kind = task.kind /\ x.session = task.session /\ x.fd = task.fd
           /\ x.late = stopped[w]
           /\ queue' \in [Shards -> Seq(Tasks)]
           /\ \A v \in Shards \ {w} : queue'[v] = queue[v]
           /\ \A k \in DOMAIN queue[w] : k \in DOMAIN queue'[w] /\ queue'[w][k] = queue[w][k]
           /\ \A k \in DOMAIN queue'[w] : k \in DOMAIN queue[w] \/ queue'[w][k] = x
           /\ \E k \in DOMAIN queue'[w] : queue'[w][k] = x
<1> DEFINE w == ShardOf(task)
           x == [task EXCEPT !.late = stopped[w]]
<1>1. /\ x \in Tasks /\ x.late = stopped[w]
      /\ x.kind = task.kind /\ x.session = task.session /\ x.fd = task.fd
  BY DEF Tasks
<1>2. queue[w] \in Seq(Tasks)
  OBVIOUS
<1>3. queue' = [queue EXCEPT ![w] = Append(queue[w], x)]
  BY DEF Enqueue
<1> HIDE DEF x, w
<1>4. queue' \in [Shards -> Seq(Tasks)]
  <2>1. Append(queue[w], x) \in Seq(Tasks)
    BY <1>1, <1>2
  <2>2. QED  BY <1>3, <2>1
<1>5. queue'[w] = Append(queue[w], x) /\ \A v \in Shards \ {w} : queue'[v] = queue[v]
  BY <1>2, <1>3 DEF w
<1>6. /\ DOMAIN queue[w] = 1..Len(queue[w]) /\ Len(queue[w]) \in Nat
      /\ DOMAIN Append(queue[w], x) = 1..(Len(queue[w]) + 1)
      /\ \A k \in 1..Len(queue[w]) : Append(queue[w], x)[k] = queue[w][k]
      /\ Append(queue[w], x)[Len(queue[w]) + 1] = x
  BY <1>1, <1>2
<1>7. \A k \in 1..(Len(queue[w]) + 1) : k \in 1..Len(queue[w]) \/ k = Len(queue[w]) + 1
  BY <1>6
<1>8. Len(queue[w]) + 1 \in 1..(Len(queue[w]) + 1)
  BY <1>6
<1>9. /\ \A k \in DOMAIN queue[w] : k \in DOMAIN queue'[w] /\ queue'[w][k] = queue[w][k]
      /\ \A k \in DOMAIN queue'[w] : k \in DOMAIN queue[w] \/ queue'[w][k] = x
      /\ \E k \in DOMAIN queue'[w] : queue'[w][k] = x
  BY <1>5, <1>6, <1>7, <1>8
<1>10. QED  BY <1>1, <1>4, <1>5, <1>9 DEF w

\* What a pop leaves: the first task is gone, the others have moved up.
LEMMA PopEffect ==
  ASSUME NEW q \in Seq(Tasks), q # <<>>
  PROVE  /\ Head(q) \in Tasks /\ Tail(q) \in Seq(Tasks)
         /\ 1 \in DOMAIN q /\ Head(q) = q[1]
         /\ \A k \in DOMAIN Tail(q) : k + 1 \in DOMAIN q /\ Tail(q)[k] = q[k + 1]
         /\ \A k \in DOMAIN q : k = 1 \/ (k - 1 \in DOMAIN Tail(q) /\ Tail(q)[k - 1] = q[k])
<1>1. /\ Head(q) \in Tasks /\ Tail(q) \in Seq(Tasks) /\ Len(q) \in Nat \ {0}
      /\ DOMAIN q = 1..Len(q) /\ DOMAIN Tail(q) = 1..(Len(q) - 1) /\ Head(q) = q[1]
      /\ \A k \in 1..(Len(q) - 1) : Tail(q)[k] = q[k + 1]
  OBVIOUS
<1>2. QED  BY <1>1

\* A step of a session's thread moves that thread and leaves its descriptor.
LEMMA GotoEffect ==
  ASSUME session \in [Sessions -> SessionStates], NEW s \in Sessions,
         NEW pc \in SessionPcs, Goto(s, pc)
  PROVE  /\ session' \in [Sessions -> SessionStates]
         /\ session'[s].pc = pc /\ session'[s].fd = session[s].fd
         /\ \A t \in Sessions : t # s => session'[t] = session[t]
  BY DEF Goto, SessionStates

\* What the threads' records may hold.
LEMMA RecordTypes ==
  /\ IdleWorker \in WorkerStates /\ NoTask \notin Tasks
  /\ \A x \in WorkerStates, pc \in WorkerPcs : [x EXCEPT !.pc = pc] \in WorkerStates
  /\ \A x \in LoopStates, pc \in {"down", "check", "wait", "batch"}, b \in SUBSET Fds :
       LoopAt(pc, b) \in LoopStates /\ LoopAt(pc, b).pc = pc
<1>1. IdleWorker \in WorkerStates
  BY DEF IdleWorker, WorkerStates, WorkerPcs
<1>2. \A x \in WorkerStates, pc \in WorkerPcs : [x EXCEPT !.pc = pc] \in WorkerStates
  BY DEF WorkerStates
<1>3. \A pc \in {"down", "check", "wait", "batch"}, b \in SUBSET Fds :
       LoopAt(pc, b) \in LoopStates /\ LoopAt(pc, b).pc = pc
  BY DEF LoopAt, LoopStates
<1>4. QED  BY <1>1, <1>2, <1>3, NoTaskIsNoTask

-----------------------------------------------------------------------------
\* Before the runtime is started every thread is at its first point.
LEMMA TypeInit == Init => TypeOK
<1> SUFFICES ASSUME Init PROVE TypeOK
  OBVIOUS
<1>1. session \in [Sessions -> SessionStates]
  BY DEF Init, SessionStates, SessionPcs
<1>2. worker \in [Shards -> WorkerStates]
  BY DEF Init, WorkerStates, WorkerPcs
<1>3. loop \in LoopStates /\ loop.pc = "down"
  BY DEF Init, LoopAt, LoopStates
<1>4. posts \in [Sessions -> Nat] /\ starts \in 0..MaxStarts
  BY RuntimeAssumption DEF Init
<1>5. queue \in [Shards -> Seq(Tasks)]
  BY DEF Init
<1>6. QED  BY <1>1, <1>2, <1>3, <1>4, <1>5 DEF Init, TypeOK, MainStates

\* Every action keeps the types.
LEMMA TypeNext == TypeOK /\ [Next]_vars => TypeOK'
<1> SUFFICES ASSUME TypeOK, [Next]_vars PROVE TypeOK'
  OBVIOUS
<1> USE DEF TypeOK
<1>1. CASE ExecutorStart
  <2>1. starts' \in 0..MaxStarts
    BY <1>1, RuntimeAssumption DEF ExecutorStart
  <2>2. queue' \in [Shards -> Seq(Tasks)] /\ worker' \in [Shards -> WorkerStates]
    BY <1>1, RecordTypes DEF ExecutorStart
  <2>3. QED  BY <1>1, <2>1, <2>2 DEF ExecutorStart, MainStates
<1>2. CASE EventLoopStart
  <2>1. loop' \in LoopStates /\ (loop'.pc \in {"post", "claim"} => loop'.target \in Sessions)
    BY <1>2, RecordTypes DEF EventLoopStart
  <2>2. QED  BY <1>2, <2>1 DEF EventLoopStart, MainStates
<1>3. CASE EventLoopStop
  BY <1>3 DEF EventLoopStop, MainStates
<1>4. CASE EventLoopWake
  BY <1>4 DEF EventLoopWake, MainStates
<1>5. CASE EventLoopJoin
  BY <1>5 DEF EventLoopJoin, Open, MainStates
<1>6. CASE ClearCallbacks
  BY <1>6 DEF ClearCallbacks, MainStates
<1>7. CASE RequestStop
  BY <1>7 DEF RequestStop, MainStates
<1>8. CASE JoinWorkers
  BY <1>8 DEF JoinWorkers, MainStates
<1>9. ASSUME NEW s \in Sessions, NEW f \in Fds, OpenDevice(s, f) PROVE TypeOK'
  <2>1. session' \in [Sessions -> SessionStates]
    BY <1>9 DEF OpenDevice, SessionStates, SessionPcs
  <2>2. QED  BY <1>9, <2>1 DEF OpenDevice
<1>10. ASSUME NEW s \in Sessions, RegisterFd(s) \/ StoreCallback(s) PROVE TypeOK'
  <2>1. session' \in [Sessions -> SessionStates]
    BY <1>10, GotoEffect DEF RegisterFd, StoreCallback, SessionPcs
  <2>2. QED  BY <1>10, <2>1 DEF RegisterFd, StoreCallback
<1>11. ASSUME NEW s \in Sessions, EpollAdd(s) PROVE TypeOK'
  <2>1. session' \in [Sessions -> SessionStates]
    BY <1>11, GotoEffect DEF EpollAdd, SessionPcs
  <2>2. QED  BY <1>11, <2>1 DEF EpollAdd
<1>12. ASSUME NEW s \in Sessions, StartStreaming(s) PROVE TypeOK'
  <2>1. session' \in [Sessions -> SessionStates]
    BY <1>12, GotoEffect DEF StartStreaming, SessionPcs
  <2>2. QED  BY <1>12, <2>1 DEF StartStreaming
<1>13. ASSUME NEW s \in Sessions, PostRequest(s) PROVE TypeOK'
  <2>1. session' \in [Sessions -> SessionStates]
    BY <1>13, GotoEffect DEF PostRequest, SessionPcs
  <2>2. posts' \in [Sessions -> Nat]
    BY <1>13 DEF PostRequest
  <2>3. QED  BY <1>13, <2>1, <2>2 DEF PostRequest
<1>14. ASSUME NEW s \in Sessions, ClaimRequest(s) PROVE TypeOK'
  <2>1. queue' \in [Shards -> Seq(Tasks)]
    BY <1>14, PostedTasks, EnqueueEffect DEF ClaimRequest
  <2>2. session' \in [Sessions -> SessionStates]
    BY <1>14, GotoEffect DEF ClaimRequest, SessionPcs
  <2>3. QED  BY <1>14, <2>1, <2>2 DEF ClaimRequest
<1>15. ASSUME NEW s \in Sessions, CloseDevice(s) PROVE TypeOK'
  <2>1. session' \in [Sessions -> SessionStates]
    BY <1>15, GotoEffect DEF CloseDevice, SessionPcs
  <2>2. QED  BY <1>15, <2>1 DEF CloseDevice
<1>16. ASSUME NEW s \in Sessions, EpollDel(s) PROVE TypeOK'
  <2>1. session' \in [Sessions -> SessionStates]
    BY <1>16, GotoEffect DEF EpollDel, SessionPcs
  <2>2. QED  BY <1>16, <2>1 DEF EpollDel
<1>17. ASSUME NEW s \in Sessions, EraseCallback(s) PROVE TypeOK'
  <2>1. session' \in [Sessions -> SessionStates]
    BY <1>17 DEF EraseCallback, SessionStates, SessionPcs
  <2>2. QED  BY <1>17, <2>1 DEF EraseCallback
<1>18. ASSUME NEW s \in Sessions, Destroy(s) PROVE TypeOK'
  <2>1. session' \in [Sessions -> SessionStates]
    BY <1>18, GotoEffect DEF Destroy, SessionPcs
  <2>2. QED  BY <1>18, <2>1 DEF Destroy
<1>19. ASSUME NEW s \in Sessions, DeviceReady(s) PROVE TypeOK'
  BY <1>19 DEF DeviceReady
<1>20. CASE LoopCheck
  BY <1>20, RecordTypes DEF LoopCheck, LoopUnchanged
<1>21. CASE EpollWait
  <2>1. loop' \in LoopStates /\ loop'.pc = "batch"
    BY <1>21, RecordTypes DEF EpollWait, Reported
  <2>2. QED  BY <1>21, <2>1 DEF EpollWait, LoopUnchanged
<1>22. ASSUME NEW f \in Fds, LookupCallback(f) PROVE TypeOK'
  <2>1. loop' \in LoopStates /\ (loop'.pc \in {"post", "claim"} => loop'.target \in Sessions)
    BY <1>22 DEF LookupCallback, LoopStates
  <2>2. QED  BY <1>22, <2>1 DEF LookupCallback, LoopUnchanged
<1>23. CASE BatchDone
  BY <1>23, RecordTypes DEF BatchDone, LoopUnchanged
<1>24. CASE PostReadiness
  <2>1. loop' \in LoopStates /\ (loop'.pc \in {"post", "claim"} => loop'.target \in Sessions)
    BY <1>24 DEF PostReadiness, LoopStates, LoopAt
  <2>2. lost' \subseteq Sessions
    BY <1>24 DEF PostReadiness, Open
  <2>3. QED  BY <1>24, <2>1, <2>2 DEF PostReadiness, LoopUnchanged
<1>25. CASE ClaimReadiness
  <2>1. loop.target \in Sessions /\ loop.fd \in Fds \cup {NoFd} /\ loop.batch \in SUBSET Fds
    BY <1>25 DEF ClaimReadiness, LoopStates
  <2>2. queue' \in [Shards -> Seq(Tasks)]
    BY <1>25, <2>1, PostedTasks, EnqueueEffect DEF ClaimReadiness
  <2>3. lost' \subseteq Sessions
    BY <1>25 DEF ClaimReadiness, Open
  <2>4. QED  BY <1>25, <2>1, <2>2, <2>3, RecordTypes DEF ClaimReadiness, LoopUnchanged
<1>26. ASSUME NEW w \in Shards, PopTask(w) PROVE TypeOK'
  <2>1. Head(queue[w]) \in Tasks /\ Tail(queue[w]) \in Seq(Tasks)
    BY <1>26, PopEffect DEF PopTask
  <2>2. worker' \in [Shards -> WorkerStates]
    BY <1>26, <2>1 DEF PopTask, WorkerStates, WorkerPcs
  <2>3. QED  BY <1>26, <2>1, <2>2 DEF PopTask, WorkerUnchanged
<1>27. ASSUME NEW w \in Shards,
              WorkerExit(w) \/ RunRequest(w) \/ RunReadiness(w) \/ RearmFd(w) \/ EpollMod(w)
       PROVE  TypeOK'
  <2>1. PICK x \in WorkerStates : worker' = [worker EXCEPT ![w] = x]
    <3>1. worker[w] \in WorkerStates
      OBVIOUS
    <3>2. \A pc \in WorkerPcs : [worker[w] EXCEPT !.pc = pc] \in WorkerStates
      BY <3>1, RecordTypes
    <3>3. QED
      BY <1>27, <3>2, RecordTypes
         DEF WorkerExit, RunRequest, RunReadiness, RearmFd, EpollMod, WorkerPcs
  <2>2. ready' \subseteq Sessions /\ interest' \in [Fds -> {"none", "armed", "disarmed"}]
    BY <1>27 DEF WorkerExit, RunRequest, RunReadiness, RearmFd, EpollMod
  <2>3. UNCHANGED <<queue, main, starts, loopVars, owner, callbacks, session, posts, loop,
                    stopped, started, asleep, historyVars>>
    BY <1>27 DEF WorkerExit, RunRequest, RunReadiness, RearmFd, EpollMod, WorkerUnchanged
  <2>4. QED  BY <2>1, <2>2, <2>3
<1>28. CASE UNCHANGED vars
  BY <1>28 DEF vars
<1>29. ASSUME NEW w \in Shards, Sleep(w) \/ Wake(w) PROVE TypeOK'
  BY <1>29 DEF Sleep, Wake
<1>30. QED
  BY <1>1, <1>2, <1>3, <1>4, <1>5, <1>6, <1>7, <1>8, <1>9, <1>10, <1>11, <1>12,
     <1>13, <1>14, <1>15, <1>16, <1>17, <1>18, <1>19, <1>20, <1>21, <1>22, <1>23,
     <1>24, <1>25, <1>26, <1>27, <1>28, <1>29
     DEF Next, StopStep, SessionStep, LoopStep, WorkerStep

-----------------------------------------------------------------------------
(* The inductive invariant.                                                *)

\* A task waits in, and is run by, the shard of its session.
Routed ==
  /\ \A w \in Shards : \A k \in DOMAIN queue[w] : ShardOf(queue[w][k]) = w
  /\ \A w \in Shards : worker[w].task # NoTask => ShardOf(worker[w].task) = w

\* A worker that waits, or has ended, has no task in hand.
IdleInv ==
  \A w \in Shards : worker[w].pc \in {"idle", "exited"} => worker[w].task = NoTask

\* running_ and epoll_fd_ follow start() and stop(), the loop's thread lives
\* between them, and it has an event in hand only while it posts it.
LoopInv ==
  /\ running <=> main = "up"
  /\ epoll <=> main \in {"up", "wake", "join_loop"}
  /\ loop.pc # "down" => main \in {"up", "wake", "join_loop"}
  /\ loop.pc \in {"down", "check", "wait"} => loop.batch = {}
  /\ loop.pc \notin {"post", "claim"} => loop.fd = NoFd

\* The order of stop(): no queue is stopped while the event loop lives, and a
\* worker ends on an empty, stopped queue, which only late requests can reach.
OnlyLateRequests(w) ==
  \A k \in DOMAIN queue[w] : queue[w][k].late /\ queue[w][k].kind = "request"

StopInv ==
  /\ starts = 0 => /\ main = "down" /\ ~started
                   /\ \A s \in Sessions : session[s].pc # "claim"
  /\ \A w \in Shards :
       /\ stopped[w] => main \in {"join_workers", "down"}
       /\ main = "down" => worker[w].pc = "exited"
       /\ worker[w].pc = "exited" => (starts = 0 \/ stopped[w]) /\ OnlyLateRequests(w)

\* An open session owns its descriptor number; a closed one that has still to
\* unregister the same number makes it a robbed one.
Closed == {"created", "stopped", "gone"}
Leaving == {"delete", "erase"}

DescriptorInv ==
  \A s \in Sessions :
    /\ session[s].pc \in Closed => session[s].fd = NoFd
    /\ session[s].pc \notin Closed => session[s].fd \in Fds
    /\ session[s].pc \notin Closed \cup Leaving =>
         /\ owner[session[s].fd] = s
         /\ \A t \in Sessions :
              session[t].pc \in Leaving /\ session[t].fd = session[s].fd => s \in robbed

\* A session that has neither lost its event nor been robbed keeps its callback
\* as long as there is an epoll set, and its one-shot descriptor is armed or its
\* event on the way to the rearm as long as the loop runs.
Registered(s) ==
  /\ epoll
  /\ session[s].pc # "store" => callbacks[session[s].fd] = s
  /\ session[s].pc \notin {"store", "add"} =>
       interest[session[s].fd] # "none" /\ (running => Reporting(s, session[s].fd))

ListenInv ==
  \A s \in Sessions :
    session[s].pc \in {"store", "add", "configured", "streaming", "claim"} =>
      s \in lost \cup robbed \/ Registered(s)

-----------------------------------------------------------------------------
(* What the steps of each thread leave alone.                              *)

MainThread == ExecutorStart \/ EventLoopStart \/ EventLoopStop \/ StopStep

SessionThread(s) ==
  \/ \E f \in Fds : OpenDevice(s, f)
  \/ StartStreaming(s) \/ PostRequest(s) \/ CloseDevice(s) \/ Destroy(s) \/ SessionStep(s)

\* Every step is a step of main, of a session's thread, of the loop, of a
\* worker, a report of a device, or a worker that sleeps or is woken.
LEMMA Threads ==
  [Next]_vars => \/ MainThread \/ LoopStep \/ UNCHANGED vars
                 \/ \E s \in Sessions : SessionThread(s) \/ DeviceReady(s)
                 \/ \E w \in Shards : WorkerStep(w) \/ Sleep(w) \/ Wake(w)
  BY DEF Next, MainThread, SessionThread

\* What start and stop of the runtime leave to the other threads.
LEMMA MainFrame ==
  MainThread => UNCHANGED <<session, posts, owner, ready, robbed>>
  BY DEF MainThread, ExecutorStart, EventLoopStart, EventLoopStop, StopStep,
         EventLoopWake, EventLoopJoin, ClearCallbacks, RequestStop, JoinWorkers

\* What the thread of one session leaves to the others.
LEMMA SessionFrame ==
  ASSUME NEW s \in Sessions, SessionThread(s)
  PROVE  UNCHANGED <<main, starts, running, wake, epoll, loop, stopped, started, worker>>
  BY DEF SessionThread, SessionStep, OpenDevice, StartStreaming, PostRequest,
         CloseDevice, Destroy, RegisterFd, StoreCallback, EpollAdd, ClaimRequest, EpollDel,
         EraseCallback

\* What the event loop leaves to the other threads.
LEMMA LoopFrame == LoopStep => LoopUnchanged
  BY DEF LoopStep, LoopCheck, EpollWait, BatchDone, PostReadiness, ClaimReadiness,
         LookupCallback

\* What the worker of one shard leaves to the others.
LEMMA WorkerFrame ==
  ASSUME NEW w \in Shards, WorkerStep(w)
  PROVE  WorkerUnchanged
  BY DEF WorkerStep, PopTask, WorkerExit, RunRequest, RunReadiness, RearmFd, EpollMod

\* A device that reports changes the ready descriptors only.
LEMMA DeviceFrame ==
  ASSUME NEW s \in Sessions, DeviceReady(s)
  PROVE  /\ UNCHANGED <<main, starts, running, wake, epoll, interest, owner, callbacks>>
         /\ UNCHANGED <<session, posts, loop, queue, stopped, started, worker, lost, robbed>>
  BY DEF DeviceReady

\* A worker that sleeps, or is woken, changes nothing else.
LEMMA SleepFrame ==
  ASSUME NEW w \in Shards, Sleep(w) \/ Wake(w)
  PROVE  /\ UNCHANGED <<main, starts, running, wake, epoll, interest, owner, callbacks>>
         /\ UNCHANGED <<session, posts, loop, queue, stopped, started, worker, lost, robbed>>
         /\ UNCHANGED ready
  BY DEF Sleep, Wake

\* The queues change by a push, a pop or the executor's start.
LEMMA QueueFrame ==
  ASSUME [Next]_vars
  PROVE  \/ ExecutorStart \/ ClaimReadiness \/ \E s \in Sessions : ClaimRequest(s)
         \/ \E w \in Shards : PopTask(w)
         \/ queue' = queue
<1>1. MainThread => ExecutorStart \/ queue' = queue
  BY DEF MainThread, EventLoopStart, EventLoopStop, StopStep,
         EventLoopWake, EventLoopJoin, ClearCallbacks, RequestStop, JoinWorkers
<1>2. \A s \in Sessions : SessionThread(s) => ClaimRequest(s) \/ queue' = queue
  BY DEF SessionThread, SessionStep, OpenDevice, StartStreaming, PostRequest,
         CloseDevice, Destroy, RegisterFd, StoreCallback, EpollAdd, EpollDel, EraseCallback
<1>3. LoopStep => ClaimReadiness \/ queue' = queue
  BY DEF LoopStep, LoopCheck, EpollWait, BatchDone, PostReadiness, LookupCallback
<1>4. \A w \in Shards : WorkerStep(w) => PopTask(w) \/ queue' = queue
  BY DEF WorkerStep, WorkerExit, RunRequest, RunReadiness, RearmFd, EpollMod
<1>5. QED  BY <1>1, <1>2, <1>3, <1>4, Threads, DeviceFrame, SleepFrame DEF vars

\* A worker's step other than a pop keeps its task or drops it.
LEMMA TaskKeptOrDropped ==
  ASSUME TypeOK, NEW w \in Shards, WorkerStep(w), ~PopTask(w)
  PROVE  /\ queue' = queue
         /\ \A v \in Shards \ {w} : worker'[v] = worker[v]
         /\ worker'[w].task \in {worker[w].task, NoTask}
         /\ worker'[w].pc = "exited" => stopped[w] /\ queue[w] = <<>>
         /\ worker'[w].pc \in {"idle", "exited"} =>
              worker'[w].task = NoTask \/ worker[w].pc = "idle"
         /\ worker[w].pc # "exited"
<1>1. worker \in [Shards -> WorkerStates] /\ worker[w] \in WorkerStates
  BY DEF TypeOK
<1>2. PICK x : worker' = [worker EXCEPT ![w] = x] /\ x.task \in {worker[w].task, NoTask}
               /\ (x.pc = "exited" => stopped[w] /\ queue[w] = <<>>)
               /\ (x.pc \in {"idle", "exited"} => x.task = NoTask \/ worker[w].pc = "idle")
  BY <1>1 DEF WorkerStep, WorkerExit, RunRequest, RunReadiness, RearmFd, EpollMod,
              WorkerStates, IdleWorker
<1>3. queue' = queue /\ worker[w].pc # "exited"
  BY DEF WorkerStep, WorkerExit, RunRequest, RunReadiness, RearmFd, EpollMod
<1>4. QED  BY <1>1, <1>2, <1>3

\* The other threads leave the workers alone, but for the executor's start.
LEMMA TasksFrame ==
  ASSUME [Next]_vars
  PROVE  \/ ExecutorStart \/ \E w \in Shards : WorkerStep(w)
         \/ worker' = worker
<1>1. MainThread => ExecutorStart \/ worker' = worker
  BY DEF MainThread, EventLoopStart, EventLoopStop, StopStep,
         EventLoopWake, EventLoopJoin, ClearCallbacks, RequestStop, JoinWorkers
<1>2. QED  BY <1>1, Threads, SessionFrame, DeviceFrame, SleepFrame, LoopFrame DEF vars, LoopUnchanged

-----------------------------------------------------------------------------
QueueRouted == \A w \in Shards : \A k \in DOMAIN queue[w] : ShardOf(queue[w][k]) = w

\* post puts a task of session s into the queue of s's shard.
LEMMA PushRouted ==
  ASSUME TypeOK, QueueRouted, NEW task \in Tasks, ShardOf(task) \in Shards, Enqueue(task)
  PROVE  QueueRouted'
<1> DEFINE w == ShardOf(task)
<1>0. queue \in [Shards -> Seq(Tasks)] /\ stopped \in [Shards -> BOOLEAN]
  BY DEF TypeOK
<1>1. PICK x \in Tasks :
        /\ x.kind = task.kind /\ x.session = task.session /\ x.fd = task.fd
        /\ x.late = stopped[w]
        /\ queue' \in [Shards -> Seq(Tasks)]
        /\ \A v \in Shards \ {w} : queue'[v] = queue[v]
        /\ \A k \in DOMAIN queue[w] : k \in DOMAIN queue'[w] /\ queue'[w][k] = queue[w][k]
        /\ \A k \in DOMAIN queue'[w] : k \in DOMAIN queue[w] \/ queue'[w][k] = x
        /\ \E k \in DOMAIN queue'[w] : queue'[w][k] = x
  BY <1>0, EnqueueEffect
<1>2. ShardOf(x) = w
  BY <1>1 DEF ShardOf
<1>3. ASSUME NEW v \in Shards, NEW k \in DOMAIN queue'[v] PROVE ShardOf(queue'[v][k]) = v
  <2>1. CASE v = w /\ queue'[v][k] = x
    BY <1>2, <2>1
  <2>2. CASE k \in DOMAIN queue[v] /\ queue'[v][k] = queue[v][k]
    BY <2>2 DEF QueueRouted
  <2>3. QED  BY <1>1, <1>3, <2>1, <2>2
<1>4. QED  BY <1>3 DEF QueueRouted, ShardOf

\* Requests and readiness of one session reach the same shard.
LEMMA RoutedNext ==
  ASSUME TypeOK, Routed, [Next]_vars
  PROVE  Routed'
<1> DEFINE WorkerRouted == \A w \in Shards : worker[w].task # NoTask => ShardOf(worker[w].task) = w
<1> USE DEF TypeOK
<1>1. CASE ExecutorStart
  BY <1>1 DEF ExecutorStart, Routed, IdleWorker
<1>2. ASSUME NEW s \in Sessions, ClaimRequest(s) PROVE QueueRouted'
  <2>1. Request(s) \in Tasks /\ ShardOf(Request(s)) \in Shards
    BY PostedTasks
  <2>2. CASE queue' = queue
    BY <2>2 DEF Routed, QueueRouted, ShardOf
  <2>3. CASE Enqueue(Request(s))
    BY <2>1, <2>3, PushRouted DEF Routed, QueueRouted
  <2>4. QED  BY <1>2, <2>2, <2>3 DEF ClaimRequest
<1>3. ASSUME ClaimReadiness PROVE QueueRouted'
  <2> DEFINE task == Readiness(loop.target, loop.fd)
  <2>1. task \in Tasks /\ ShardOf(task) \in Shards
    BY <1>3, PostedTasks DEF ClaimReadiness, LoopStates
  <2>2. CASE queue' = queue
    BY <2>2 DEF Routed, QueueRouted, ShardOf
  <2>3. CASE Enqueue(task)
    BY <2>1, <2>3, PushRouted DEF Routed, QueueRouted
  <2>4. QED  BY <1>3, <2>2, <2>3 DEF ClaimReadiness
<1>4. ASSUME NEW w \in Shards, PopTask(w) PROVE QueueRouted' /\ WorkerRouted'
  <2>1. queue[w] \in Seq(Tasks) /\ queue[w] # <<>>
    BY <1>4 DEF PopTask
  <2>2. /\ queue'[w] = Tail(queue[w]) /\ worker'[w].task = queue[w][1]
        /\ \A v \in Shards \ {w} : queue'[v] = queue[v] /\ worker'[v] = worker[v]
    BY <1>4, <2>1, PopEffect DEF PopTask
  <2>3. /\ 1 \in DOMAIN queue[w]
        /\ \A k \in DOMAIN queue'[w] : k + 1 \in DOMAIN queue[w]
                                       /\ queue'[w][k] = queue[w][k + 1]
    BY <2>1, <2>2, PopEffect
  <2>4. \A v \in Shards : \A k \in DOMAIN queue'[v] : ShardOf(queue'[v][k]) = v
    <3>1. \A k \in DOMAIN queue'[w] : ShardOf(queue'[w][k]) = w
      BY <2>3 DEF Routed
    <3>2. \A v \in Shards \ {w} : \A k \in DOMAIN queue'[v] : ShardOf(queue'[v][k]) = v
      BY <2>2 DEF Routed
    <3>3. QED  BY <3>1, <3>2
  <2>5. ShardOf(worker'[w].task) = w
    BY <2>2, <2>3 DEF Routed
  <2>6. \A v \in Shards : worker'[v].task # NoTask => ShardOf(worker'[v].task) = v
    BY <2>2, <2>5 DEF Routed
  <2>7. QED  BY <2>4, <2>6 DEF QueueRouted, ShardOf
<1>5. ASSUME NEW w \in Shards, WorkerStep(w), ~PopTask(w) PROVE WorkerRouted'
  <2>1. /\ \A v \in Shards \ {w} : worker'[v] = worker[v]
        /\ worker'[w].task \in {worker[w].task, NoTask}
    BY <1>5, TaskKeptOrDropped
  <2>2. QED  BY <2>1 DEF Routed
<1>6. CASE ~ExecutorStart
  <2>1. QueueRouted'
    BY <1>2, <1>3, <1>4, <1>6, QueueFrame DEF Routed, QueueRouted, ShardOf
  <2>2. WorkerRouted'
    BY <1>4, <1>5, <1>6, TasksFrame DEF Routed, ShardOf
  <2>3. QED  BY <2>1, <2>2 DEF Routed, QueueRouted
<1>7. QED  BY <1>1, <1>6

\* A worker that runs no task holds none.
LEMMA IdleNext ==
  ASSUME TypeOK, IdleInv, [Next]_vars
  PROVE  IdleInv'
<1>1. CASE ExecutorStart
  BY <1>1 DEF ExecutorStart, IdleInv, IdleWorker
<1>2. ASSUME NEW w \in Shards, PopTask(w) PROVE IdleInv'
  <2>1. worker'[w].pc = "run" /\ \A v \in Shards \ {w} : worker'[v] = worker[v]
    BY <1>2 DEF PopTask, TypeOK
  <2>2. QED  BY <2>1 DEF IdleInv
<1>3. ASSUME NEW w \in Shards, WorkerStep(w), ~PopTask(w) PROVE IdleInv'
  <2>1. /\ \A v \in Shards \ {w} : worker'[v] = worker[v]
        /\ worker'[w].task \in {worker[w].task, NoTask}
        /\ worker'[w].pc \in {"idle", "exited"} =>
             worker'[w].task = NoTask \/ worker[w].pc = "idle"
    BY <1>3, TaskKeptOrDropped
  <2>2. worker'[w].pc \in {"idle", "exited"} => worker'[w].task = NoTask
    BY <2>1 DEF IdleInv
  <2>3. QED  BY <2>1, <2>2 DEF IdleInv
<1>4. QED  BY <1>1, <1>2, <1>3, TasksFrame DEF IdleInv

\* The loop runs only between start and the join of its thread.
LEMMA LoopNext ==
  ASSUME TypeOK, LoopInv, [Next]_vars
  PROVE  LoopInv'
<1>1. CASE MainThread
  <2>1. CASE EventLoopStart
    BY <2>1 DEF EventLoopStart, LoopInv, LoopAt
  <2>2. CASE ExecutorStart \/ EventLoopStop \/ StopStep
    <3>1. loop' = loop
      BY <2>2 DEF ExecutorStart, EventLoopStop, StopStep, EventLoopWake, EventLoopJoin,
                  ClearCallbacks, RequestStop, JoinWorkers
    <3>2. (running' <=> main' = "up") /\ (epoll' <=> main' \in {"up", "wake", "join_loop"})
      BY <2>2 DEF ExecutorStart, EventLoopStop, StopStep, EventLoopWake, EventLoopJoin,
                  ClearCallbacks, RequestStop, JoinWorkers, LoopInv
    <3>3. loop'.pc # "down" => main' \in {"up", "wake", "join_loop"}
      BY <2>2, <3>1 DEF ExecutorStart, EventLoopStop, StopStep, EventLoopWake,
                  EventLoopJoin, ClearCallbacks, RequestStop, JoinWorkers, LoopInv
    <3>4. QED  BY <3>1, <3>2, <3>3 DEF LoopInv
  <2>3. QED  BY <1>1, <2>1, <2>2 DEF MainThread
<1>2. CASE LoopStep
  <2>1. UNCHANGED <<main, running, epoll>> /\ loop \in LoopStates
    BY <1>2, LoopFrame DEF LoopUnchanged, TypeOK
  <2>2. /\ loop'.pc \in {"down", "check", "wait"} => loop'.batch = {}
        /\ loop'.pc \notin {"post", "claim"} => loop'.fd = NoFd
        /\ loop.pc # "down"
    BY <1>2, <2>1 DEF LoopStep, LoopCheck, EpollWait, BatchDone, PostReadiness,
                      ClaimReadiness, LookupCallback, LoopInv, LoopAt, LoopStates
  <2>3. QED  BY <2>1, <2>2 DEF LoopInv
<1>3. CASE UNCHANGED <<main, running, epoll, loop>>
  BY <1>3 DEF LoopInv
<1>4. QED
  BY <1>1, <1>2, <1>3, Threads, SessionFrame, DeviceFrame, SleepFrame, WorkerFrame
     DEF vars, WorkerUnchanged

-----------------------------------------------------------------------------
(* The order of stop().                                                    *)

\* A pushed task is late exactly when its queue is stopped.
LEMMA PushStop ==
  ASSUME TypeOK, StopInv, NEW task \in Tasks, ShardOf(task) \in Shards, Enqueue(task),
         LET w == ShardOf(task) IN
         worker[w].pc = "exited" => stopped[w] /\ task.kind = "request"
  PROVE  \A w \in Shards : worker[w].pc = "exited" => OnlyLateRequests(w)'
<1> DEFINE w == ShardOf(task)
<1>0. queue \in [Shards -> Seq(Tasks)] /\ stopped \in [Shards -> BOOLEAN]
  BY DEF TypeOK
<1>1. PICK x \in Tasks :
        /\ x.kind = task.kind /\ x.session = task.session /\ x.fd = task.fd
        /\ x.late = stopped[w]
        /\ queue' \in [Shards -> Seq(Tasks)]
        /\ \A v \in Shards \ {w} : queue'[v] = queue[v]
        /\ \A k \in DOMAIN queue[w] : k \in DOMAIN queue'[w] /\ queue'[w][k] = queue[w][k]
        /\ \A k \in DOMAIN queue'[w] : k \in DOMAIN queue[w] \/ queue'[w][k] = x
        /\ \E k \in DOMAIN queue'[w] : queue'[w][k] = x
  BY <1>0, EnqueueEffect
<1>2. ASSUME NEW v \in Shards, worker[v].pc = "exited", NEW k \in DOMAIN queue'[v]
      PROVE  queue'[v][k].late /\ queue'[v][k].kind = "request"
  <2>1. CASE k \in DOMAIN queue[v] /\ queue'[v][k] = queue[v][k]
    BY <1>2, <2>1 DEF StopInv, OnlyLateRequests
  <2>2. CASE v = w /\ queue'[v][k] = x
    BY <1>1, <1>2, <2>2
  <2>3. QED  BY <1>1, <1>2, <2>1, <2>2
<1>3. QED  BY <1>2 DEF OnlyLateRequests

\* stop drains: every step keeps what is known of stopped and exited shards.
LEMMA StopNext ==
  ASSUME TypeOK, LoopInv, StopInv, [Next]_vars
  PROVE  StopInv'
<1> DEFINE Started == starts = 0 => /\ main = "down" /\ ~started
                                    /\ \A s \in Sessions : session[s].pc # "claim"
           Shard(w) == /\ stopped[w] => main \in {"join_workers", "down"}
                       /\ main = "down" => worker[w].pc = "exited"
                       /\ worker[w].pc = "exited" => starts = 0 \/ stopped[w]
                       /\ worker[w].pc = "exited" => OnlyLateRequests(w)
<1>1. Started /\ \A w \in Shards : Shard(w)
  BY DEF StopInv
<1>2. SUFFICES Started' /\ \A w \in Shards : Shard(w)'
  BY DEF StopInv
<1>3. CASE ExecutorStart
  <2>1. starts' # 0
    BY <1>3, RuntimeAssumption DEF ExecutorStart, TypeOK
  <2>2. QED  BY <1>3, <2>1 DEF ExecutorStart, IdleWorker
<1>4. CASE RequestStop
  BY <1>1, <1>4 DEF RequestStop, OnlyLateRequests
<1>5. CASE JoinWorkers
  BY <1>1, <1>5 DEF JoinWorkers, OnlyLateRequests
<1>6. CASE EventLoopStart \/ EventLoopStop \/ EventLoopWake \/ EventLoopJoin \/ ClearCallbacks
  <2>1. /\ UNCHANGED <<starts, session, queue, stopped, started, worker>>
        /\ main \notin {"down", "join_workers"} /\ main' # "down"
    BY <1>6 DEF EventLoopStart, EventLoopStop, EventLoopWake, EventLoopJoin, ClearCallbacks
  <2>2. QED  BY <1>1, <2>1 DEF OnlyLateRequests
<1>7. ASSUME NEW s \in Sessions, SessionThread(s) PROVE Started' /\ \A w \in Shards : Shard(w)'
  <2>1. UNCHANGED <<main, starts, stopped, started, worker>>
    BY <1>7, SessionFrame
  <2>2. CASE ClaimRequest(s)
    <3>1. session[s].pc = "claim" /\ session'[s].pc = "streaming"
          /\ \A t \in Sessions : t # s => session'[t] = session[t]
      BY <2>2, GotoEffect DEF ClaimRequest, TypeOK, SessionPcs
    <3>2. starts # 0
      BY <1>1, <3>1
    <3>3. \A w \in Shards : worker[w].pc = "exited" => OnlyLateRequests(w)'
      <4>1. CASE queue' = queue
        BY <1>1, <4>1 DEF OnlyLateRequests
      <4>2. CASE Enqueue(Request(s))
        BY <1>1, <3>2, <4>2, PostedTasks, PushStop DEF Request
      <4>3. QED  BY <2>2, <4>1, <4>2 DEF ClaimRequest
    <3>4. QED  BY <1>1, <2>1, <3>2, <3>3
  <2>3. CASE ~ClaimRequest(s)
    <3>1. queue' = queue
      BY <1>7, <2>3 DEF SessionThread, SessionStep, OpenDevice, StartStreaming,
         PostRequest, CloseDevice, Destroy, RegisterFd, StoreCallback, EpollAdd, EpollDel,
         EraseCallback
    <3>2. ASSUME starts = 0, NEW t \in Sessions PROVE session'[t].pc # "claim"
      <4>1. ~started /\ session[t].pc # "claim" /\ session \in [Sessions -> SessionStates]
        BY <1>1, <3>2 DEF TypeOK
      <4>2. CASE PostRequest(s)
        BY <4>1, <4>2 DEF PostRequest, CanEnter
      <4>3. CASE \E f \in Fds : OpenDevice(s, f)
        BY <4>1, <4>3 DEF OpenDevice
      <4>4. CASE EraseCallback(s)
        BY <4>1, <4>4 DEF EraseCallback
      <4>5. CASE \/ StartStreaming(s) \/ CloseDevice(s) \/ Destroy(s) \/ RegisterFd(s)
                 \/ StoreCallback(s) \/ EpollAdd(s) \/ EpollDel(s)
        <5>1. PICK pc \in SessionPcs \ {"claim"} : Goto(s, pc)
          BY <4>5 DEF StartStreaming, CloseDevice, Destroy, RegisterFd, StoreCallback, EpollAdd,
                      EpollDel, SessionPcs
        <5>2. QED  BY <4>1, <5>1, GotoEffect
      <4>6. QED  BY <1>7, <2>3, <4>2, <4>3, <4>4, <4>5 DEF SessionThread, SessionStep
    <3>3. QED  BY <1>1, <2>1, <3>1, <3>2 DEF OnlyLateRequests
  <2>4. QED  BY <2>2, <2>3
<1>8. CASE LoopStep
  <2>1. UNCHANGED <<main, starts, stopped, started, worker, session>>
    BY <1>8, LoopFrame DEF LoopUnchanged
  <2>2. CASE ClaimReadiness /\ queue' # queue
    <3>1. main \in {"up", "wake", "join_loop"} /\ loop.target \in Sessions
          /\ loop.fd \in Fds \cup {NoFd}
      BY <2>2 DEF ClaimReadiness, LoopInv, TypeOK, LoopStates
    <3>2. \A w \in Shards : worker[w].pc # "exited"
      BY <1>1, <3>1
    <3>3. QED  BY <1>1, <2>1, <3>2
  <2>3. CASE queue' = queue
    BY <1>1, <2>1, <2>3 DEF OnlyLateRequests
  <2>4. QED
    BY <1>8, <2>2, <2>3 DEF LoopStep, LoopCheck, EpollWait, BatchDone, PostReadiness,
                            LookupCallback
<1>9. ASSUME NEW w \in Shards, WorkerStep(w) PROVE Started' /\ \A v \in Shards : Shard(v)'
  <2>1. UNCHANGED <<main, starts, stopped, started, session>>
    BY <1>9, WorkerFrame DEF WorkerUnchanged
  <2>2. CASE PopTask(w)
    <3>1. /\ worker[w].pc = "idle" /\ worker'[w].pc = "run"
          /\ \A v \in Shards \ {w} : queue'[v] = queue[v] /\ worker'[v] = worker[v]
      BY <2>2 DEF PopTask, TypeOK
    <3>2. QED  BY <1>1, <2>1, <3>1 DEF OnlyLateRequests
  <2>3. CASE ~PopTask(w)
    <3>1. /\ queue' = queue /\ \A v \in Shards \ {w} : worker'[v] = worker[v]
          /\ worker'[w].pc = "exited" => stopped[w] /\ queue[w] = <<>>
          /\ worker[w].pc # "exited"
      BY <1>9, <2>3, TaskKeptOrDropped
    <3>2. QED  BY <1>1, <2>1, <3>1 DEF OnlyLateRequests
  <2>4. QED  BY <2>2, <2>3
<1>10. CASE UNCHANGED <<main, starts, stopped, started, worker, session, queue>>
  BY <1>1, <1>10 DEF OnlyLateRequests
<1>11. QED
  BY <1>3, <1>4, <1>5, <1>6, <1>7, <1>8, <1>9, <1>10, Threads, DeviceFrame, SleepFrame
     DEF MainThread, StopStep, vars

-----------------------------------------------------------------------------
(* Who owns a descriptor number.                                           *)

\* The steps of a session's thread, by what they do to its record.
LEMMA SessionMoves ==
  ASSUME TypeOK, NEW s \in Sessions, SessionThread(s)
  PROVE  /\ \A t \in Sessions : t # s => session'[t] = session[t]
         /\ session' \in [Sessions -> SessionStates]
         /\ \/ /\ session[s].pc = "created" /\ session'[s].pc = "register"
               /\ session'[s].fd \in Fds /\ OpenDevice(s, session'[s].fd)
            \/ /\ session[s].pc = "erase" /\ session'[s].pc = "stopped"
               /\ session'[s].fd = NoFd /\ EraseCallback(s)
            \/ /\ session'[s].fd = session[s].fd /\ CloseDevice(s)
               /\ session'[s].pc = IF session[s].fd = NoFd THEN "stopped" ELSE "delete"
            \/ /\ session'[s].fd = session[s].fd /\ Destroy(s)
               /\ session[s].pc = "stopped" /\ session'[s].pc = "gone"
            \/ /\ session'[s].fd = session[s].fd /\ EpollDel(s)
               /\ session[s].pc = "delete" /\ session'[s].pc = "erase"
            \/ /\ session'[s].fd = session[s].fd
               /\ session[s].pc \in {"register", "store", "add", "configured", "streaming", "claim"}
               /\ session'[s].pc \in {"store", "add", "configured", "streaming", "claim", "error"}
               /\ UNCHANGED <<owner, robbed, lost, ready>>
               /\ \/ RegisterFd(s) \/ StoreCallback(s) \/ EpollAdd(s) \/ StartStreaming(s)
                  \/ PostRequest(s) \/ ClaimRequest(s)
<1> USE DEF TypeOK
<1>1. ASSUME NEW f \in Fds, OpenDevice(s, f)
      PROVE  /\ session'[s] = [pc |-> "register", fd |-> f] /\ session[s].pc = "created"
             /\ session' \in [Sessions -> SessionStates]
             /\ \A t \in Sessions : t # s => session'[t] = session[t]
             /\ session'[s].pc = "register" /\ session'[s].fd = f
             /\ OpenDevice(s, session'[s].fd)
  BY <1>1 DEF OpenDevice, SessionStates, SessionPcs
<1>2. ASSUME EraseCallback(s)
      PROVE  /\ session'[s] = [pc |-> "stopped", fd |-> NoFd] /\ session[s].pc = "erase"
             /\ session' \in [Sessions -> SessionStates]
             /\ \A t \in Sessions : t # s => session'[t] = session[t]
             /\ session'[s].pc = "stopped" /\ session'[s].fd = NoFd
  BY <1>2 DEF EraseCallback, SessionStates, SessionPcs
<1>3. CASE CloseDevice(s)
  BY <1>3, GotoEffect DEF CloseDevice, SessionPcs
<1>4. CASE Destroy(s)
  BY <1>4, GotoEffect DEF Destroy, SessionPcs
<1>5. CASE EpollDel(s)
  BY <1>5, GotoEffect DEF EpollDel, SessionPcs
<1>6. CASE \/ RegisterFd(s) \/ StoreCallback(s) \/ EpollAdd(s) \/ StartStreaming(s)
           \/ PostRequest(s) \/ ClaimRequest(s)
  <2>1. session[s].pc \in {"register", "store", "add", "configured", "streaming", "claim"}
    BY <1>6 DEF RegisterFd, StoreCallback, EpollAdd, StartStreaming, PostRequest, ClaimRequest
  <2>2. UNCHANGED <<owner, robbed, lost, ready>>
    BY <1>6 DEF RegisterFd, StoreCallback, EpollAdd, StartStreaming, PostRequest, ClaimRequest
  <2>3. CASE \E pc \in {"store", "add", "configured", "streaming", "claim", "error"} : Goto(s, pc)
    BY <1>6, <2>1, <2>2, <2>3, GotoEffect DEF SessionPcs
  <2>4. CASE PostRequest(s) /\ session' = session
    BY <2>1, <2>2, <2>4 DEF PostRequest
  <2>5. QED
    BY <1>6, <2>3, <2>4
       DEF RegisterFd, StoreCallback, EpollAdd, StartStreaming, PostRequest, ClaimRequest
<1>7. CASE \E f \in Fds : OpenDevice(s, f)
  BY <1>1, <1>7
<1>8. CASE EraseCallback(s)
  BY <1>2, <1>8
<1>9. QED  BY <1>3, <1>4, <1>5, <1>6, <1>7, <1>8 DEF SessionThread, SessionStep

\* A descriptor that is open belongs to the session that opened it.
LEMMA DescriptorNext ==
  ASSUME TypeOK, DescriptorInv, [Next]_vars
  PROVE  DescriptorInv'
<1> DEFINE Descriptor(s) ==
      /\ session[s].pc \in Closed => session[s].fd = NoFd
      /\ session[s].pc \notin Closed => session[s].fd \in Fds
      /\ session[s].pc \notin Closed \cup Leaving => owner[session[s].fd] = s
    Robbed(s, t) ==
      /\ session[s].pc \notin Closed \cup Leaving
      /\ session[t].pc \in Leaving /\ session[t].fd = session[s].fd
      => s \in robbed
<1>1. \A s \in Sessions : Descriptor(s) /\ \A t \in Sessions : Robbed(s, t)
  BY DEF DescriptorInv
<1>2. SUFFICES \A s \in Sessions : Descriptor(s)' /\ \A t \in Sessions : Robbed(s, t)'
  BY DEF DescriptorInv
<1>3. CASE UNCHANGED <<session, owner, robbed>>
  BY <1>1, <1>3
<1>4. ASSUME NEW s \in Sessions, SessionThread(s)
      PROVE  \A u \in Sessions : Descriptor(u)' /\ \A t \in Sessions : Robbed(u, t)'
  <2> USE DEF Closed, Leaving
  <2>1. /\ \A t \in Sessions : t # s => session'[t] = session[t]
        /\ owner \in [Fds -> Sessions \cup {NoSession}] /\ NoSession \notin Sessions
        /\ NoFd \notin Fds
    BY <1>4, SessionMoves, RuntimeAssumption DEF TypeOK
  <2>2. CASE OpenDevice(s, session'[s].fd) /\ session'[s].fd \in Fds
             /\ session[s].pc = "created" /\ session'[s].pc = "register"
    <3> DEFINE f == session'[s].fd
    <3>1. /\ owner[f] = NoSession /\ owner' = [owner EXCEPT ![f] = s]
          /\ robbed' = IF BeingUnregistered(f) THEN robbed \cup {s} ELSE robbed
      BY <2>2 DEF OpenDevice
    <3>2. \A u \in Sessions : Descriptor(u)'
      BY <1>1, <2>1, <2>2, <3>1
    <3>3. \A t \in Sessions : t # s => Robbed(s, t)'
      BY <1>1, <2>1, <2>2, <3>1 DEF BeingUnregistered
    <3>4. \A u, t \in Sessions : u # s => Robbed(u, t)'
      BY <1>1, <2>1, <2>2, <3>1
    <3>5. Robbed(s, s)'
      BY <2>2
    <3>6. QED  BY <3>2, <3>3, <3>4, <3>5
  <2>3. CASE EraseCallback(s) /\ session'[s].pc = "stopped" /\ session'[s].fd = NoFd
    <3>1. UNCHANGED <<owner, robbed>>
      BY <2>3 DEF EraseCallback
    <3>2. QED  BY <1>1, <2>1, <2>3, <3>1
  <2>4. CASE CloseDevice(s) /\ session'[s].fd = session[s].fd
             /\ session'[s].pc = IF session[s].fd = NoFd THEN "stopped" ELSE "delete"
    <3>1. /\ session[s].pc \in {"created", "configured", "streaming", "error"}
          /\ owner' = IF session[s].fd = NoFd THEN owner
                      ELSE [owner EXCEPT ![session[s].fd] = NoSession]
          /\ robbed' = robbed \ {s}
      BY <2>4 DEF CloseDevice
    <3>2. \A u \in Sessions : Descriptor(u)'
      BY <1>1, <2>1, <2>4, <3>1
    <3>3. \A u, t \in Sessions : Robbed(u, t)'
      BY <1>1, <2>1, <2>4, <3>1
    <3>4. QED  BY <3>2, <3>3
  <2>5. CASE (Destroy(s) \/ EpollDel(s)) /\ session'[s].fd = session[s].fd
             /\ \/ session[s].pc = "stopped" /\ session'[s].pc = "gone"
                \/ session[s].pc = "delete" /\ session'[s].pc = "erase"
    <3>1. UNCHANGED <<owner, robbed>>
      BY <2>5 DEF Destroy, EpollDel
    <3>2. QED  BY <1>1, <2>1, <2>5, <3>1
  <2>6. CASE /\ session'[s].fd = session[s].fd
             /\ session[s].pc \in {"register", "store", "add", "configured", "streaming", "claim"}
             /\ session'[s].pc \in {"store", "add", "configured", "streaming", "claim", "error"}
             /\ UNCHANGED <<owner, robbed>>
    BY <1>1, <2>1, <2>6
  <2>7. QED  BY <1>4, <2>2, <2>3, <2>4, <2>5, <2>6, SessionMoves
<1>5. QED
  BY <1>3, <1>4, Threads, MainFrame, LoopFrame, DeviceFrame, SleepFrame, WorkerFrame
     DEF vars, LoopUnchanged, WorkerUnchanged

-----------------------------------------------------------------------------
(* The one-shot descriptor through loop, queue, worker and rearm.          *)

\* Nobody else uses the number of an open session that is not robbed.
LEMMA OwnDescriptor ==
  ASSUME DescriptorInv, NEW s \in Sessions, NEW t \in Sessions, s # t, s \notin robbed,
         session[s].pc \notin Closed \cup Leaving
  PROVE  /\ session[s].fd \in Fds /\ owner[session[s].fd] = s
         /\ session[t].fd # session[s].fd
  BY RuntimeAssumption DEF DescriptorInv, Closed, Leaving

\* A push hides no task that was there before.
QueueGrows ==
  \A w \in Shards : \A k \in DOMAIN queue[w] :
    k \in DOMAIN queue'[w] /\ queue'[w][k] = queue[w][k]

\* A push never takes a task out of a queue.
LEMMA PushGrows ==
  ASSUME TypeOK, NEW task \in Tasks, ShardOf(task) \in Shards, Enqueue(task)
  PROVE  /\ QueueGrows
         /\ \E w \in Shards : \E k \in DOMAIN queue'[w] :
              /\ queue'[w][k].kind = task.kind /\ queue'[w][k].session = task.session
              /\ queue'[w][k].fd = task.fd
<1> DEFINE w == ShardOf(task)
<1>1. queue \in [Shards -> Seq(Tasks)] /\ stopped \in [Shards -> BOOLEAN]
  BY DEF TypeOK
<1>2. PICK x \in Tasks :
        /\ x.kind = task.kind /\ x.session = task.session /\ x.fd = task.fd
        /\ x.late = stopped[w]
        /\ queue' \in [Shards -> Seq(Tasks)]
        /\ \A v \in Shards \ {w} : queue'[v] = queue[v]
        /\ \A k \in DOMAIN queue[w] : k \in DOMAIN queue'[w] /\ queue'[w][k] = queue[w][k]
        /\ \A k \in DOMAIN queue'[w] : k \in DOMAIN queue[w] \/ queue'[w][k] = x
        /\ \E k \in DOMAIN queue'[w] : queue'[w][k] = x
  BY <1>1, EnqueueEffect
<1>3. QueueGrows
  BY <1>2 DEF QueueGrows
<1>4. QED  BY <1>2, <1>3

\* An event on its way to the rearm stays on its way while its steps are
\* left alone.
LEMMA ReportingKept ==
  ASSUME NEW s, NEW f, QueueGrows, UNCHANGED <<loop, worker>>,
         interest'[f] = interest[f], Reporting(s, f)
  PROVE  Reporting(s, f)'
  BY DEF Reporting, QueueGrows, Mine

\* Steps of main keep every open session listening, lost or robbed.
LEMMA ListenMain ==
  ASSUME TypeOK, LoopInv, DescriptorInv, ListenInv, MainThread
  PROVE  ListenInv'
<1> SUFFICES ASSUME NEW s \in Sessions,
                    session'[s].pc \in {"store", "add", "configured", "streaming", "claim"},
                    s \notin lost' \cup robbed'
             PROVE  Registered(s)'
  BY DEF ListenInv
<1>1. UNCHANGED <<session, robbed>> /\ lost \subseteq lost'
  BY MainFrame DEF MainThread, ExecutorStart, EventLoopStart, EventLoopStop, StopStep,
         EventLoopWake, EventLoopJoin, ClearCallbacks, RequestStop, JoinWorkers
<1>2. Registered(s) /\ epoll /\ main \in {"up", "wake", "join_loop"}
  BY <1>1 DEF ListenInv, Registered, LoopInv
<1>3. ~EventLoopJoin
  <2>1. session[s].fd \in Fds /\ owner[session[s].fd] = s
    BY <1>1 DEF DescriptorInv, Closed, Leaving
  <2>2. QED  BY <2>1 DEF EventLoopJoin, Open
<1>4. EventLoopStop \/ EventLoopWake
  BY <1>2, <1>3 DEF MainThread, ExecutorStart, EventLoopStart, StopStep,
                    ClearCallbacks, RequestStop, JoinWorkers
<1>5. /\ UNCHANGED <<epoll, callbacks, interest, session, loop, worker, queue>>
      /\ running' => running
  BY <1>4 DEF EventLoopStop, EventLoopWake
<1>6. QED  BY <1>2, <1>5 DEF Registered, Reporting, Mine

\* So do the steps of a session's thread.
LEMMA ListenSession ==
  ASSUME TypeOK, DescriptorInv, ListenInv, NEW u \in Sessions, SessionThread(u)
  PROVE  ListenInv'
<1> DEFINE Listener == {"store", "add", "configured", "streaming", "claim"}
<1> SUFFICES ASSUME NEW s \in Sessions, session'[s].pc \in Listener,
                    s \notin lost' \cup robbed'
             PROVE  Registered(s)'
  BY DEF ListenInv
<1>1. UNCHANGED <<running, epoll, loop, worker>>
  BY SessionFrame
<1>2. QueueGrows
  <2>1. CASE queue' = queue
    BY <2>1 DEF QueueGrows
  <2>2. CASE ClaimRequest(u) /\ queue' # queue
    BY <2>2, PostedTasks, PushGrows DEF ClaimRequest
  <2>3. QED
    BY <2>1, <2>2 DEF SessionThread, SessionStep, OpenDevice, StartStreaming,
       PostRequest, CloseDevice, Destroy, RegisterFd, StoreCallback, EpollAdd, EpollDel,
       EraseCallback
<1>3. \A g \in Fds : g # session[u].fd => interest'[g] = interest[g] /\ callbacks'[g] = callbacks[g]
  BY DEF TypeOK, SessionThread, SessionStep, OpenDevice, StartStreaming,
       PostRequest, CloseDevice, Destroy, RegisterFd, StoreCallback, EpollAdd, ClaimRequest,
       EpollDel, EraseCallback
<1>4. CASE s # u
  <2>1. session'[s] = session[s]
    BY <1>4, SessionMoves
  <2>2. s \notin lost \cup robbed
    <3>1. lost \ {u} \subseteq lost' /\ robbed \ {u} \subseteq robbed'
      BY DEF SessionThread, SessionStep, OpenDevice, StartStreaming, PostRequest,
             CloseDevice, Destroy, RegisterFd, StoreCallback, EpollAdd, ClaimRequest, EpollDel,
             EraseCallback
    <3>2. QED  BY <1>4, <3>1
  <2>3. session[s].fd \in Fds /\ session[s].fd # session[u].fd
    BY <1>4, <2>1, <2>2, OwnDescriptor DEF Closed, Leaving
  <2>4. PICK f \in Fds : f = session[s].fd
    BY <2>3
  <2>5. /\ epoll /\ (session[s].pc # "store" => callbacks[f] = s)
        /\ session[s].pc \notin {"store", "add"} => interest[f] # "none" /\ (running => Reporting(s, f))
    BY <2>1, <2>2, <2>4 DEF ListenInv, Registered
  <2>6. interest'[f] = interest[f] /\ callbacks'[f] = callbacks[f]
    BY <1>3, <2>3, <2>4
  <2>7. Reporting(s, f) => Reporting(s, f)'
    BY <1>1, <1>2, <2>6, ReportingKept
  <2>8. session'[s].fd = f
    BY <2>1, <2>4
  <2>9. QED  BY <1>1, <2>1, <2>5, <2>6, <2>7, <2>8 DEF Registered, Reporting
<1>5. CASE s = u
  <2>1. PICK f \in Fds : f = session[s].fd /\ session'[s].fd = f
    BY <1>5, SessionMoves DEF DescriptorInv, Closed
  <2>2. /\ UNCHANGED <<lost, robbed>>
        /\ \/ RegisterFd(s) \/ StoreCallback(s) \/ EpollAdd(s) \/ StartStreaming(s)
           \/ PostRequest(s) \/ ClaimRequest(s)
    BY <1>5, SessionMoves
  <2>3. session[s].pc \in Listener =>
          /\ epoll /\ (session[s].pc # "store" => callbacks[f] = s)
          /\ session[s].pc \notin {"store", "add"} => interest[f] # "none" /\ (running => Reporting(s, f))
    BY <2>1, <2>2 DEF ListenInv, Registered
  <2>4. session \in [Sessions -> SessionStates] /\ callbacks \in [Fds -> Sessions \cup {NoSession}]
        /\ interest \in [Fds -> {"none", "armed", "disarmed"}]
    BY DEF TypeOK
  <2>5. CASE RegisterFd(s) \/ StoreCallback(s)
    <3>1. CASE RegisterFd(s) /\ running /\ epoll
      <4>1. session'[s].pc = "store"
        BY <2>4, <3>1, GotoEffect DEF RegisterFd, SessionPcs
      <4>2. QED  BY <1>1, <3>1, <4>1 DEF Registered
    <3>2. CASE RegisterFd(s) /\ ~(running /\ epoll)
      BY <2>4, <3>2, GotoEffect DEF RegisterFd, SessionPcs
    <3>3. CASE StoreCallback(s)
      <4>1. callbacks'[f] = s /\ session'[s].pc = "add" /\ session[s].pc = "store"
        BY <2>1, <2>4, <3>3, GotoEffect DEF StoreCallback, SessionPcs
      <4>2. QED  BY <1>1, <2>1, <2>3, <4>1 DEF Registered
    <3>4. QED  BY <2>5, <3>1, <3>2, <3>3
  <2>6. CASE EpollAdd(s)
    <3>1. CASE epoll
      <4>1. interest'[f] = "armed" /\ callbacks' = callbacks /\ session[s].pc = "add"
        BY <2>1, <2>4, <2>6, <3>1 DEF EpollAdd
      <4>2. QED  BY <1>1, <2>1, <2>3, <4>1 DEF Registered, Reporting
    <3>2. CASE ~epoll
      BY <2>4, <2>6, <3>2, GotoEffect DEF EpollAdd, SessionPcs
    <3>3. QED  BY <3>1, <3>2
  <2>7. CASE StartStreaming(s) \/ PostRequest(s) \/ ClaimRequest(s)
    <3>1. session[s].pc \in Listener \ {"store", "add"} /\ UNCHANGED <<interest, callbacks>>
      BY <2>7 DEF StartStreaming, PostRequest, ClaimRequest
    <3>2. Reporting(s, f) => Reporting(s, f)'
      BY <1>1, <1>2, <3>1, ReportingKept
    <3>3. QED  BY <1>1, <2>1, <2>3, <3>1, <3>2 DEF Registered, Reporting
  <2>8. QED  BY <2>2, <2>5, <2>6, <2>7
<1>6. QED  BY <1>4, <1>5

\* So do the steps of the event loop.
LEMMA ListenLoop ==
  ASSUME TypeOK, LoopInv, DescriptorInv, ListenInv, LoopStep
  PROVE  ListenInv'
<1> SUFFICES ASSUME NEW s \in Sessions,
                    session'[s].pc \in {"store", "add", "configured", "streaming", "claim"},
                    s \notin lost' \cup robbed'
             PROVE  Registered(s)'
  BY DEF ListenInv
<1>1. UNCHANGED <<running, epoll, owner, callbacks, session, worker, robbed>>
  BY LoopFrame DEF LoopUnchanged
<1>2. lost \subseteq lost'
  BY DEF LoopStep, LoopCheck, EpollWait, BatchDone, PostReadiness, ClaimReadiness,
         LookupCallback
<1>3. PICK f \in Fds : f = session[s].fd
  BY <1>1 DEF DescriptorInv, Closed
<1>4. /\ epoll /\ (session[s].pc # "store" => callbacks[f] = s) /\ owner[f] = s /\ s \in Open
      /\ session[s].pc \notin {"store", "add"} => interest[f] # "none" /\ (running => Reporting(s, f))
  BY <1>1, <1>2, <1>3 DEF ListenInv, Registered, DescriptorInv, Closed, Leaving, Open
<1>5. interest'[f] = interest[f] \/ (interest'[f] = "disarmed" /\ EpollWait /\ f \in Reported)
  BY DEF TypeOK, LoopStep, LoopCheck, EpollWait, BatchDone, PostReadiness,
         ClaimReadiness, LookupCallback
<1>6. loop \in LoopStates /\ NoFd \notin Fds /\ NoSession \notin Sessions
  BY RuntimeAssumption DEF TypeOK
<1>7. ASSUME Reporting(s, f), session[s].pc # "store" PROVE Reporting(s, f)'
  <2>1. CASE LoopCheck \/ BatchDone
    <3>1. loop.batch = {} /\ loop.fd = NoFd
      BY <2>1 DEF LoopCheck, BatchDone, LoopInv
    <3>2. UNCHANGED <<interest, queue, worker>>
      BY <1>1, <2>1 DEF LoopCheck, BatchDone
    <3>3. QED  BY <1>6, <1>7, <3>1, <3>2 DEF Reporting, Mine
  <2>2. CASE EpollWait
    <3>1. /\ loop.batch = {} /\ loop.fd = NoFd /\ loop'.batch = Reported
          /\ UNCHANGED <<queue, worker>>
      BY <1>1, <2>2 DEF EpollWait, LoopInv, LoopAt
    <3>2. QED  BY <1>5, <1>6, <1>7, <3>1 DEF Reporting, Mine
  <2>3. ASSUME NEW g \in Fds, LookupCallback(g) PROVE Reporting(s, f)'
    <3>1. UNCHANGED <<interest, queue, worker>> /\ loop.fd = NoFd
      BY <1>1, <2>3 DEF LookupCallback, LoopInv
    <3>2. CASE f \in loop.batch /\ f = g
      <4>1. loop'.fd = f /\ loop'.target = s
        BY <1>4, <1>6, <1>7, <2>3, <3>2 DEF LookupCallback
      <4>2. QED  BY <4>1 DEF Reporting
    <3>3. CASE f \in loop.batch /\ f # g
      <4>1. f \in loop'.batch
        BY <1>6, <2>3, <3>3 DEF LookupCallback, LoopStates
      <4>2. QED  BY <4>1 DEF Reporting
    <3>4. CASE f \notin loop.batch
      BY <1>6, <1>7, <3>1, <3>4 DEF Reporting, Mine
    <3>5. QED  BY <3>2, <3>3, <3>4
  <2>4. CASE PostReadiness
    <3>1. UNCHANGED <<interest, queue, worker>> /\ loop'.batch = loop.batch
      BY <1>1, <1>6, <2>4 DEF PostReadiness, LoopAt, LoopStates
    <3>2. CASE loop.fd = f /\ loop.target = s
      <4>1. loop'.fd = f /\ loop'.target = s
        BY <1>4, <1>6, <2>4, <3>2 DEF PostReadiness, LoopStates
      <4>2. QED  BY <4>1 DEF Reporting
    <3>3. CASE ~(loop.fd = f /\ loop.target = s)
      BY <1>7, <3>1, <3>3 DEF Reporting, Mine
    <3>4. QED  BY <3>2, <3>3
  <2>5. CASE ClaimReadiness
    <3> DEFINE task == Readiness(loop.target, loop.fd)
    <3>1. UNCHANGED <<interest, worker>> /\ loop'.batch = loop.batch /\ task \in Tasks
          /\ ShardOf(task) \in Shards
      BY <1>1, <2>5, PostedTasks DEF ClaimReadiness, LoopAt, TypeOK, LoopStates
    <3>2. CASE queue' = queue /\ lost' = lost \cup ({loop.target} \cap Open)
      <4>1. ~(loop.fd = f /\ loop.target = s)
        BY <1>4, <3>2
      <4>2. QED  BY <1>7, <3>1, <3>2, <4>1 DEF Reporting, Mine
    <3>3. CASE Enqueue(task)
      <4>1. QueueGrows
        BY <3>1, <3>3, PushGrows
      <4>2. CASE loop.fd = f /\ loop.target = s
        <5>1. \E w \in Shards : \E k \in DOMAIN queue'[w] : Mine(queue'[w][k], s, f)
          BY <3>1, <3>3, <4>2, PushGrows DEF Mine, Readiness
        <5>2. QED  BY <5>1 DEF Reporting, Mine
      <4>3. CASE ~(loop.fd = f /\ loop.target = s)
        BY <1>7, <3>1, <4>1, <4>3 DEF Reporting, Mine, QueueGrows
      <4>4. QED  BY <4>2, <4>3
    <3>4. QED  BY <2>5, <3>2, <3>3 DEF ClaimReadiness
  <2>6. QED  BY <2>1, <2>2, <2>3, <2>4, <2>5 DEF LoopStep
<1>8. QED  BY <1>1, <1>3, <1>4, <1>5, <1>7 DEF Registered, Reporting

\* So do the steps of a worker.
LEMMA ListenWorker ==
  ASSUME TypeOK, IdleInv, DescriptorInv, ListenInv, NEW w \in Shards, WorkerStep(w)
  PROVE  ListenInv'
<1> SUFFICES ASSUME NEW s \in Sessions,
                    session'[s].pc \in {"store", "add", "configured", "streaming", "claim"},
                    s \notin lost' \cup robbed'
             PROVE  Registered(s)'
  BY DEF ListenInv
<1>1. UNCHANGED <<running, epoll, callbacks, session, loop, lost, robbed>>
  BY WorkerFrame DEF WorkerUnchanged
<1>2. PICK f \in Fds : f = session[s].fd
  BY <1>1 DEF DescriptorInv, Closed
<1>3. /\ epoll /\ (session[s].pc # "store" => callbacks[f] = s)
      /\ session[s].pc \notin {"store", "add"} => interest[f] # "none" /\ (running => Reporting(s, f))
  BY <1>1, <1>2 DEF ListenInv, Registered
<1>4. /\ interest[f] # "none" => interest'[f] # "none"
      /\ interest[f] = "armed" => interest'[f] = "armed"
  BY DEF TypeOK, WorkerStep, PopTask, WorkerExit, RunRequest, RunReadiness, RearmFd, EpollMod
<1>5. ASSUME Reporting(s, f), running, interest[f] # "none",
             session[s].pc \notin {"store", "add"}
      PROVE  Reporting(s, f)'
  <2> DEFINE Held == \E v \in Shards : \/ Mine(worker[v].task, s, f)
                                       \/ \E k \in DOMAIN queue[v] : Mine(queue[v][k], s, f)
  <2>1. CASE ~Held
    BY <1>1, <1>4, <1>5, <2>1 DEF Reporting
  <2>2. CASE Held /\ PopTask(w)
    <3>1. queue[w] \in Seq(Tasks) /\ queue[w] # <<>>
      BY <2>2 DEF PopTask, TypeOK
    <3>2. /\ queue'[w] = Tail(queue[w]) /\ worker'[w].task = queue[w][1]
          /\ \A v \in Shards \ {w} : queue'[v] = queue[v] /\ worker'[v] = worker[v]
          /\ worker[w].pc = "idle"
      BY <2>2, <3>1, PopEffect DEF PopTask, TypeOK
    <3>3. \A k \in DOMAIN queue[w] :
            k = 1 \/ (k - 1 \in DOMAIN queue'[w] /\ queue'[w][k - 1] = queue[w][k])
      BY <3>1, <3>2, PopEffect
    <3>4. PICK v \in Shards : \/ Mine(worker[v].task, s, f)
                              \/ \E k \in DOMAIN queue[v] : Mine(queue[v][k], s, f)
      BY <2>2
    <3>5. CASE v # w
      BY <3>2, <3>4, <3>5 DEF Reporting, Mine
    <3>6. ~Mine(worker[w].task, s, f)
      BY <3>2 DEF IdleInv, NoTask, Mine
    <3>7. CASE v = w /\ \E k \in DOMAIN queue[w] : Mine(queue[w][k], s, f)
      <4>1. PICK k \in DOMAIN queue[w] : Mine(queue[w][k], s, f)
        BY <3>7
      <4>2. CASE k = 1
        BY <3>2, <4>1, <4>2 DEF Reporting, Mine
      <4>3. CASE k # 1
        BY <3>3, <4>1, <4>3 DEF Reporting, Mine
      <4>4. QED  BY <4>2, <4>3
    <3>8. QED  BY <3>4, <3>5, <3>6, <3>7
  <2>3. CASE Held /\ ~PopTask(w)
    <3>1. /\ queue' = queue /\ \A v \in Shards \ {w} : worker'[v] = worker[v]
          /\ worker'[w].task \in {worker[w].task, NoTask}
      BY <2>3, TaskKeptOrDropped
    <3>2. CASE worker'[w].task = worker[w].task
      BY <2>3, <3>1, <3>2 DEF Reporting, Mine
    <3>3. CASE worker'[w].task # worker[w].task /\ ~Mine(worker[w].task, s, f)
      BY <2>3, <3>1, <3>3 DEF Reporting, Mine
    <3>4. CASE worker'[w].task # worker[w].task /\ Mine(worker[w].task, s, f)
      <4>1. EpollMod(w)
        <5>1. ~RunRequest(w)
          BY <3>4 DEF RunRequest, Mine
        <5>2. ~WorkerExit(w)
          BY <3>4 DEF WorkerExit, TypeOK, WorkerStates
        <5>3. ~RunReadiness(w)
          BY <1>1, <3>4 DEF RunReadiness, TypeOK, WorkerStates, Mine
        <5>4. ~RearmFd(w)
          BY <1>3, <1>5, <3>4 DEF RearmFd, TypeOK, WorkerStates
        <5>5. QED  BY <2>3, <5>1, <5>2, <5>3, <5>4 DEF WorkerStep
      <4>2. interest'[f] = "armed"
        BY <1>5, <3>4, <4>1 DEF EpollMod, TypeOK, Mine
      <4>3. QED  BY <4>2 DEF Reporting
    <3>5. QED  BY <3>2, <3>3, <3>4
  <2>4. QED  BY <2>1, <2>2, <2>3
<1>6. QED  BY <1>1, <1>2, <1>3, <1>4, <1>5 DEF Registered, Reporting

\* So does every step.
LEMMA ListenNext ==
  ASSUME TypeOK, LoopInv, IdleInv, DescriptorInv, ListenInv, [Next]_vars
  PROVE  ListenInv'
<1>1. CASE UNCHANGED <<session, lost, robbed, epoll, running, callbacks, interest, loop,
                       worker, queue>>
  BY <1>1 DEF ListenInv, Registered, Reporting, Mine
<1>2. QED
  BY <1>1, Threads, ListenMain, ListenSession, ListenLoop, ListenWorker, DeviceFrame, SleepFrame DEF vars

-----------------------------------------------------------------------------
Inv == TypeOK /\ Routed /\ IdleInv /\ LoopInv /\ StopInv /\ DescriptorInv /\ ListenInv

\* The inductive invariant of the runtime, its event loop and its executor: for
\* every set of sessions and descriptor numbers, every number of shards, every
\* capacity and any number of starts and stops.
THEOREM RuntimeCorrect == Spec => []Inv
<1>1. Init => Inv
  <2> SUFFICES ASSUME Init PROVE Inv
    OBVIOUS
  <2>1. TypeOK
    BY TypeInit
  <2>2. Routed /\ IdleInv
    BY DEF Init, Routed, IdleInv
  <2>3. LoopInv
    BY DEF Init, LoopInv, LoopAt
  <2>4. StopInv
    BY DEF Init, StopInv, OnlyLateRequests
  <2>5. DescriptorInv /\ ListenInv
    BY DEF Init, DescriptorInv, ListenInv, Closed
  <2>6. QED  BY <2>1, <2>2, <2>3, <2>4, <2>5 DEF Inv
<1>2. Inv /\ [Next]_vars => Inv'
  BY TypeNext, RoutedNext, IdleNext, LoopNext, StopNext, DescriptorNext, ListenNext DEF Inv
<1>3. QED  BY <1>1, <1>2, PTL DEF Spec

\* The event loop never posts for a callback that is not there, and every
\* variable of the runtime stays in its type.
THEOREM TypeCorrect == Spec => []TypeOK
<1>1. Inv => TypeOK
  BY DEF Inv
<1>2. QED  BY <1>1, RuntimeCorrect, PTL

\* Tasks of one session never run on two workers, whichever thread posted them.
THEOREM SessionSerializedAlways == Spec => []SessionSerialized
<1>1. Inv => SessionSerialized
  <2> SUFFICES ASSUME Inv, NEW v \in Shards, NEW w \in Shards, v # w,
                      worker[v].task # NoTask
               PROVE  worker[v].task.session # worker[w].task.session
    BY DEF SessionSerialized
  <2>1. worker[v].task \in Tasks /\ ShardOf(worker[v].task) = v
    BY DEF Inv, TypeOK, WorkerStates, Routed
  <2>2. CASE worker[w].task = NoTask
    BY <2>1, <2>2, RuntimeAssumption DEF NoTask, Tasks
  <2>3. CASE worker[w].task # NoTask
    BY <2>1, <2>3 DEF Inv, Routed, ShardOf
  <2>4. QED  BY <2>2, <2>3
<1>2. QED  BY <1>1, RuntimeCorrect, PTL

\* stop() leaves nothing behind but requests that were already past the test of
\* stopped_: the event loop is joined before any queue is stopped, and a worker
\* ends only on an empty queue.
THEOREM StopDrainsAlways == Spec => []StopDrains
<1>1. Inv => StopDrains
  BY DEF Inv, StopInv, StopDrains, OnlyLateRequests
<1>2. QED  BY <1>1, RuntimeCorrect, PTL

\* The readiness of an open session is never dropped between epoll_wait, the
\* shard's queue and the rearm, but for a full queue, a stopped loop and a
\* descriptor number that was still to be unregistered.
THEOREM DeafOnlyWhenLostOrRobbedAlways == Spec => []DeafOnlyWhenLostOrRobbed
<1>1. Inv => DeafOnlyWhenLostOrRobbed
  BY DEF Inv, ListenInv, Registered, Listening, DeafOnlyWhenLostOrRobbed
<1>2. QED  BY <1>1, RuntimeCorrect, PTL
=============================================================================
