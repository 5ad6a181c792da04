----------------------------- MODULE HalRuntime -----------------------------
(***************************************************************************)
(* hal/camera_hal_runtime.cpp with the two services it owns, the one-shot  *)
(* hal/epoll_event_loop.cpp and the sharded hal/task_executor.cpp, shared  *)
(* by several sessions.                                                    *)
(*                                                                         *)
(* Threads: one that starts and stops the runtime; one per session, which  *)
(* configures, posts and closes; the event loop; one worker per shard.  A  *)
(* step is one access to state that another thread uses: a system call on  *)
(* the epoll set, a section under EpollEventLoop::mutex_, the test of      *)
(* stopped_ in BoundedTaskQueue::push, the claim that follows it.  The     *)
(* queues promise what TaskQueue promises, no more: a push may be refused  *)
(* when there is room, and a worker may be asleep beside its work.  What a *)
(* session does with its requests is CameraDeviceSession's subject: here a *)
(* task is only the session it belongs to.                                 *)
(***************************************************************************)
EXTENDS Naturals, Sequences, FiniteSets

CONSTANTS
  Sessions,       \* session ids, the keys of the executor
  NoSession,      \* no callback, no open device
  Fds,            \* file descriptor numbers a driver may be given
  NoFd,           \* driver_fds_ is empty
  ShardCount,     \* TaskExecutorConfig::shard_count
  QueueCapacity,  \* TaskExecutorConfig::shard_queue_capacity
  MaxPosts,       \* bound: requests of each session
  MaxStarts       \* bound: calls of CameraHalRuntime::start

ASSUME RuntimeAssumption ==
  /\ Sessions \subseteq Nat /\ NoSession \notin Sessions /\ NoFd \notin Fds
  /\ ShardCount \in Nat \ {0} /\ QueueCapacity \in Nat \ {0}
  /\ MaxPosts \in [Sessions -> Nat] /\ MaxStarts \in Nat

Shards == 0..(ShardCount - 1)

\* A queued task; late marks a claim that came after the queue was stopped.
Tasks == [kind : {"request", "ready"}, session : Sessions, fd : Fds \cup {NoFd},
          late : BOOLEAN]

VARIABLES
  main,           \* where start() and stop() are
  starts,         \* calls of start so far
  running,        \* event_loop_.running_
  wake,           \* wake_fd_ is readable
  epoll,          \* epoll_fd_ >= 0
  interest,       \* epoll set (kernel): fd -> "none", "armed", "disarmed"
  owner,          \* descriptor table (kernel): fd -> session that opened it
  ready,          \* sessions whose device has something to report
  callbacks,      \* callbacks_: fd -> session of the callback
  session,        \* [pc, fd] of a session's thread; fd is driver_fds_
  posts,          \* requests a session has posted
  loop,           \* event-loop thread: [pc, batch, fd, target]
  queue, stopped, \* per shard: the tasks, stopped_
  started,        \* executor_.started_ and the workers' own
  worker,         \* per shard: [pc, task]
  asleep,         \* shards whose worker sleeps although it has something to do
  lost, robbed    \* history: open sessions that lost their registration
                  \* or an event; that were given a number in use

vars == <<main, starts, running, wake, epoll, interest, owner, ready, callbacks,
          session, posts, loop, queue, stopped, started, worker, asleep, lost,
          robbed>>
loopVars == <<running, wake, epoll>>
kernelVars == <<interest, owner, ready>>
executorVars == <<queue, stopped, started, worker, asleep>>
historyVars == <<lost, robbed>>

\* The sessions whose device is open.
Open == {s \in Sessions : \E f \in Fds : owner[f] = s}

NoTask == [kind |-> "request", session |-> NoSession, fd |-> NoFd, late |-> FALSE]
IdleWorker == [pc |-> "idle", task |-> NoTask]
LoopAt(pc, batch) == [pc |-> pc, batch |-> batch, fd |-> NoFd, target |-> NoSession]

Init ==
  /\ main = "down" /\ starts = 0
  /\ running = FALSE /\ wake = FALSE /\ epoll = FALSE
  /\ interest = [f \in Fds |-> "none"] /\ owner = [f \in Fds |-> NoSession]
  /\ ready = {} /\ callbacks = [f \in Fds |-> NoSession]
  /\ session = [s \in Sessions |-> [pc |-> "created", fd |-> NoFd]]
  /\ posts = [s \in Sessions |-> 0]
  /\ loop = LoopAt("down", {})
  /\ queue = [w \in Shards |-> <<>>] /\ stopped = [w \in Shards |-> FALSE]
  /\ started = FALSE
  /\ worker = [w \in Shards |-> [pc |-> "exited", task |-> NoTask]]
  /\ asleep = {} /\ lost = {} /\ robbed = {}

-----------------------------------------------------------------------------
\* TaskExecutor.

\* mutant: readiness is routed by the descriptor
ShardOfFd(task) == IF task.kind = "ready" THEN task.fd % ShardCount
                   ELSE task.session % ShardCount

\* post: shard = key % shard_count, the key is the session id
ShardOf(task) == task.session % ShardCount

\* post and push up to the load of stopped_
CanEnter(task) == started /\ ~stopped[ShardOf(task)]

\* push from the capacity test on: the task is claimed and published, or refused,
\* as it is when the queue is full and may be when it is not
HasRoom(task) == Len(queue[ShardOf(task)]) < QueueCapacity
Enqueue(task) ==
  queue' = [queue EXCEPT ![ShardOf(task)] =
              Append(@, [task EXCEPT !.late = stopped[ShardOf(task)]])]

Request(s) == [kind |-> "request", session |-> s, fd |-> NoFd, late |-> FALSE]
Readiness(s, f) == [kind |-> "ready", session |-> s, fd |-> f, late |-> FALSE]

-----------------------------------------------------------------------------
\* The thread that starts and stops the runtime.

\* executor_.start(): every worker's queue is reset and its thread started
ExecutorStart ==
  /\ main = "down" /\ starts < MaxStarts
  /\ main' = "starting" /\ starts' = starts + 1
  /\ queue' = [w \in Shards |-> <<>>] /\ stopped' = [w \in Shards |-> FALSE]
  /\ worker' = [w \in Shards |-> IdleWorker]
  /\ started' = TRUE
  /\ UNCHANGED <<loopVars, kernelVars, callbacks, session, posts, loop, asleep,
                 historyVars>>

\* event_loop_.start(): when it fails the executor is stopped again
EventLoopStart ==
  /\ main = "starting"
  /\ \/ /\ main' = "up" /\ running' = TRUE /\ epoll' = TRUE /\ wake' = FALSE
        /\ loop' = LoopAt("check", {})
     \/ main' = "request_stop" /\ UNCHANGED <<loopVars, loop>>
  /\ UNCHANGED <<starts, kernelVars, callbacks, session, posts, executorVars,
                 historyVars>>

\* stop(): event_loop_.stop() clears running_ ...
EventLoopStop ==
  /\ main = "up" /\ main' = "wake"
  /\ running' = FALSE
  /\ UNCHANGED <<starts, wake, epoll, kernelVars, callbacks, session, posts, loop,
                 executorVars, historyVars>>

\* mutant: the loop is not woken
EventLoopUnwoken ==
  /\ main = "wake" /\ main' = "join_loop"
  /\ UNCHANGED <<starts, loopVars, kernelVars, callbacks, session, posts, loop,
                 executorVars, historyVars>>

\* mutant: the executor is stopped before the event loop has been joined
EventLoopUnjoined ==
  /\ main = "wake" /\ main' = "request_stop"
  /\ wake' = TRUE
  /\ UNCHANGED <<starts, running, epoll, kernelVars, callbacks, session, posts,
                 loop, executorVars, historyVars>>

\* ... writes the wake fd ...
EventLoopWake ==
  /\ main = "wake" /\ main' = "join_loop"
  /\ wake' = TRUE
  /\ UNCHANGED <<starts, running, epoll, kernelVars, callbacks, session, posts,
                 loop, executorVars, historyVars>>

\* ... joins the thread, closes the epoll set ...
EventLoopJoin ==
  /\ main = "join_loop" /\ loop.pc = "down"
  /\ main' = "clear" /\ epoll' = FALSE /\ wake' = FALSE
  /\ interest' = [f \in Fds |-> "none"] /\ lost' = lost \cup Open
  /\ UNCHANGED <<starts, running, owner, ready, callbacks, session, posts, loop,
                 executorVars, robbed>>

\* ... and forgets the callbacks.
ClearCallbacks ==
  /\ main = "clear" /\ main' = "request_stop"
  /\ callbacks' = [f \in Fds |-> NoSession]
  /\ UNCHANGED <<starts, loopVars, kernelVars, session, posts, loop, executorVars,
                 historyVars>>

\* executor_.stop(): every queue is stopped, then every worker joined.
RequestStop ==
  /\ main = "request_stop" /\ main' = "join_workers"
  /\ stopped' = [w \in Shards |-> TRUE]
  /\ UNCHANGED <<starts, loopVars, kernelVars, callbacks, session, posts, loop,
                 queue, started, worker, asleep, historyVars>>

JoinWorkers ==
  /\ main = "join_workers" /\ \A w \in Shards : worker[w].pc = "exited"
  /\ main' = "down" /\ started' = FALSE
  /\ UNCHANGED <<starts, loopVars, kernelVars, callbacks, session, posts, loop,
                 queue, stopped, worker, asleep, historyVars>>

StopStep ==
  EventLoopWake \/ EventLoopJoin \/ ClearCallbacks \/ RequestStop \/ JoinWorkers

-----------------------------------------------------------------------------
\* The thread of session s.

Goto(s, pc) == session' = [session EXCEPT ![s].pc = pc]

\* Another session closed its device under this number and is still on its way
\* to unregister it.
BeingUnregistered(f) ==
  \E t \in Sessions : session[t].fd = f /\ session[t].pc \in {"delete", "erase"}

\* configure_streams: the driver opens its device under any free number
OpenDevice(s, f) ==
  /\ session[s].pc = "created" /\ owner[f] = NoSession
  /\ owner' = [owner EXCEPT ![f] = s]
  /\ session' = [session EXCEPT ![s] = [pc |-> "register", fd |-> f]]
  /\ robbed' = IF BeingUnregistered(f) THEN robbed \cup {s} ELSE robbed
  /\ UNCHANGED <<main, starts, loopVars, interest, ready, callbacks, posts, loop,
                 executorVars, lost>>

\* register_session, register_fd: if the loop runs ...
RegisterFd(s) ==
  /\ session[s].pc = "register"
  /\ Goto(s, IF running /\ epoll THEN "store" ELSE "error")
  /\ UNCHANGED <<main, starts, loopVars, kernelVars, callbacks, posts, loop,
                 executorVars, historyVars>>

\* ... the callback is stored ...
StoreCallback(s) ==
  /\ session[s].pc = "store"
  /\ callbacks' = [callbacks EXCEPT ![session[s].fd] = s]
  /\ Goto(s, "add")
  /\ UNCHANGED <<main, starts, loopVars, kernelVars, posts, loop, executorVars,
                 historyVars>>

\* ... and the descriptor added to the epoll set, or the callback erased.
EpollAdd(s) ==
  LET f == session[s].fd IN
  /\ session[s].pc = "add"
  /\ IF epoll
     THEN /\ interest' = [interest EXCEPT ![f] = "armed"]
          /\ Goto(s, "configured") /\ UNCHANGED callbacks
     ELSE /\ callbacks' = [callbacks EXCEPT ![f] = NoSession]
          /\ Goto(s, "error") /\ UNCHANGED interest
  /\ UNCHANGED <<main, starts, loopVars, owner, ready, posts, loop, executorVars,
                 historyVars>>

\* start_streaming
StartStreaming(s) ==
  /\ session[s].pc = "configured"
  /\ Goto(s, "streaming") \/ Goto(s, "error")
  /\ UNCHANGED <<main, starts, loopVars, kernelVars, callbacks, posts, loop,
                 executorVars, historyVars>>

\* process_capture_request -> post_session_task, in two steps
PostRequest(s) ==
  /\ session[s].pc = "streaming" /\ posts[s] < MaxPosts[s]
  /\ posts' = [posts EXCEPT ![s] = @ + 1]
  /\ IF CanEnter(Request(s)) THEN Goto(s, "claim") ELSE UNCHANGED session
  /\ UNCHANGED <<main, starts, loopVars, kernelVars, callbacks, loop, executorVars,
                 historyVars>>

ClaimRequest(s) ==
  /\ session[s].pc = "claim"
  /\ (HasRoom(Request(s)) /\ Enqueue(Request(s))) \/ UNCHANGED queue
  /\ Goto(s, "streaming")
  /\ UNCHANGED <<main, starts, loopVars, kernelVars, callbacks, posts, loop,
                 stopped, started, worker, asleep, historyVars>>

\* close: the driver closes its device, which takes it out of the epoll set ...
CloseDevice(s) ==
  LET f == session[s].fd IN
  /\ session[s].pc \in {"created", "configured", "streaming", "error"}
  /\ IF f = NoFd
     THEN Goto(s, "stopped") /\ UNCHANGED <<owner, interest>>
     ELSE /\ owner' = [owner EXCEPT ![f] = NoSession]
          /\ interest' = [interest EXCEPT ![f] = "none"]
          /\ Goto(s, "delete")
  /\ ready' = ready \ {s} /\ lost' = lost \ {s} /\ robbed' = robbed \ {s}
  /\ UNCHANGED <<main, starts, loopVars, callbacks, posts, loop, executorVars>>

\* ... and then the number is unregistered, whoever has it now.
EpollDel(s) ==
  /\ session[s].pc = "delete"
  /\ interest' = [interest EXCEPT ![session[s].fd] = "none"]
  /\ Goto(s, "erase")
  /\ UNCHANGED <<main, starts, loopVars, owner, ready, callbacks, posts, loop,
                 executorVars, historyVars>>

EraseCallback(s) ==
  /\ session[s].pc = "erase"
  /\ callbacks' = [callbacks EXCEPT ![session[s].fd] = NoSession]
  /\ session' = [session EXCEPT ![s] = [pc |-> "stopped", fd |-> NoFd]]
  /\ UNCHANGED <<main, starts, loopVars, kernelVars, posts, loop, executorVars,
                 historyVars>>

\* A closed session is destroyed when no task holds it any more.
Destroy(s) ==
  /\ session[s].pc = "stopped" /\ ~(loop.pc = "claim" /\ loop.target = s)
  /\ \A w \in Shards :
       /\ worker[w].task.session # s
       /\ \A k \in DOMAIN queue[w] : queue[w][k].kind = "request" =>
                                       queue[w][k].session # s
  /\ Goto(s, "gone")
  /\ UNCHANGED <<main, starts, loopVars, kernelVars, callbacks, posts, loop,
                 executorVars, historyVars>>

SessionStep(s) ==
  \/ RegisterFd(s) \/ StoreCallback(s) \/ EpollAdd(s) \/ ClaimRequest(s)
  \/ EpollDel(s) \/ EraseCallback(s)

-----------------------------------------------------------------------------
\* The event loop.

LoopUnchanged ==
  UNCHANGED <<main, starts, running, epoll, owner, ready, callbacks,
              session, posts, stopped, started, worker, asleep, robbed>>

\* while (running_)
LoopCheck ==
  /\ loop.pc = "check"
  /\ loop' = LoopAt(IF running THEN "wait" ELSE "down", {})
  /\ UNCHANGED <<wake, interest, queue, lost>> /\ LoopUnchanged

\* epoll_wait returns what is armed and ready, disarmed, or the wake fd
Reported == {f \in Fds : interest[f] = "armed" /\ owner[f] \in ready}

EpollWait ==
  /\ loop.pc = "wait" /\ (Reported # {} \/ wake)
  /\ interest' = [f \in Fds |-> IF f \in Reported THEN "disarmed" ELSE interest[f]]
  /\ loop' = LoopAt("batch", Reported) /\ wake' = FALSE
  /\ UNCHANGED <<queue, lost>> /\ LoopUnchanged

\* mutant: an empty callback is called
LookupUnchecked(f) ==
  /\ loop.pc = "batch" /\ f \in loop.batch
  /\ loop' = [pc |-> "post", batch |-> loop.batch \ {f}, fd |-> f,
              target |-> callbacks[f]]
  /\ UNCHANGED <<wake, interest, queue, lost>> /\ LoopUnchanged

\* the callback of the next event is copied under the mutex, if there is one
LookupCallback(f) ==
  /\ loop.pc = "batch" /\ f \in loop.batch
  /\ loop' = IF callbacks[f] = NoSession
             THEN [loop EXCEPT !.batch = @ \ {f}]
             ELSE [pc |-> "post", batch |-> loop.batch \ {f}, fd |-> f,
                   target |-> callbacks[f]]
  /\ UNCHANGED <<wake, interest, queue, lost>> /\ LoopUnchanged

BatchDone ==
  /\ loop.pc = "batch" /\ loop.batch = {}
  /\ loop' = LoopAt("check", {})
  /\ UNCHANGED <<wake, interest, queue, lost>> /\ LoopUnchanged

\* on_driver_fd_ready: a session that is gone is ignored; a post that fails is
\* only recorded in last_error_, and the descriptor stays disarmed
PostReadiness ==
  LET task == Readiness(loop.target, loop.fd)
      enters == session[loop.target].pc # "gone" /\ CanEnter(task)
  IN
  /\ loop.pc = "post"
  /\ loop' = IF enters THEN [loop EXCEPT !.pc = "claim"] ELSE LoopAt("batch", loop.batch)
  /\ lost' = IF enters THEN lost ELSE lost \cup ({loop.target} \cap Open)
  /\ UNCHANGED <<wake, interest, queue>> /\ LoopUnchanged

ClaimReadiness ==
  LET task == Readiness(loop.target, loop.fd) IN
  /\ loop.pc = "claim"
  /\ \/ HasRoom(task) /\ Enqueue(task) /\ UNCHANGED lost
     \/ lost' = lost \cup ({loop.target} \cap Open) /\ UNCHANGED queue
  /\ loop' = LoopAt("batch", loop.batch)
  /\ UNCHANGED <<wake, interest>> /\ LoopUnchanged

LoopStep ==
  \/ LoopCheck \/ EpollWait \/ BatchDone \/ PostReadiness \/ ClaimReadiness
  \/ \E f \in Fds : LookupCallback(f)

-----------------------------------------------------------------------------
\* The worker of shard w.

WorkerUnchanged ==
  UNCHANGED <<main, starts, loopVars, owner, callbacks, session, posts, loop,
              stopped, started, asleep, historyVars>>

\* wait_pop: a notification came between the worker's look at the queue and its
\* sleep, and was lost; another one, or a spurious wakeup, ends the sleep.
Sleep(w) ==
  /\ worker[w].pc = "idle" /\ (queue[w] # <<>> \/ stopped[w])
  /\ w \notin asleep /\ asleep' = asleep \cup {w}
  /\ UNCHANGED <<main, starts, loopVars, kernelVars, callbacks, session, posts, loop,
                 queue, stopped, started, worker, historyVars>>

Wake(w) ==
  /\ w \in asleep /\ asleep' = asleep \ {w}
  /\ UNCHANGED <<main, starts, loopVars, kernelVars, callbacks, session, posts, loop,
                 queue, stopped, started, worker, historyVars>>

PopTask(w) ==
  /\ worker[w].pc = "idle" /\ w \notin asleep /\ queue[w] # <<>>
  /\ worker' = [worker EXCEPT ![w] = [pc |-> "run", task |-> Head(queue[w])]]
  /\ queue' = [queue EXCEPT ![w] = Tail(@)]
  /\ UNCHANGED <<interest, ready>> /\ WorkerUnchanged

\* wait_pop returns false once the queue is stopped and empty
WorkerExit(w) ==
  /\ worker[w].pc = "idle" /\ w \notin asleep /\ stopped[w] /\ queue[w] = <<>>
  /\ worker' = [worker EXCEPT ![w].pc = "exited"]
  /\ UNCHANGED <<queue, interest, ready>> /\ WorkerUnchanged

RunRequest(w) ==
  /\ worker[w].pc = "run" /\ worker[w].task.kind = "request"
  /\ worker' = [worker EXCEPT ![w] = IdleWorker]
  /\ UNCHANGED <<queue, interest, ready>> /\ WorkerUnchanged

\* mutant: only a streaming session's descriptor is armed again
RunReadinessStreaming(w) ==
  LET s == worker[w].task.session IN
  /\ worker[w].pc = "run" /\ worker[w].task.kind = "ready"
  /\ IF session[s].pc \in {"streaming", "claim"}
     THEN ready' = ready \ {s} /\ worker' = [worker EXCEPT ![w].pc = "rearm"]
     ELSE UNCHANGED ready /\ worker' = [worker EXCEPT ![w] = IdleWorker]
  /\ UNCHANGED <<queue, interest>> /\ WorkerUnchanged

\* The readiness task: the session drains its device, unless it has been closed,
\* and the descriptor number is re-armed; a session that is gone is skipped.
RunReadiness(w) ==
  LET s == worker[w].task.session IN
  /\ worker[w].pc = "run" /\ worker[w].task.kind = "ready"
  /\ ready' = IF session[s].pc \in {"streaming", "claim"}
                 /\ session[s].fd = worker[w].task.fd
              THEN ready \ {s} ELSE ready
  /\ worker' = [worker EXCEPT ![w] = IF session[s].pc = "gone" THEN IdleWorker
                                     ELSE [@ EXCEPT !.pc = "rearm"]]
  /\ UNCHANGED <<queue, interest>> /\ WorkerUnchanged

\* mutant: the descriptor is not armed again
NoRearm(w) ==
  /\ worker[w].pc = "rearm"
  /\ worker' = [worker EXCEPT ![w] = IdleWorker]
  /\ UNCHANGED <<queue, interest, ready>> /\ WorkerUnchanged

\* rearm_fd tests running_ and epoll_fd_ first ...
RearmFd(w) ==
  /\ worker[w].pc = "rearm"
  /\ worker' = [worker EXCEPT ![w] = IF running /\ epoll
                                     THEN [@ EXCEPT !.pc = "modify"] ELSE IdleWorker]
  /\ UNCHANGED <<queue, interest, ready>> /\ WorkerUnchanged

\* ... EPOLL_CTL_MOD fails for a number that is not in the set
EpollMod(w) ==
  LET f == worker[w].task.fd IN
  /\ worker[w].pc = "modify"
  /\ interest' = IF interest[f] = "none" THEN interest
                 ELSE [interest EXCEPT ![f] = "armed"]
  /\ worker' = [worker EXCEPT ![w] = IdleWorker]
  /\ UNCHANGED <<queue, ready>> /\ WorkerUnchanged

WorkerStep(w) ==
  \/ PopTask(w) \/ WorkerExit(w) \/ RunRequest(w) \/ RunReadiness(w)
  \/ RearmFd(w) \/ EpollMod(w)

-----------------------------------------------------------------------------
\* A registered device has something to report (external): a buffer, or an error
\* when it is not streaming.
DeviceReady(s) ==
  /\ \E f \in Fds : owner[f] = s /\ interest[f] # "none"
  /\ s \notin ready
  /\ ready' = ready \cup {s}
  /\ UNCHANGED <<main, starts, loopVars, interest, owner, callbacks, session,
                 posts, loop, executorVars, historyVars>>

Next ==
  \/ ExecutorStart \/ EventLoopStart \/ EventLoopStop \/ StopStep
  \/ \E s \in Sessions :
       \/ \E f \in Fds : OpenDevice(s, f)
       \/ StartStreaming(s) \/ PostRequest(s) \/ CloseDevice(s) \/ Destroy(s)
       \/ SessionStep(s) \/ DeviceReady(s)
  \/ LoopStep
  \/ \E w \in Shards : Sleep(w) \/ Wake(w) \/ WorkerStep(w)

Spec == Init /\ [][Next]_vars

\* Threads that can run are run.  Starting, stopping, configuring, posting and
\* closing are choices of the client, and the device reports when it likes.  Nothing
\* makes a worker sleep or wakes it; one that is awake again and again gets to its
\* task (BoundedTaskQueue, AwakeWorkerRuns).
Fairness ==
  /\ WF_vars(EventLoopStart) /\ WF_vars(StopStep) /\ WF_vars(LoopStep)
  /\ \A w \in Shards : SF_vars(WorkerStep(w))
  /\ \A s \in Sessions : WF_vars(SessionStep(s))

FairSpec == Spec /\ Fairness

-----------------------------------------------------------------------------
\* Types; the event loop never calls a callback that is not there.
MainStates == {"down", "starting", "up", "wake", "join_loop", "clear", "request_stop",
               "join_workers"}
SessionPcs == {"created", "register", "store", "add", "configured", "streaming", "claim",
               "error", "delete", "erase", "stopped", "gone"}
SessionStates == [pc : SessionPcs, fd : Fds \cup {NoFd}]
LoopStates == [pc : {"down", "check", "wait", "batch", "post", "claim"},
               batch : SUBSET Fds, fd : Fds \cup {NoFd},
               target : Sessions \cup {NoSession}]
WorkerPcs == {"idle", "run", "rearm", "modify", "exited"}
WorkerStates == [pc : WorkerPcs, task : Tasks \cup {NoTask}]

TypeOK ==
  /\ main \in MainStates /\ starts \in 0..MaxStarts
  /\ running \in BOOLEAN /\ wake \in BOOLEAN /\ epoll \in BOOLEAN
  /\ interest \in [Fds -> {"none", "armed", "disarmed"}]
  /\ owner \in [Fds -> Sessions \cup {NoSession}]
  /\ callbacks \in [Fds -> Sessions \cup {NoSession}]
  /\ ready \subseteq Sessions
  /\ session \in [Sessions -> SessionStates]
  /\ posts \in [Sessions -> Nat]
  /\ loop \in LoopStates
  /\ loop.pc \in {"post", "claim"} => loop.target \in Sessions
  /\ queue \in [Shards -> Seq(Tasks)]
  /\ stopped \in [Shards -> BOOLEAN] /\ started \in BOOLEAN
  /\ worker \in [Shards -> WorkerStates] /\ asleep \subseteq Shards
  /\ lost \subseteq Sessions /\ robbed \subseteq Sessions

-----------------------------------------------------------------------------
\* A readiness task of session s for descriptor f.
Mine(task, s, f) == task.kind = "ready" /\ task.session = s /\ task.fd = f

\* Descriptor f of session s is armed, or its event is on the way to the rearm.
Reporting(s, f) ==
  \/ interest[f] = "armed" \/ f \in loop.batch
  \/ loop.fd = f /\ loop.target = s
  \/ \E w \in Shards : \/ Mine(worker[w].task, s, f)
                       \/ \E k \in DOMAIN queue[w] : Mine(queue[w][k], s, f)

\* The readiness of session s's device is known to the runtime and not yet lost.
Listening(s) == callbacks[session[s].fd] = s /\ Reporting(s, session[s].fd)

\* The one-shot descriptor of a session is never left disarmed or without its
\* callback, through the hand-over from the event loop to the shard worker and
\* back, except when the readiness task was refused by the queue, or when the
\* session's descriptor number is one that a closing session still had to
\* unregister.
DeafOnlyWhenLostOrRobbed ==
  running => \A s \in Sessions :
               session[s].pc \in {"configured", "streaming", "claim"}
                 => Listening(s) \/ s \in lost \cup robbed

\* Tasks of one session are never run by two workers, whichever thread posted
\* them (camera_hal_runtime.h, "per-session serialized tasks").
SessionSerialized ==
  \A v, w \in Shards :
    v # w /\ worker[v].task # NoTask => worker[v].task.session # worker[w].task.session

\* When stop() has returned, no accepted task is left behind but a request whose
\* push was past the test of stopped_ when the queue was stopped: in particular no
\* readiness task, because the event loop is joined before the executor.
StopDrains ==
  main = "down" => \A w \in Shards : \A k \in DOMAIN queue[w] :
                     queue[w][k].late /\ queue[w][k].kind = "request"

\* start() and stop() return: the loop is woken wherever it is, and every worker
\* drains; but for a worker that lost its last notification, which join() waits for.
StopReturns ==
  \/ []<>(main \in {"up", "down"})
  \/ <>[](main = "join_workers" /\ asleep # {})

\* Session s streams, its device is ready and its event is not lost.
Waiting(s) ==
  /\ s \in ready /\ session[s].pc \in {"streaming", "claim"}
  /\ running /\ s \notin lost \cup robbed

\* The readiness task of session s is queued beside a sleeping worker.
Neglected(s) ==
  \E w \in asleep : \E k \in DOMAIN queue[w] : Mine(queue[w][k], s, session[s].fd)

\* A device that reports is drained, or its session closed, as long as the runtime
\* is up, the event is not lost and the worker that was given it does not sleep.
Served ==
  \A s \in Sessions : []<>~Waiting(s) \/ <>[]Neglected(s)
=============================================================================
