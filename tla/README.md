# minicam-hal: TLA+ verification project

This directory models minicam-hal from the lock-free task queue up to the
command-line application: the queue, the camera session with its request tracker
and its driver backends, the runtime that several sessions share, the dma-buf
pool, and the application's pipeline of encoders and writers. TLC checks small
instances of every model; TLAPS proves the safety properties of the queue, the
pool, the session, the runtime and the application for every value of their
constants.

    tlc -config BoundedTaskQueue.cfg MCBoundedTaskQueue     # any run below
    tlapm BoundedTaskQueue_proofs.tla                       # the proofs

`PROJECT.json` lists the runs, maps every definition to the source lines it
models, and records the findings, the hazards and the theorems.

## 1. The system

A capture request travels framework -> session -> shard queue -> worker ->
driver -> event loop -> shard queue -> worker -> framework.

| Component | State | Operations | What makes it correct |
|---|---|---|---|
| `BoundedTaskQueue` (hal) | `head_`, `tail_`, `stopped_`, slot `sequences_`, `ring_` | push (many threads), wait_pop (one), stop, reset | bounded FIFO; no two threads on one slot; tasks queued before stop are run; nobody waits forever |
| `TaskExecutor` (hal) | shards, each a queue and a thread, `started_` | start, stop, post | tasks of one session run in order on one thread |
| `EpollEventLoop` (hal) | epoll set, callback per fd, `running_` | start, stop, register, rearm, unregister, loop | a ready fd is reported once per arming, to its owner |
| `CameraHalRuntime` (hal) | sessions by id, the two above, the pool | start, stop, register, unregister, on_driver_fd_ready | readiness reaches the session; shutdown order |
| `CameraDeviceSession` (hal) | `state_`, tracker, driver, `mutex_` | configure, start, process_capture_request, on_driver_fd_ready, flush, close | every accepted request answered once, with its buffers, when the driver has let go of them |
| `InFlightRequestTracker` (hal) | rows by frame, preview rows, contexts by token | start, complete_output, bind, take, fail, flush_all | a token finds its own row or nothing |
| `V4L2DriverAdapter` (hal) | slots, tokens, streaming flags | configure, start, submit, dequeue, return, stop, close | slot table agrees with what the kernel holds |
| `V4L2MultiStreamDriverAdapter` (hal) | one adapter per stream type | as above | outputs go to their node; tokens unique |
| `DmaBufPool` (hal) | buffers, free list, generation | initialize, acquire, release, close | leases exclusive, nothing lost |
| `MockDriverAdapter` (hal) | completions, a pipe, `streaming_` | as above | same promises without a device |
| output processors, `JpegEncoderProcessor` (app) | encoder threads, encoded frames | process_output, take, join | reads a buffer only before it is reused |
| `FenceAwareResultWriter`, `BufferTracker` (app) | paths, results, leases | register, wait and write, release | a lease lives until its fence signals |
| `minicam_cli` (app) | next frame, preview threads, frames saved | capture, preview callback, quit, shutdown | returns to its prompt; gives every lease back; saves the pictures it reports |
| JPEG codec, metrics, interface types | | | |

Interaction: the session posts closures to the executor and registers its
driver fd with the event loop; the event loop posts a readiness closure to the
same shard and that closure re-arms the one-shot fd; results and preview leases
leave through callbacks that run without the session mutex.

Hard behaviours: lock-free claims and publishes interleaved at single memory
accesses; a condition variable notified without its mutex; state tested under
the mutex and used after its release (admission, completion, preview callback);
flush, close and restart at any point of a request's life; driver calls failing
half way through a request; a bounded queue that may be full when an event
arrives; leases that outlive their pool. `PROJECT.json` lists each hazard at its
line with the properties that cover it.

## 2. Modules

| Module | Models |
|---|---|
| `TaskQueue` | abstract: what a shard queue promises those who use it |
| `BoundedTaskQueue` | `hal/bounded_task_queue.*` and one `ShardedWorker` |
| `BoundedTaskQueue_proofs` | its theorems |
| `InFlightRequestTracker` | `hal/in_flight_request_tracker.*`, as operators on a record of three tables |
| `V4L2DriverAdapter` | the adapter of one node and, marked external, the device behind it, as operators on a record |
| `V4L2MultiStreamDriverAdapter` | the adapter that routes each stream to its node, over instances of the above |
| `MockDriverAdapter` | `hal/mock_driver_adapter.*` |
| `DriverAdapter`, `DriverAdapter_proofs` | the interface `hal/driver_adapter.h`, over these backends; what each of its calls does, whatever the backend |
| `CameraDeviceSession` | composes tracker and driver with `hal/camera_device_session.*`, the shard queue and one-shot readiness |
| `CameraDeviceSession_proofs` | its inductive invariant; types, bindings and rows |
| `RequestConservation_proofs` | extends it: no request is lost or answered twice |
| `BufferOwnership_proofs` | extends that: who owns a capture buffer, and a preview buffer |
| `HalRuntime`, `HalRuntime_proofs` | `hal/camera_hal_runtime.*`, `hal/epoll_event_loop.*` and `hal/task_executor.*`, shared by several sessions; its theorems |
| `DmaBufPool`, `DmaBufPool_proofs` | `hal/dma_buf_allocator.*`, its theorems |
| `BufferTracker`, `FenceAwareResultWriter`, `JpegEncoderProcessor` | the files of that name in `app/`, as operators on their tables |
| `MinicamCli`, `MinicamCli_proofs` | composes the three with `app/minicam_cli.cpp` and a session reduced to what the application sees; its theorems |
| `MC...` | the instances TLC checks |

**BoundedTaskQueue.** One action per shared access of `push`, `try_pop`,
`wait_pop` and `stop`: `ppc[p]` and `cpc` are the points between them. `ptail`
is the local `current_tail`; `current_head` needs no copy in the worker, the
only thread that stores `head_`. The condition variable appears as what it
does: `Wake` moves a worker that is parked, and only such a worker. The four
history variables record admissions, deliveries, pushes that returned before
`stop`, and whether the queue was full during a call. The atomics are modelled
as sequentially consistent: the claims rest on the acquire/release pairs on
`sequences_` and the CAS on `tail_`; the relaxed load of `tail_` is validated by
the CAS, and the stale values it may return are covered by the interleavings.
The counters do not wrap (2^64 pushes); the one subtraction that can go below
zero is taken modulo `Word`.

`Restart` has a guard the code has not: `ShardedWorker::start` resets the ring
whatever the producers do, and the model asks that no push be in progress. That is a
contract with the callers. The runtime keeps it for its event loop, which it joins
before it stops the executor; for framework threads it is theirs to keep, and a push
between its claim and its publish that spans a stop and a start would find its
position gone.

**TaskQueue.** Tasks enter only while there is room and leave in order, and the worker
exits only when the queue is stopped and empty. A post may be refused at any time
(`queue_full` shows why: with room, too), and the worker may be asleep beside its
tasks or past a stop (`queue_wakeup`). The session, the runtime and the application
are modelled over such a queue: each has a variable `asleep` with actions `Sleep` and
`Wake`, a worker takes a task, exits or is joined only when it is awake, and every post
may be refused (in the application by the fault `reject`).

**CameraDeviceSession.** Four threads: one submitting, one controlling, the
event loop, the shard worker. A section under `mutex_` is one action, except
around several driver calls, where `lock` names the holder and each QBUF is a
step, so that the device may fill a buffer while the next one is queued.
Callbacks are steps of their own, without the lock. `held` is the set of
capture buffers the framework owns: a buffer leaves it when its request is
accepted and returns with a result that lists it. `tasks` and `asleep` are the abstract
queue that the ring is proved to implement; `dropped` records the readiness events it
refused, and whether it was full. The fd is ready when a buffer is
filled, and reports an error while the device does not stream, as V4L2 does;
readiness then finds nothing and re-arms. The preview callback stands for the
reader of the buffer: `StreamCallbackReturns` is where reading ends (with an
asynchronous reader, where `consumer_release_fence_fd` signals).

A session runs over any of its `Backends`: one V4L2 node, a preview and a still
node, or the mock. `Init` picks one; its `route` gives the endpoint (the fd) of
every buffer's stream and its `faults` the calls that may fail. Each endpoint is
armed, reported, drained and re-armed on its own, and the nodes share one token
counter.

**HalRuntime.** The thread that starts and stops the runtime, one thread per
session, the event loop and one worker per shard. A step is one access to state
another thread uses: `register_fd`, for instance, is the test of `running_`
(`RegisterFd`), the callback stored (`StoreCallback`), then the `epoll_ctl`
(`EpollAdd`); `push` is the test of
`stopped_`, then the claim. `interest` and `owner` are the kernel's epoll set and
descriptor table: closing a descriptor takes it out of the epoll set at once, and
its number is free for the next session while the old one is still on its way to
unregister it. A session that is not streaming reports errors and is re-armed
without being drained. `lost` records sessions whose event was refused by its queue or
whose registration went with a stopped loop, `robbed` those that were given a
number that was still to be unregistered.

**MinicamCli.** `main`, the shard worker with the callbacks it runs, one encoder
thread per completed frame, one writer thread per preview frame that is saved. An
`Entry` is a frame with its buffer id and buffer. `jobs` are the encoder threads:
`own` is the buffer the driver filled, `buffer` what `resolve_buffer` found under
its id, and the `pc` of a job is also the state of its release fence. The consumer
fence of a preview frame is signalled when its writer is `done`. The five-second
waits may time out at any moment the result is not there. `DequeueCompletion` is the
lookup of the row, after which the completion is in the application's hands: the
session releases its mutex between the dequeue and the lookup, and a completion that
`close` overtakes there leaves nothing behind, like one that was never dequeued
(`CameraDeviceSession` has both steps).

**DmaBufPool.** A buffer is the address of its object, so that a pool that is
initialized again may reuse addresses that stale leases still hold.

Definitions introduced by a comment `mutant:` are plausible bugs, one for every
property; substituting one for the definition named in `PROJECT.json` makes TLC
find the property violated.

## 3. Runs

| Run | Instance | Shows |
|---|---|---|
| `queue` | 2 producers, capacity 2, 2 tasks each, any number of restarts | `RingInv`, `SlotReusable` (the assert in push), `NoSlotRace`, `DrainedBeforeExit`; the ring implements `TaskQueue`; `PushReturns`, `AwakeWorkerRuns` |
| `queue_full` | capacity 2, 1 task each | **violation**: a push is rejected though the queue was never full |
| `queue_wakeup` | capacity 1 | **violation**: a lost wakeup leaves the worker parked after `stop` |
| `session_safety` | one node, two nodes, mock; requests on 2 and 1 buffers, 1 preview buffer, 3 V4L2 slots, queue of 2, 3 starts | `BindingsResolve`, `RowsBacked`, `RequestConserved`, `NoReturnWhileQueued` |
| `session_faults` | the same backends with their faults; 2 single-output requests, which two nodes share, 2 preview buffers, 2 V4L2 slots per node, queue of 4, 1 start | `RequestConserved`, `NoReturnWhileQueued`, `PreviewExclusive`, `AnsweredUnlessDropped` |
| `session_duplicate` | two requests under one frame number | **violation** of `NoReturnWhileQueued` |
| `session_partial` | a two-output request, fence wait may fail | **violation** of `NoReturnWhileQueued` |
| `session_restart` | preview, two starts | **violation** of `PreviewExclusive` |
| `session_dropped` | queue of 1 | **violation** of `AcceptedAnswered` |
| `pool` | 3 addresses, 3 leases, 4 generations | `LeaseExclusive`, `PoolConserved`, `AcquiredMarks` |
| `runtime` | 2 sessions, 1 descriptor number, 2 shards with queues of 1, 1 start | `SessionSerialized`, `StopDrains`, `DeafOnlyWhenLostOrRobbed`, `StopReturns`, `Served` |
| `app` | 4 command lines: mock, one node, two nodes, preview saved; 2 buffers (3 with preview) | `EncoderExclusive`, `EncodesOwnBuffer`, `ImageWritten`, `Accounted`, `CliProgress`, `LeaseReturned` |

The passing runs say what the code does right and under which conditions. What
`queue_full` and `queue_wakeup` show of the ring can happen in every passing run of
the session, the runtime and the application: their queues refuse with room and their
workers sleep, and the properties that this touches name it as an exception (below).
What the other violations need is kept out by the instance: frame numbers are distinct
in `session_safety` and `session_faults`; `session_safety` has a request with two
outputs and no queueing faults, `session_faults` has the faults and single outputs.
There a failed STREAMON is allowed on the single node only, which the preview has
started before any capture; on a still node of its own, or without preview, it returns
a capture buffer the kernel still holds, as in `session_partial`. The continuous
stream of `session_faults` may fail on its second buffer with the first one queued.
`session_faults` starts once (`PreviewExclusive` fails with a second start).
`AcceptedAnswered`, which `session_dropped` violates, already excuses a worker that
sleeps for ever and a refusal with room, so that its trace is one of a full queue.

Some properties state the one exception the code leaves, and so show that there is
no other:

- `StopDrains`: only a request whose push was past its test of `stopped_` is left
  in a stopped queue; never a readiness task.
- `DeafOnlyWhenLostOrRobbed`: the descriptor of an open session is armed, or its
  event is on the way to the rearm, unless the queue refused the event, the runtime
  was restarted, or the number was still being unregistered by another session.
- `Served`: a ready session is served, unless for one of these reasons, or because its
  worker sleeps for ever beside the readiness task (`Neglected`).
- `AnsweredUnlessDropped`: an accepted request is answered, unless the queue refused a
  readiness event of an endpoint the request needs, or its worker sleeps for ever.
- `StopReturns`: `stop` returns, unless it joins a worker that sleeps for ever.
- `CliProgress`: `main` comes back to its prompt or ends, unless it is in
  `runtime.stop()` and that join does not return.
- `EncoderExclusive`: a preview frame that is not saved goes back to the driver
  with its release fence closed unread, and the device may refill the buffer while the
  frame's encoder reads it; `README.md` (continuous preview) says that it should not.
  Every other buffer that an encoder reads is left alone, a timed-out still's included.
- `EncodesOwnBuffer`: a preview frame may be encoded from a still with the same
  id, but only when preview frames are not saved.
- `ImageWritten`: an image that was encoded is written, but for a preview frame
  whose thread was pushed after `join_preview_workers` swapped the vector.
- `Accounted`: at the prompt only stills that timed out hold a lease or an entry
  (they keep them until the end: each costs the pool a buffer).

*Bounds.* Capacity 2 with two tasks per producer wraps every slot into its second
generation. Two producers suffice for CAS contention and the theorems remove the
bound. Three V4L2 slots
let both requests and the preview be queued together; three starts allow two
flush-and-restart cycles around one completion, and two preview frames recycle
the preview buffer across them. Two slots beside two preview buffers make the stills
of `session_faults` compete for slots. One descriptor number makes two sessions meet on
it; shards of one slot overflow with a request and a readiness task. The runtime is
started once, because two starts double the state graph its liveness is checked on;
the theorems about it cover any number of starts. Each command line of `app` has its own bounds: three
stills on two buffers run the pool dry, three or four preview frames use a buffer
twice. Runs end when the bounds are used up, so
deadlock is not checked, except in `pool`.

*Fairness.* Queue: weak fairness of every thread's own steps (the operating
system schedules runnable threads) and strong fairness of a successful CAS (a
`compare_exchange_weak` on an unchanged value does not fail forever, and a
producer is not overtaken forever by a bounded number of pushes). Spurious
wakeups are possible and not assumed. Session: weak fairness of the posting and
control threads inside an operation they have begun, of the event loop, of the
worker and of the device, which fills the buffers it owns while it streams.
Starting an operation is never assumed. Runtime: weak fairness of the loop, and of
`start`, `stop` and the session threads inside an operation; devices report when they
like. Application: weak fairness of `main` outside its prompt (its timed waits
expire), the worker, the encoders and the writers; neither the user nor the camera has
to act. `Sleep` and `Wake` are never fair: a worker may sleep for ever. What a worker
does when it is awake (`PopTask`, `WorkerStep`, `SubmitRequest`, and the join of
`StopRuntime` that waits for it) is strongly fair, since it may be disabled again and
again by a sleep: a worker that is awake again and again gets to its task or to its
exit. That is `AwakeWorkerRuns`, checked of the ring in `queue`.

The progress properties have the form `[]<>P \/ <>[]E`: the state that is waited for
comes again and again, unless the exception holds from some moment on. What is waited
for stays wanted until it comes, so this says what `wanted ~> (P \/ []E)` says.

## 4. Proofs

`BoundedTaskQueue_proofs`, for every set of producers and every capacity >= 1:

- `RingCorrect`: `TypeOK /\ RingInv` is an invariant. `SlotReusable` and
  `NoSlotRace` are not inductive: they need to know what every position of the
  window `head .. head + Capacity - 1` is. `RingInv` says so: a position is
  claimed by exactly one producer (`ClaimsInv`), published (`PublishedInv`),
  being emptied (`WorkerInv`) or free (`FreeInv`), and its sequence number and
  ring entry agree. The step that carries the proof is `ptail < head + Capacity`
  for a producer about to CAS: it survives because `head` only grows. Two
  positions of a window never share a slot (`SlotInjective`, from division with
  remainder), and the slot freed by the worker is that of `head + Capacity`
  (`SlotNextGeneration`).
- `SlotReusableAlways`, `NoSlotRaceAlways`, `TypeCorrect`: corollaries.
- `DrainedBeforeExitAlways`: the worker leaves its loop only on an empty ring. Two
  facts make that enough: the popped tasks are the first `head` claimed ones
  (`PoppedPrefix`), and a push that has returned, or is about to notify, has its
  task among the claimed ones (`ReturnedClaimed`). The step that matters is the
  second look at the ring after `stopped_` was seen (`EmptyCheck`).
- `RingImplementsTaskQueue`: under `waiting <- SubSeq(claimed, head + 1, tail)`,
  `closed <- stopped` and `worker <- WorkerState` (asleep from the last load of the
  wait predicate on, exited once `wait_pop` has returned false) every step is a step of
  `TaskQueue` or a stutter. It is safety only; what the users of the queue assume of
  its progress is `AwakeWorkerRuns`.

`DmaBufPool_proofs`, for every set of addresses and leases and all bounds:

- `PoolCorrect`: `TypeOK`, `LeaseExclusive`, `PoolConserved` and `AcquiredMarks`
  are inductive together; `release` trusts `acquired_`, which marks exactly the
  buffers of current leases, and exclusivity keeps the free list free of
  duplicates. `TypeCorrect`, `LeaseExclusiveAlways`, `PoolConservedAlways` and
  `AcquiredMarksAlways` are corollaries.

`HalRuntime_proofs`, for every set of sessions and descriptor numbers, every
number of shards, every capacity, and any number of starts and stops:

- `RuntimeCorrect`: the invariant `Inv` is inductive. Its parts, and what needs
  them: a task sits in the shard of its session (`Routed`, `IdleInv`), which gives
  `SessionSerializedAlways`. The loop's thread lives only between `start` and the
  join in `stop` (`LoopInv`), and no queue is stopped before that join, so that an
  exited worker's queue can only be reached by a request past its test of
  `stopped_` (`StopInv`): this gives `StopDrainsAlways`. An open session owns its
  descriptor number, and a closed session that still has to unregister the same
  number makes it a robbed one (`DescriptorInv`); without that a late `epoll_ctl`
  or `erase` could disconnect the session silently, and `ListenInv`, which gives
  `DeafOnlyWhenLostOrRobbedAlways`, would not be inductive.

`MinicamCli_proofs`, for every set of command lines, every number of buffers and
frames, and all faults:

- `AppCorrect`: the invariant `Inv` is inductive. `PhaseInv` is the order in which
  `main` does things: until `close` the preview tracker is full, and stills are
  taken only when preview frames are not saved. `NumberInv` and `PlaceInv` say that
  every frame number in any table was given out before, and that a frame is in one
  place at a time, so that it meets its encoder once. `AccountInv` says that while
  commands are read every lease, pending entry and result to come belongs to the
  still in hand or to one that was given up. `LeaseInv` ties entries to leases:
  a still on its way carries the buffer leased under its number, and each preview
  buffer is with the device or the worker, not both. `JobInv` and `ImageInv` follow
  the encoder and the writer of a frame: what is read stays leased, and an image
  waits in the store until its own writer takes it. `SaverInv` says that preview frames
  have writers only when they are saved. A step that only sleeps or wakes leaves all of
  it alone (`AtRest`).
- `EncoderExclusiveAlways` needs nearly all of it: a late encoder of a timed-out
  still reads a buffer whose lease `main` left in the tracker (`JobInv`), and an
  awaited preview buffer stays with the worker, whose requeue waits for the writer,
  which waits for the encoder (`ImageInv`). The buffer read is the frame's own for
  every frame somebody waits for (`EncodesOwnBuffer` with `SaverInv`).
- `ImageWrittenAlways` and `EncodesOwnBufferAlways` are parts of `Inv`;
  `AccountedAlways` and `TypeCorrect` are corollaries.

`DriverAdapter_proofs` has no theorem of its own. Its lemmas are the contract a
session relies on: a call on one V4L2 node, two nodes or the mock leaves a
well-formed driver with the same routes, and changes one entry of one slot table,
which it fills with a fresh token, fails to fill, or empties (`Loads`, `LoadFails`,
`Unloads`), or empties them all (`Stopped`), or none (`Quiet`). The proofs about the
session use these facts and no longer look into the backends.

`CameraDeviceSession_proofs`, for every set of requests (duplicate frame numbers
included), buffers and backends, any number of starts, and every fault:

- `SessionCorrect`: the invariant `IInv` is inductive. `BindingsResolve` and
  `RowsBacked` alone are not. A completion removes the context of its token and
  closes an output; that this leaves no other token on that output is `BindInv`,
  which also says that tokens and preview numbers in the tables were drawn before,
  so that a fresh one collides with none. While the worker queues a request output
  by output the row is there and only some outputs are bound: `QueueInv` says which.
  While the control thread queues preview buffers, tokens are in the driver and rows
  are not yet in the table: `PreviewInv`. A readiness event between two QBUFs of
  either is excluded by the mutex (`ThreadInv`). A preview row keeps its token when
  its buffer goes back to the device because the node stays in continuous mode
  (`ContinuousInv`).
- `TypeCorrect`, `BindingsResolveAlways` and `RowsBackedAlways` are corollaries.

`RequestConservation_proofs`, in addition for distinct frame numbers
(`DistinctFrames`; `session_duplicate` shows what happens without):

- `RequestConservedAlways`: an accepted request is in one place until it is
  answered, once. `TallyInv` turns the cardinalities of `RequestConserved` into
  indicators: for each frame number, the five places and the number of answers sum
  to 1 if a request with that number was accepted and to 0 if not. Each action moves
  one unit between two terms; `flush` moves many rows at once, each to its own
  result.

`BufferOwnership_proofs` states its hypotheses as definitions on the constants, and
each leaves out one case in which the code does hand out a buffer the device still
has:

- `NoReturnWhileQueuedAlways` assumes `DistinctFrames`; `SingleOutput` (a request
  whose second output cannot be queued is failed with the first one still queued:
  `session_partial`); and `StreamOnGuarded` (a first STREAMON that fails leaves its
  buffer queued, so it may fail only on a node that the preview starts). All other
  faults are allowed. The argument: every capture buffer the kernel has is an open
  output of a row in flight, under the token of its slot (`KernelInv`); a row belongs
  to an accepted, unanswered request, whose buffers the framework does not hold and
  no other request lists (`OwnInv`). A token is in one slot at most (`SlotInv`), so
  that a completion takes the kernel's entry and the row's output away together, and
  the preview's node is started before a capture can use it (`DeviceInv`).
- `PreviewExclusiveAlways` assumes `OneStart` (a second start queues the leased
  buffer: `session_restart`) and `DistinctPreviews` (no buffer is configured twice),
  and nothing about requests, backends or faults. Every preview buffer the kernel has
  is the buffer of a preview row, or of one the start is about to register, on a node
  whose device runs (`EntryInv`); a buffer has one row at most, and none while it is
  leased (`LeaseInv`); before the start there are neither rows nor leases
  (`StartInv`). A failed start is the exception: it leaves preview buffers queued
  without rows, but then no lease arises, since there is no other start. A flush or close during the callback empties the tables and the kernel's
  queue, and the lease that comes back afterwards is refused.

The invariants were checked with TLC on the instances of section 3 before they were
proved.

Assumptions: `CapacityAssumption` (the constructor's `max(capacity, 1)`),
`BoundAssumption`, `NoTaskAssumption`, `PoolAssumption` (a null pointer is not an
address), `RuntimeAssumption` (session ids are numbers, there is at least one shard
and one slot), `CliAssumption` (at least one buffer, stills are numbered below the
first preview frame, a preview stream needs a device), `IndexAssumption` (V4L2 buffer
indexes are numbers), `SessionAssumption` (a queue of at least one slot; frame numbers
start at 1 and stay below the base of the preview numbers; capture and preview buffers
are different buffers; the preview buffers belong to one stream, so that one endpoint
gets them all: `V4L2MultiStreamDriverAdapter::start_continuous_stream`).
TLC evaluates them in every run.

Only model-checked: liveness (`PushReturns`, `AwakeWorkerRuns`,
`AnsweredUnlessDropped`, `StopReturns`, `Served`, `CliProgress`, `LeaseReturned`), which is out of the prover's reach; and
`NoReturnWhileQueued` for requests with two outputs over backends whose queueing does
not fail (`session_safety`), which the theorem's `SingleOutput` leaves out.

## 5. Not modelled

Image data, formats, sizes, metrics, latencies and error texts: nothing reads them
back into the control flow, except sizes, whose checks only refuse a request. The
JPEG codec has no state. Fence descriptors as numbers: the models know when a fence
signals and who waits for it, not which number it has, so leaked or reused fence
numbers (a restarted preview, a refused request) are hazards without a property. A
second output processor in a chain, which the application never installs; a failing
`epoll_wait` or file write; the early returns of `main` before its first wait; the
destructors after its return; a preview stream configured without buffers, which
`start_streaming` turns into the error state. The data race on `started_` between
`post` and `stop`, as undefined behaviour: the models read the flag atomically. A push
that spans a restart of its queue (section 2).

## 6. What is left

Every safety property the runs check is a theorem. What could be added:
`NoReturnWhileQueued` for requests with any number of outputs over backends whose
queueing cannot fail, which needs, beside `KernelInv`, that the worker reaches the
last output of each request it begins; and fence descriptors as numbers, for the
hazards of section 5 that have no property.
