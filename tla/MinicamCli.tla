----------------------------- MODULE MinicamCli -----------------------------
(***************************************************************************)
(* app/minicam_cli.cpp: the command-line application over one session,     *)
(* with its result writer, its JPEG encoder and its buffer trackers.       *)
(*                                                                         *)
(* Threads: main, which reads commands, waits for each still and at last   *)
(* closes everything; the shard worker, which runs the session's tasks and *)
(* the callbacks of main; one encoder thread per completed frame; one      *)
(* writer thread per preview frame that is saved.  The session and its     *)
(* driver are reduced to what the application sees of them: tasks, the     *)
(* buffers the device owns, the mutex, and whether it streams.  Their      *)
(* detail is CameraDeviceSession's.  A worker may sleep beside its tasks,  *)
(* and past the stop of its queue (TaskQueue).                             *)
(***************************************************************************)
EXTENDS JpegEncoderProcessor, FenceAwareResultWriter, Naturals, Sequences, FiniteSets

CONSTANTS
  Options,      \* command lines: [v4l2, preview, out : BOOLEAN, count : Nat], with
                \* two bounds: capture commands and preview frame numbers
  BufferCount,  \* --buffers
  NoId,         \* buffer id -1, an output without dma-buf
  PreviewBase,  \* first preview frame number
  Faults        \* reject, submit, requeue, pipe, encode: what may fail

ASSUME CliAssumption ==
  /\ BufferCount \in Nat \ {0} /\ PreviewBase \in Nat
  /\ NoId \notin Nat /\ NoBuffer \notin Nat
  /\ \A o \in Options : /\ o.preview => o.v4l2
                        /\ o.captures \in 0..(PreviewBase - 1)
                        /\ o.count \in Nat /\ o.frames \in Nat

VARIABLES
  options,
  captures, previews,     \* capture_buffer_tracker, preview_buffer_tracker
  pending,                \* result_writer's pending_writes_
  encoded,                \* keys in the EncodedFrameStore
  jobs,                   \* encoder threads, by frame
  tasks, device,          \* session: queued requests, entries the device owns
  asleep,                 \* the shard worker sleeps although it has reason to run
  open, lock,             \* session: it streams; holder of its mutex
  worker,                 \* shard worker: [pc, entry, result]
  writers,                \* threads that save preview frames: [pc, id], by frame
  preview_workers,        \* those of them in the vector of that name
  written,                \* preview_frames_written
  cli,                    \* main: [pc, entry, result, frames]
  nextFrame, nextPreview, \* frame numbers of stills and of preview frames
  timedOut, missing       \* history: stills given up, frames written without image

vars == <<options, captures, previews, pending, encoded, jobs, tasks, device, asleep,
          open, lock, worker, writers, preview_workers, written, cli, nextFrame,
          nextPreview, timedOut, missing>>
trackerVars == <<captures, previews>>
encoderVars == <<encoded, jobs>>
sessionVars == <<tasks, device, asleep, open, lock>>
previewVars == <<writers, preview_workers, written>>
numberVars == <<nextFrame, nextPreview>>
historyVars == <<timedOut, missing>>

Entry(frame, id, buffer) == [frame |-> frame, id |-> id, buffer |-> buffer]
NoEntry == Entry(0, NoId, NoBuffer)
IsPreview(frame) == frame >= PreviewBase

\* The pool: one buffer more than --buffers when there is a preview stream.
Pool == IF ~options.v4l2 THEN {}
        ELSE 1..(IF options.preview THEN BufferCount + 1 ELSE BufferCount)
Free == Pool \ (Leased(captures) \cup Leased(previews))

IdleWorker == [pc |-> "idle", entry |-> NoEntry, result |-> "none"]
CliAt(pc) == [pc |-> pc, entry |-> NoEntry, result |-> "none", frames |-> {}]

\* Stills are not taken when --preview-out asks for frames.
SavesPreview(o) == o.out /\ o.count > 0

\* main up to its first wait: preview buffers have ids 0, 1, ... and are queued.
Init ==
  /\ options \in Options
  /\ captures = NoBuffers
  /\ previews = IF options.preview THEN [id \in 0..(BufferCount - 1) |-> id + 1]
                ELSE NoBuffers
  /\ device = {Entry(PreviewBase + id, id, previews[id]) : id \in DOMAIN previews}
  /\ nextPreview = PreviewBase + Cardinality(DOMAIN previews)
  /\ pending = NothingPending /\ encoded = {} /\ jobs = NoJobs
  /\ tasks = <<>> /\ asleep = FALSE /\ open = TRUE /\ lock = "free" /\ worker = IdleWorker
  /\ writers = [f \in {} |-> [pc |-> "take"]] /\ preview_workers = {} /\ written = 0
  /\ cli = CliAt(IF SavesPreview(options) THEN "preview" ELSE "prompt")
  /\ nextFrame = 1 /\ timedOut = {} /\ missing = {}

-----------------------------------------------------------------------------
\* main.

\* the capture command: a lease, registered under the frame number, and the path
Capture ==
  LET f == nextFrame
      request(id, b) ==
        /\ pending' = RegisterPath(pending, f)
        /\ cli' = [CliAt("submit") EXCEPT !.entry = Entry(f, id, b)]
  IN
  /\ cli.pc = "prompt" /\ f <= options.captures
  /\ nextFrame' = f + 1
  /\ \/ ~options.v4l2 /\ request(NoId, NoBuffer) /\ UNCHANGED captures
     \/ \E b \in Free : /\ CanRegister(captures, f, b)
                        /\ captures' = RegisterBuffer(captures, f, b)
                        /\ request(f, b)
     \/ options.v4l2 /\ Free = {} /\ UNCHANGED <<captures, pending, cli>>
  /\ UNCHANGED <<options, previews, encoderVars, sessionVars, worker, previewVars,
                 nextPreview, historyVars>>

\* mutant: the buffer of a refused request is forgotten
RefuseWithoutRelease ==
  /\ pending' = Cancel(pending, cli.entry.frame)
  /\ cli' = CliAt("prompt") /\ UNCHANGED captures

\* process_capture_request returned false
Refuse ==
  /\ pending' = Cancel(pending, cli.entry.frame)
  /\ captures' = Release(captures, cli.entry.frame)
  /\ cli' = CliAt("prompt")

ProcessCaptureRequest ==
  /\ cli.pc = "submit" /\ lock = "free"
  /\ \/ /\ tasks' = Append(tasks, cli.entry)
        /\ cli' = [cli EXCEPT !.pc = "wait"] /\ UNCHANGED <<pending, captures>>
     \/ "reject" \in Faults /\ Refuse /\ UNCHANGED tasks
  /\ UNCHANGED <<options, previews, encoderVars, device, asleep, open, lock, worker,
                 previewVars, numberVars, historyVars>>

\* block_wait_and_write: the result has come; a result without a buffer ends it
ResultReady ==
  LET f == cli.entry.frame
      result == PendingWrite(pending, f).result
  IN
  /\ cli.pc = "wait" /\ IsRegistered(pending, f)
  /\ pending' = Cancel(pending, f)
  /\ cli' = IF result = "empty" THEN CliAt("prompt")
            ELSE [cli EXCEPT !.pc = "fence", !.result = result]
  /\ UNCHANGED <<options, trackerVars, encoderVars, sessionVars, worker,
                 previewVars, numberVars, historyVars>>

\* ... or five seconds have passed: the lease and the pending entry stay
ResultTimeout ==
  /\ cli.pc = "wait" /\ ~IsRegistered(pending, cli.entry.frame)
  /\ timedOut' = timedOut \cup {cli.entry.frame}
  /\ cli' = CliAt("prompt")
  /\ UNCHANGED <<options, trackerVars, pending, encoderVars, sessionVars, worker,
                 previewVars, numberVars, missing>>

\* ... the release fence is waited for, the lease dropped and the image written
WriteStill ==
  LET e == cli.entry
      tracked == Resolve(captures, e.id) # NoBuffer \/ e.id = NoId
      wrote == WritesImage(cli.result, tracked, encoded, KeyOf(e.frame, e.id))
  IN
  /\ cli.pc = "fence" /\ Signalled(jobs, e.frame)
  /\ captures' = Release(captures, e.id)
  /\ encoded' = IF wrote THEN Take(encoded, e.frame, e.id) ELSE encoded
  /\ missing' = IF cli.result = "ok" /\ ~wrote THEN missing \cup {e.frame} ELSE missing
  /\ cli' = CliAt("prompt")
  /\ UNCHANGED <<options, previews, pending, jobs, sessionVars, worker, previewVars,
                 numberVars, timedOut>>

\* end of input, or quit
Quit ==
  /\ cli.pc = "prompt"
  /\ cli' = CliAt("swap")
  /\ UNCHANGED <<options, trackerVars, pending, encoderVars, sessionVars, worker,
                 previewVars, numberVars, historyVars>>

\* the wait for preview frames: enough are saved, or five seconds have passed
WaitPreview ==
  /\ cli.pc = "preview"
  /\ cli' = [CliAt("swap") EXCEPT
               !.result = IF written >= options.count THEN "ok" ELSE "failed"]
  /\ UNCHANGED <<options, trackerVars, pending, encoderVars, sessionVars, worker,
                 previewVars, numberVars, historyVars>>

\* join_preview_workers: the threads that are in the vector by now ...
SwapWorkers ==
  /\ cli.pc = "swap"
  /\ cli' = [cli EXCEPT !.pc = "join", !.frames = preview_workers]
  /\ preview_workers' = {}
  /\ UNCHANGED <<options, trackerVars, pending, encoderVars, sessionVars, worker,
                 writers, written, numberVars, historyVars>>

\* ... are joined
JoinWorkers ==
  /\ cli.pc = "join" /\ \A f \in cli.frames : writers[f].pc = "done"
  /\ cli' = [cli EXCEPT !.pc = "close"]
  /\ UNCHANGED <<options, trackerVars, pending, encoderVars, sessionVars, worker,
                 previewVars, numberVars, historyVars>>

\* session->close(), under the session's mutex; the results of the stills that
\* were in flight follow
CloseSession ==
  /\ cli.pc = "close" /\ lock = "free"
  /\ open' = FALSE /\ device' = {}
  /\ cli' = [cli EXCEPT
               !.pc = "flushed",
               !.frames = {e.frame : e \in {x \in device : ~IsPreview(x.frame)}}]
  /\ UNCHANGED <<options, trackerVars, pending, encoderVars, tasks, asleep, lock,
                 worker, previewVars, numberVars, historyVars>>

DispatchFlushed ==
  /\ cli.pc = "flushed"
  /\ pending' = RegisterResults(pending, cli.frames, "flushed")
  /\ cli' = CliAt(IF cli.result = "failed" THEN "stop" ELSE "release")
  /\ UNCHANGED <<options, trackerVars, encoderVars, sessionVars, worker, previewVars,
                 numberVars, historyVars>>

\* release_all of both trackers, unless the preview wait has timed out
ReleaseAll ==
  /\ cli.pc = "release"
  /\ captures' = NoBuffers /\ previews' = NoBuffers
  /\ cli' = CliAt("stop")
  /\ UNCHANGED <<options, pending, encoderVars, sessionVars, worker, previewVars,
                 numberVars, historyVars>>

\* runtime.stop() drains the shard and joins its worker, if it ever wakes
StopRuntime ==
  /\ cli.pc = "stop" /\ tasks = <<>> /\ worker.pc = "idle" /\ ~asleep
  /\ cli' = CliAt("exit")
  /\ UNCHANGED <<options, trackerVars, pending, encoderVars, sessionVars, worker,
                 previewVars, numberVars, historyVars>>

CliStep ==
  \/ ProcessCaptureRequest \/ ResultReady \/ ResultTimeout \/ WriteStill
  \/ WaitPreview \/ SwapWorkers \/ JoinWorkers \/ CloseSession \/ DispatchFlushed
  \/ ReleaseAll \/ StopRuntime

-----------------------------------------------------------------------------
\* The shard worker.

\* wait_pop: the notification of a push, or of the queue's stop, came between the
\* worker's look at the queue and its sleep, and was lost
Sleep ==
  /\ worker.pc = "idle" /\ ~asleep /\ (tasks # <<>> \/ cli.pc = "stop")
  /\ asleep' = TRUE
  /\ UNCHANGED <<options, trackerVars, pending, encoderVars, tasks, device, open, lock,
                 worker, previewVars, cli, numberVars, historyVars>>

Wake ==
  /\ asleep /\ asleep' = FALSE
  /\ UNCHANGED <<options, trackerVars, pending, encoderVars, tasks, device, open, lock,
                 worker, previewVars, cli, numberVars, historyVars>>

\* what the session does with a request ...
SubmitRequest ==
  LET e == Head(tasks)
      respond(result) ==
        /\ worker' = [pc |-> "result", entry |-> e, result |-> result]
        /\ UNCHANGED device
  IN
  /\ worker.pc = "idle" /\ ~asleep /\ lock = "free" /\ tasks # <<>>
  /\ tasks' = Tail(tasks)
  /\ \/ ~open /\ respond("empty")
     \/ open /\ device' = device \cup {e} /\ UNCHANGED worker
     \/ open /\ "submit" \in Faults /\ respond("failed")
  /\ UNCHANGED <<options, trackerVars, pending, encoderVars, asleep, open, lock,
                 previewVars, cli, numberVars, historyVars>>

\* ... and with a buffer the device has filled (the device does so when it likes).
\* The session lets go of its mutex between the dequeue and the lookup of the row;
\* this is the lookup.  A completion that close overtakes in between leaves nothing
\* behind, as here one that is not dequeued.
DequeueCompletion(e) ==
  /\ worker.pc = "idle" /\ ~asleep /\ lock = "free" /\ open /\ e \in device
  /\ IsPreview(e.frame) => nextPreview < PreviewBase + options.frames
  /\ device' = device \ {e}
  /\ \/ jobs' = ProcessOutput(jobs, e, ResolveBuffer(captures, previews, e.id))
     \/ "pipe" \in Faults /\ UNCHANGED jobs
  /\ worker' = [pc |-> IF IsPreview(e.frame) THEN "callback" ELSE "result",
                entry |-> e, result |-> "ok"]
  /\ UNCHANGED <<options, trackerVars, pending, encoded, tasks, asleep, open, lock,
                 previewVars, cli, numberVars, historyVars>>

\* result_callback
RegisterResult ==
  /\ worker.pc = "result"
  /\ pending' = RegisterResults(pending, {worker.entry.frame}, worker.result)
  /\ worker' = IdleWorker
  /\ UNCHANGED <<options, trackerVars, encoderVars, sessionVars, previewVars, cli,
                 numberVars, historyVars>>

\* stream_result_callback: nothing to save, or a thread that saves the frame; if
\* there is no pipe for the consumer fence the worker saves the frame itself
StreamResultCallback ==
  LET e == worker.entry IN
  /\ worker.pc = "callback"
  /\ \/ /\ ~options.out \/ written >= options.count
        /\ worker' = [worker EXCEPT !.pc = "return"]
        /\ UNCHANGED <<pending, writers>>
     \/ /\ options.out /\ written < options.count
        /\ pending' = RegisterResults(RegisterPath(pending, e.frame), {e.frame}, "ok")
        /\ writers' = Emplace(writers, e.frame, [pc |-> "take", id |-> e.id])
        /\ \/ worker' = [worker EXCEPT !.pc = "push"]
           \/ "pipe" \in Faults /\ worker' = [worker EXCEPT !.pc = "inline"]
  /\ UNCHANGED <<options, trackerVars, encoderVars, sessionVars, preview_workers,
                 written, cli, numberVars, historyVars>>

PushWorker ==
  /\ worker.pc = "push"
  /\ preview_workers' = preview_workers \cup {worker.entry.frame}
  /\ worker' = [worker EXCEPT !.pc = "return"]
  /\ UNCHANGED <<options, trackerVars, pending, encoderVars, sessionVars, writers,
                 written, cli, numberVars, historyVars>>

InlineWritten ==
  /\ worker.pc = "inline" /\ writers[worker.entry.frame].pc = "done"
  /\ worker' = [worker EXCEPT !.pc = "return"]
  /\ UNCHANGED <<options, trackerVars, pending, encoderVars, sessionVars, previewVars,
                 cli, numberVars, historyVars>>

\* The lease comes back: under its mutex the session hands it to the driver ...
ReturnStreamBuffer ==
  /\ worker.pc = "return" /\ lock = "free"
  /\ IF open
     THEN lock' = "worker" /\ worker' = [worker EXCEPT !.pc = "requeue"]
     ELSE worker' = IdleWorker /\ UNCHANGED lock
  /\ UNCHANGED <<options, trackerVars, pending, encoderVars, tasks, device, asleep, open,
                 previewVars, cli, numberVars, historyVars>>

\* mutant: the next preview frame has the number of the last one
RequeueSameNumber ==
  LET e == worker.entry IN
  /\ worker.pc = "requeue"
  /\ e.frame \in DOMAIN writers => writers[e.frame].pc = "done"
  /\ device' = device \cup {Entry(nextPreview, e.id, e.buffer)}
  /\ worker' = IdleWorker /\ lock' = "free"
  /\ UNCHANGED <<options, trackerVars, pending, encoderVars, tasks, asleep, open,
                 previewVars, cli, nextFrame, nextPreview, historyVars>>

\* ... which waits for the consumer fence first
RequeuePreview ==
  LET e == worker.entry IN
  /\ worker.pc = "requeue"
  /\ e.frame \in DOMAIN writers => writers[e.frame].pc = "done"
  /\ \/ /\ device' = device \cup {Entry(nextPreview, e.id, e.buffer)}
        /\ nextPreview' = nextPreview + 1
     \/ "requeue" \in Faults /\ UNCHANGED <<device, nextPreview>>
  /\ worker' = IdleWorker /\ lock' = "free"
  /\ UNCHANGED <<options, trackerVars, pending, encoderVars, tasks, asleep, open,
                 previewVars, cli, nextFrame, historyVars>>

WorkerStep ==
  \/ SubmitRequest \/ RegisterResult \/ StreamResultCallback \/ PushWorker
  \/ InlineWritten \/ ReturnStreamBuffer \/ RequeuePreview

-----------------------------------------------------------------------------
\* The encoder thread of frame f.

EncodeFrame(f) ==
  /\ f \in Reading(jobs)
  /\ \/ /\ jobs' = Encoded(jobs, f, TRUE)
        /\ encoded' = Put(encoded, f, jobs[f].id)
     \/ "encode" \in Faults /\ jobs' = Encoded(jobs, f, FALSE) /\ UNCHANGED encoded
  /\ UNCHANGED <<options, trackerVars, pending, sessionVars, worker, previewVars, cli,
                 numberVars, historyVars>>

\* mutant: the release fence is signalled as soon as the thread starts
SignalWhileReading(f) ==
  /\ f \in DOMAIN jobs /\ jobs[f].pc \in {"reading", "signal"}
  /\ jobs' = SignalFence(jobs, f)
  /\ UNCHANGED <<options, trackerVars, pending, encoded, sessionVars, worker,
                 previewVars, cli, numberVars, historyVars>>

\* mutant: the release fence is only signalled for an image
SignalImage(f) ==
  /\ f \in DOMAIN jobs /\ jobs[f].pc = "signal" /\ ~jobs[f].failed
  /\ jobs' = SignalFence(jobs, f)
  /\ UNCHANGED <<options, trackerVars, pending, encoded, sessionVars, worker,
                 previewVars, cli, numberVars, historyVars>>

SignalRelease(f) ==
  /\ f \in DOMAIN jobs /\ jobs[f].pc = "signal"
  /\ jobs' = SignalFence(jobs, f)
  /\ UNCHANGED <<options, trackerVars, pending, encoded, sessionVars, worker,
                 previewVars, cli, numberVars, historyVars>>

EncoderStep(f) == EncodeFrame(f) \/ SignalRelease(f)

-----------------------------------------------------------------------------
\* The thread that saves preview frame f: block_wait_and_write ...

WriterAt(f, pc) == writers' = [writers EXCEPT ![f].pc = pc]

TakePreview(f) ==
  /\ f \in DOMAIN writers /\ writers[f].pc = "take" /\ IsRegistered(pending, f)
  /\ pending' = Cancel(pending, f)
  /\ WriterAt(f, "fence")
  /\ UNCHANGED <<options, trackerVars, encoderVars, sessionVars, worker,
                 preview_workers, written, cli, numberVars, historyVars>>

WritePreview(f) ==
  LET id == writers[f].id
      wrote == WritesImage("ok", Resolve(previews, id) # NoBuffer, encoded, KeyOf(f, id))
  IN
  /\ f \in DOMAIN writers /\ writers[f].pc = "fence" /\ Signalled(jobs, f)
  /\ IF wrote
     THEN /\ encoded' = Take(encoded, f, id)
          /\ written' = written + 1 /\ UNCHANGED missing
     ELSE missing' = missing \cup {f} /\ UNCHANGED <<encoded, written>>
  /\ WriterAt(f, "signal")
  /\ UNCHANGED <<options, trackerVars, pending, jobs, sessionVars, worker,
                 preview_workers, cli, numberVars, timedOut>>

\* mutant: the consumer fence is only signalled for an image
SignalSaved(f) ==
  /\ f \in DOMAIN writers /\ writers[f].pc = "signal" /\ f \notin missing
  /\ WriterAt(f, "done")
  /\ UNCHANGED <<options, trackerVars, pending, encoderVars, sessionVars, worker,
                 preview_workers, written, cli, numberVars, historyVars>>

\* ... and the consumer fence is signalled
SignalConsumer(f) ==
  /\ f \in DOMAIN writers /\ writers[f].pc = "signal"
  /\ WriterAt(f, "done")
  /\ UNCHANGED <<options, trackerVars, pending, encoderVars, sessionVars, worker,
                 preview_workers, written, cli, numberVars, historyVars>>

WriterStep(f) == TakePreview(f) \/ WritePreview(f) \/ SignalConsumer(f)

-----------------------------------------------------------------------------
Stills == 1..(PreviewBase - 1)
PreviewFrames == UNION {PreviewBase..(PreviewBase + o.frames) : o \in Options}
AllFrames == Stills \cup PreviewFrames

Next ==
  \/ Capture \/ Quit \/ CliStep \/ Sleep \/ Wake \/ WorkerStep
  \/ \E e \in device : DequeueCompletion(e)
  \/ \E f \in AllFrames : EncoderStep(f)
  \/ \E f \in PreviewFrames : WriterStep(f)

Spec == Init /\ [][Next]_vars

\* Threads run and timeouts expire; the user and the camera may stay away.  Nothing
\* makes the worker sleep or wakes it; if it is awake again and again it takes its
\* task, or sees that its queue has stopped (BoundedTaskQueue, AwakeWorkerRuns).
Fairness ==
  /\ WF_vars(CliStep) /\ SF_vars(StopRuntime)
  /\ WF_vars(WorkerStep) /\ SF_vars(SubmitRequest)
  /\ \A f \in AllFrames : WF_vars(EncoderStep(f))
  /\ \A f \in PreviewFrames : WF_vars(WriterStep(f))

FairSpec == Spec /\ Fairness

-----------------------------------------------------------------------------
\* Types; every frame the device fills has a number of its own.
TypeOK ==
  /\ options \in Options
  /\ DOMAIN captures \subseteq Stills /\ DOMAIN previews \subseteq 0..BufferCount
  /\ DOMAIN pending \subseteq AllFrames /\ DOMAIN jobs \subseteq AllFrames
  /\ \A e \in device : e.frame < (IF IsPreview(e.frame) THEN nextPreview ELSE nextFrame)
  /\ \A e, x \in device : e.frame = x.frame => e = x
  /\ DOMAIN writers \subseteq PreviewFrames /\ preview_workers \subseteq DOMAIN writers
  /\ lock = (IF worker.pc = "requeue" THEN "worker" ELSE "free")
  /\ worker.pc \in {"idle", "result", "callback", "push", "inline", "return", "requeue"}
  /\ cli.pc \in {"preview", "prompt", "submit", "wait", "fence", "swap", "join",
                 "close", "flushed", "release", "stop", "exit"}
  /\ written \in Nat /\ asleep \in BOOLEAN
  /\ timedOut \subseteq Stills /\ missing \subseteq AllFrames

\* Nobody waits for the release fence of preview frame f: the callback closed it
\* unread, as it always does when no preview frames are saved.
Unawaited(f) ==
  /\ IsPreview(f) /\ f \notin DOMAIN writers
  /\ worker.pc = "callback" /\ worker.entry.frame = f => ~SavesPreview(options)

\* While an encoder thread reads a buffer, the device does not own that buffer, and it
\* is not free for another still until main gives up all its leases: a still that
\* timed out is read long after main went on.  Frames whose release fence nobody waits
\* for are excepted: the device does refill their buffers, against what the README
\* says of continuous preview.
EncoderExclusive ==
  \A f \in Reading(jobs) :
    LET b == jobs[f].buffer IN
    ~Unawaited(f) =>
      /\ \A e \in device : e.buffer # b \/ b = NoBuffer
      /\ b \in Free => cli.pc \in {"stop", "exit"}

\* An image is made of the buffer the device filled for it.  Ids of stills and of
\* preview buffers are the same numbers, and stills are looked up first, so only a
\* preview frame that is encoded while stills are taken may show another picture.
EncodesOwnBuffer ==
  \A f \in DOMAIN jobs :
    jobs[f].buffer # jobs[f].own => IsPreview(f) /\ ~SavesPreview(options)

\* A frame whose encoder succeeded is written: the image is in the store before the
\* fence that the writer waits for is signalled.  Only a preview frame whose thread
\* main did not join may find its tracker already released.
ImageWritten ==
  \A f \in missing :
    \/ f \in DOMAIN jobs => jobs[f].failed
    \/ IsPreview(f) /\ previews = NoBuffers

\* When main asks for the next command, only stills it gave up still hold a buffer
\* or a pending entry, whichever way the earlier commands ended.
Accounted ==
  cli.pc = "prompt" =>
    /\ DOMAIN captures \subseteq timedOut
    /\ DOMAIN pending \subseteq timedOut

\* main comes back to its prompt or to its end, although it waits for fences and
\* for the session's mutex without a timeout; only the join of a worker that sleeps
\* for ever, past the stop of its queue, may keep it.
CliProgress ==
  \/ []<>(cli.pc \in {"prompt", "exit"})
  \/ <>[](asleep /\ cli.pc = "stop")

\* The session's mutex, held while the driver waits for the consumer fence, is
\* released.
LeaseReturned == []<>(lock = "free")
=============================================================================
