------------------------ MODULE CameraDeviceSession ------------------------
(***************************************************************************)
(* hal/camera_device_session.{h,cpp}: one camera session, with its request *)
(* tracker, its driver, the shard queue and worker that run its            *)
(* tasks, and the one-shot epoll registrations that feed it readiness.     *)
(*                                                                         *)
(* Four threads act.  A framework thread submits capture requests; another *)
(* controls the session (configure, start, flush, close); the event loop   *)
(* turns readiness of the driver fd into tasks; the shard worker runs the  *)
(* tasks.  A section of code under mutex_ is one action, except where it   *)
(* calls the driver several times: there the mutex is the variable lock,   *)
(* and each driver call is a step, so the device can fill a buffer of a    *)
(* request while its other buffers are still being queued.  The callbacks  *)
(* into the framework run without the mutex and are steps of their own.    *)
(* The shard's queue promises what TaskQueue promises, no more: a post may *)
(* be refused when there is room, and the worker may be asleep beside its  *)
(* tasks.                                                                  *)
(***************************************************************************)
EXTENDS InFlightRequestTracker, DriverAdapter

CONSTANTS
  Requests,       \* capture requests: [frame, buffers], buffers a sequence
  PreviewBuffers, \* continuous_preview_buffers, a sequence; <<>>: no preview
  StreamBase,     \* first value of next_streaming_frame_number_
  Backends,       \* drivers: [kind, route, faults], see DriverAdapter
  QueueCapacity,  \* bound of the shard's queue
  MaxStarts,      \* bound: calls of start_streaming
  MaxPreviews     \* bound: preview frames the device fills

Buffers == UNION {{r.buffers[k] : k \in DOMAIN r.buffers} : r \in Requests}
Previews == {PreviewBuffers[k] : k \in DOMAIN PreviewBuffers}
Frames == {r.frame : r \in Requests}
Endpoints == UNION {{c.route[b] : b \in DOMAIN c.route} : c \in Backends}

\* the readiness task of an endpoint's fd
Ready(e) == [frame |-> 0, buffers |-> <<e>>]
IsReady(task) == task.frame = 0

ASSUME SessionAssumption ==
  /\ QueueCapacity \in Nat \ {0} /\ MaxStarts \in Nat /\ MaxPreviews \in Nat
  /\ StreamBase \in Nat
  /\ Requests \subseteq [frame : 1..(StreamBase - 1), buffers : Seq(Buffers)]
  /\ PreviewBuffers \in Seq(Previews)
  /\ Buffers \cap Previews = {} /\ NoBuffer \notin Buffers \cup Previews
  /\ \A c \in Backends :
       /\ DOMAIN c.route = Buffers \cup Previews \cup {NoBuffer}
       \* the preview buffers are one stream's: one endpoint takes them all
       /\ \A v, w \in Previews : c.route[v] = c.route[w]

VARIABLES
  state,          \* state_; Flushing and Stopping never outlast the mutex
  tracker,        \* in_flight_
  driver,         \* *driver_
  lock,           \* holder of mutex_ between two steps
  nextFrame,      \* next_streaming_frame_number_
  tasks,          \* the shard queue: requests to submit, readiness
  asleep,         \* the worker sleeps although there are tasks
  dropped,        \* history: readiness refused, [fd, full]
  armed,          \* endpoints whose fd is registered and armed (EPOLLONESHOT)
  sub,            \* submitting thread: the request it has passed the check for
  control,        \* control thread: [pc, tokens, results]
  worker,         \* shard worker: [pc, request, index, token, lease, result]
  unsent,         \* requests the framework has not submitted
  accepted,       \* requests whose process_capture_request returned true
  results,        \* results delivered, per frame number
  held,           \* buffers the framework owns
  starts, fills   \* bounded counters

vars == <<state, tracker, driver, lock, nextFrame, tasks, asleep, dropped, armed,
          sub, control, worker, unsent, accepted, results, held, starts, fills>>
sessionVars == <<state, tracker, driver, lock, nextFrame>>
frameworkVars == <<sub, unsent, accepted>>
deliveryVars == <<results, held>>
boundVars == <<starts, fills>>

None == [frame |-> 0, buffers |-> {}]         \* no request, no result
IdleWorker == [pc |-> "idle", request |-> [frame |-> 0, buffers |-> <<>>],
               index |-> 1, token |-> 0, lease |-> NoBuffer, result |-> None]
IdleControl == [pc |-> "idle", tokens |-> <<>>, results |-> {}]

Init ==
  /\ state = "Created" /\ tracker = EmptyTracker
  /\ \E c \in Backends : driver = ClosedDriver(c)
  /\ lock = "free" /\ nextFrame = StreamBase
  /\ tasks = <<>> /\ asleep = FALSE /\ dropped = {} /\ armed = {}
  /\ sub = None /\ control = IdleControl /\ worker = IdleWorker
  /\ unsent = Requests /\ accepted = {}
  /\ results = [f \in Frames |-> 0] /\ held = Buffers
  /\ starts = 0 /\ fills = 0

-----------------------------------------------------------------------------
\* completed_buffers_for: the buffers a result hands back
BuffersOf(outputs) == {outputs[k] : k \in DOMAIN outputs} \ {NoBuffer}

\* request_outputs_for: a request without outputs gets a target without dma-buf
OutputsOf(r) == IF r.buffers = <<>> THEN <<NoBuffer>> ELSE r.buffers

Result(frame, buffers) == [frame |-> frame, buffers |-> buffers]

\* mutant: the failed request keeps its row
FailedKeepsRow(t, frame) == ClearDriverOutputsForFrame(t, frame)

\* fill_failed_result_locked: the row under the frame number, if there is one,
\* is failed and its buffers are returned; else the buffers of the request.
FailedTracker(t, frame) == ClearDriverOutputsForFrame(Fail(t, frame), frame)
FailedResult(t, r) ==
  Result(r.frame, BuffersOf(IF r.frame \in DOMAIN t.requests
                            THEN t.requests[r.frame].outputs
                            ELSE OutputsOf(r)))

\* result_callback_ for a set of results
Deliver(rs) ==
  /\ results' = [f \in Frames |->
                   results[f] + Cardinality({x \in rs : x.frame = f})]
  /\ held' = held \cup UNION {x.buffers : x \in rs}

-----------------------------------------------------------------------------
\* The submitting thread: process_capture_request tests the state under the
\* mutex and posts the task after releasing it.

ProcessCaptureRequest(r) ==
  /\ sub = None /\ lock = "free"
  /\ r \in unsent /\ BuffersOf(r.buffers) \subseteq held
  /\ unsent' = unsent \ {r}
  /\ sub' = IF state = "Streaming" THEN r ELSE None
  /\ UNCHANGED <<sessionVars, tasks, asleep, dropped, armed, control, worker,
                 accepted, deliveryVars, boundVars>>

\* TaskExecutor::post succeeds only while the shard's queue has room
CanPost == Len(tasks) < QueueCapacity

\* mutant: the task is queued whether or not there is room
PostUnchecked ==
  /\ sub # None /\ sub' = None
  /\ tasks' = Append(tasks, sub)
  /\ accepted' = accepted \cup {sub}
  /\ held' = held \ BuffersOf(sub.buffers)
  /\ UNCHANGED <<sessionVars, asleep, dropped, armed, control, worker, unsent,
                 results, boundVars>>

\* the task is queued, or refused, as it is when the queue is full and may be
\* when it is not
PostRequest ==
  /\ sub # None /\ sub' = None
  /\ \/ /\ CanPost
        /\ tasks' = Append(tasks, sub)
        /\ accepted' = accepted \cup {sub}
        /\ held' = held \ BuffersOf(sub.buffers)
     \/ UNCHANGED <<tasks, accepted, held>>
  /\ UNCHANGED <<sessionVars, asleep, dropped, armed, control, worker, unsent,
                 results, boundVars>>

-----------------------------------------------------------------------------
\* The control thread.

\* register_session: every fd is added to the epoll set, armed, or none is
RegisterSession(fds) == armed' = fds

ConfigureStreams ==
  /\ control.pc = "idle" /\ lock = "free" /\ state = "Created"
  /\ \/ /\ driver' = OpenDriver(driver) /\ RegisterSession(EventFds(driver))
        /\ state' = "Configured"
     \/ /\ "configure" \in driver.faults
        /\ driver' \in {driver, OpenDriver(driver)} /\ RegisterSession({})
        /\ state' = "Error"
  /\ UNCHANGED <<tracker, lock, nextFrame, tasks, asleep, dropped, control, worker,
                 frameworkVars, deliveryVars, boundVars>>

StartStreaming ==
  /\ control.pc = "idle" /\ lock = "free" /\ state = "Configured"
  /\ starts < MaxStarts /\ starts' = starts + 1
  /\ IF PreviewBuffers = <<>>
     THEN /\ driver' = StartDriver(driver)
          /\ state' = "Streaming" /\ UNCHANGED <<lock, control>>
     ELSE /\ driver' = SetContinuous(StartDriver(driver), PreviewBuffers[1], TRUE)
          /\ control' = [control EXCEPT !.pc = "preview"]
          /\ lock' = "control" /\ UNCHANGED state
  /\ UNCHANGED <<tracker, nextFrame, tasks, asleep, dropped, armed, worker,
                 frameworkVars, deliveryVars, fills>>

\* Registers the preview buffers under fresh frame numbers, once all are queued.
TrackPreviews(tokens) ==
  LET n == Len(tokens) IN
  [tracker EXCEPT
     !.streaming = [f \in DOMAIN @ \cup {nextFrame + k - 1 : k \in 1..n} |->
                      IF f >= nextFrame THEN PreviewBuffers[f - nextFrame + 1]
                      ELSE @[f]],
     !.bound = [x \in DOMAIN @ \cup {tokens[k] : k \in 1..n} |->
                  IF x \in DOMAIN @ THEN @[x]
                  ELSE Context(nextFrame + (CHOOSE k \in 1..n : tokens[k] = x) - 1,
                               Preview)]]

\* start_continuous_stream queues one preview buffer after the other; any
\* failure leaves the session in Error, with what was queued still queued.
QueuePreview ==
  LET k == Len(control.tokens) + 1
      tokens == Append(control.tokens, driver.nextToken)
      queued ==
        /\ CanQueue(driver, PreviewBuffers[k])
        /\ driver' = Queue(driver, PreviewBuffers[k])
        /\ IF k < Len(PreviewBuffers)
           THEN /\ control' = [control EXCEPT !.tokens = tokens]
                /\ UNCHANGED <<state, tracker, lock, nextFrame>>
           ELSE /\ tracker' = TrackPreviews(tokens)
                /\ nextFrame' = nextFrame + k
                /\ state' = "Streaming" /\ lock' = "free"
                /\ control' = IdleControl
      failed(d) ==
        /\ driver' = SetContinuous(d, PreviewBuffers[1], FALSE)
        /\ nextFrame' = nextFrame + Len(PreviewBuffers)
        /\ state' = "Error" /\ lock' = "free" /\ control' = IdleControl
        /\ UNCHANGED tracker
  IN
  /\ control.pc = "preview"
  /\ \/ queued
     \/ \E d \in QueueFailures(driver, PreviewBuffers[k]) : failed(d)
  /\ UNCHANGED <<tasks, asleep, dropped, armed, worker, frameworkVars,
                 deliveryVars, boundVars>>

\* flush_all, and the results made of the rows it returns
Flushed ==
  {Result(f, BuffersOf(tracker.requests[f].outputs)) : f \in DOMAIN tracker.requests}

Flush ==
  /\ control.pc = "idle" /\ lock = "free"
  /\ state \in {"Streaming", "Configured"}
  /\ driver' = StopDriver(driver)
  /\ tracker' = ClearStreamingOutputs(FlushAll(tracker))
  /\ state' = "Configured"
  /\ control' = [control EXCEPT !.pc = "dispatch", !.results = Flushed]
  /\ UNCHANGED <<lock, nextFrame, tasks, asleep, dropped, armed, worker,
                 frameworkVars, deliveryVars, boundVars>>

Close ==
  /\ control.pc = "idle" /\ lock = "free" /\ state # "Stopped"
  /\ driver' = CloseDriver(driver)
  /\ tracker' = ClearStreamingOutputs(FlushAll(tracker))
  /\ state' = "Stopped"
  /\ control' = [control EXCEPT !.pc = "unregister", !.results = Flushed]
  /\ UNCHANGED <<lock, nextFrame, tasks, asleep, dropped, armed, worker,
                 frameworkVars, deliveryVars, boundVars>>

UnregisterFds == armed' = {}

UnregisterSession ==
  /\ control.pc = "unregister"
  /\ UnregisterFds
  /\ control' = [control EXCEPT !.pc = "dispatch"]
  /\ UNCHANGED <<sessionVars, tasks, asleep, dropped, worker, frameworkVars,
                 deliveryVars, boundVars>>

\* The flushed results are delivered after the mutex is released.
DispatchFlushed ==
  /\ control.pc = "dispatch"
  /\ Deliver(control.results)
  /\ control' = IdleControl
  /\ UNCHANGED <<sessionVars, tasks, asleep, dropped, armed, worker, frameworkVars,
                 boundVars>>

-----------------------------------------------------------------------------
\* The event loop: a one-shot event posts the readiness task of the fd.  When the
\* queue refuses it the event is dropped, and nothing re-arms the fd.

FdReady(e) == e \in armed /\ Readable(driver, e)

OnDriverFdReady(e) ==
  /\ FdReady(e)
  /\ armed' = armed \ {e}
  /\ \/ CanPost /\ tasks' = Append(tasks, Ready(e)) /\ UNCHANGED dropped
     \/ dropped' = dropped \cup {[fd |-> e, full |-> ~CanPost]} /\ UNCHANGED tasks
  /\ UNCHANGED <<sessionVars, asleep, control, worker, frameworkVars, deliveryVars,
                 boundVars>>

-----------------------------------------------------------------------------
\* The shard worker.

\* wait_pop: the notification came between the worker's look at the queue and its
\* sleep, and was lost; another one, or a spurious wakeup, ends the sleep.
Sleep ==
  /\ worker.pc = "idle" /\ tasks # <<>> /\ ~asleep /\ asleep' = TRUE
  /\ UNCHANGED <<sessionVars, tasks, dropped, armed, control, worker, frameworkVars,
                 deliveryVars, boundVars>>

Wake ==
  /\ asleep /\ asleep' = FALSE
  /\ UNCHANGED <<sessionVars, tasks, dropped, armed, control, worker, frameworkVars,
                 deliveryVars, boundVars>>

PopTask ==
  /\ worker.pc = "idle" /\ ~asleep /\ tasks # <<>>
  /\ tasks' = Tail(tasks)
  /\ worker' = [IdleWorker EXCEPT
                  !.pc = IF IsReady(Head(tasks)) THEN "ready" ELSE "submit",
                  !.request = Head(tasks)]
  /\ UNCHANGED <<sessionVars, asleep, dropped, armed, control, frameworkVars,
                 deliveryVars, boundVars>>

\* submit_capture_request: a session that left Streaming answers Flushed and
\* returns no buffers; an unacceptable or duplicate request fails the row under
\* its frame number; else the row is started and its outputs are queued.
SubmitCaptureRequest ==
  LET r == worker.request
      respond(result, t) ==
        /\ worker' = [worker EXCEPT !.pc = "dispatch", !.result = result]
        /\ tracker' = t /\ UNCHANGED lock
  IN
  /\ worker.pc = "submit" /\ lock = "free"
  /\ \/ state # "Streaming" /\ respond(Result(r.frame, {}), tracker)
     \/ /\ state = "Streaming"
        /\ \/ MayRefuse(driver, OutputsOf(r))
           \/ ~CanStart(tracker, r.frame, OutputsOf(r))
        /\ respond(FailedResult(tracker, r), FailedTracker(tracker, r.frame))
     \/ /\ state = "Streaming"
        /\ MaySubmit(driver, OutputsOf(r))
        /\ CanStart(tracker, r.frame, OutputsOf(r))
        /\ tracker' = Start(tracker, r.frame, OutputsOf(r))
        /\ lock' = "worker"
        /\ worker' = [worker EXCEPT !.pc = "queue"]
  /\ UNCHANGED <<state, driver, nextFrame, tasks, asleep, dropped, armed, control,
                 frameworkVars, deliveryVars, boundVars>>

\* submit_request_to_driver_locked, one output per step
QueueOutput ==
  LET r == worker.request
      buffer == OutputsOf(r)[worker.index]
      bound == BindDriverOutput(tracker, driver.nextToken,
                                Context(r.frame, worker.index))
      queued ==
        /\ CanQueue(driver, buffer)
        /\ driver' = Queue(driver, buffer)
        /\ IF worker.index < Len(OutputsOf(r))
           THEN /\ tracker' = bound
                /\ worker' = [worker EXCEPT !.index = @ + 1] /\ UNCHANGED lock
           ELSE /\ tracker' = MarkQueuedToDriver(bound, r.frame)
                /\ worker' = IdleWorker /\ lock' = "free"
      failed(d) ==
        /\ driver' = d
        /\ tracker' = FailedTracker(tracker, r.frame)
        /\ worker' = [worker EXCEPT !.pc = "dispatch",
                                    !.result = FailedResult(tracker, r)]
        /\ lock' = "free"
  IN
  /\ worker.pc = "queue"
  /\ \/ queued
     \/ \E d \in QueueFailures(driver, buffer) : failed(d)
  /\ UNCHANGED <<state, nextFrame, tasks, asleep, dropped, armed, control,
                 frameworkVars, deliveryVars, boundVars>>

\* the endpoint whose readiness the worker serves
ReadyEndpoint == worker.request.buffers[1]

\* on_driver_fd_ready, one turn of its loop
DequeueCompletion ==
  LET take == state = "Streaming" /\ CanDequeue(driver, ReadyEndpoint)
      token == DequeuedToken(driver, ReadyEndpoint)
  IN
  /\ worker.pc = "ready" /\ lock = "free"
  /\ driver' = IF take THEN Dequeue(driver, ReadyEndpoint) ELSE driver
  /\ worker' = IF take /\ token # 0
               THEN [worker EXCEPT !.pc = "complete", !.token = token]
               ELSE [worker EXCEPT !.pc = "rearm"]
  /\ UNCHANGED <<state, tracker, lock, nextFrame, tasks, asleep, dropped, armed,
                 control, frameworkVars, deliveryVars, boundVars>>

\* mutant: the preview buffer is queued again before the callback reads it
RequeueBeforeCallback ==
  LET c == tracker.bound[worker.token] IN
  /\ worker.pc = "complete" /\ lock = "free"
  /\ Resolves(tracker, worker.token) /\ c.index = Preview
  /\ driver' = Queue(driver, tracker.streaming[c.frame])
  /\ tracker' = TakeDriverOutputContext(tracker, worker.token)
  /\ worker' = [worker EXCEPT !.pc = "callback",
                              !.lease = tracker.streaming[c.frame]]
  /\ UNCHANGED <<state, lock, nextFrame, tasks, asleep, dropped, armed, control,
                 frameworkVars, deliveryVars, boundVars>>

\* the lease of a completed preview frame, for the callback
PreviewLease(frame) == tracker.streaming[frame]

\* on_driver_buffer_complete: the mutex was released in between, so the token
\* may have lost its row to a flush.
OnDriverBufferComplete ==
  LET c == tracker.bound[worker.token]
      taken == TakeDriverOutputContext(tracker, worker.token)
  IN
  /\ worker.pc = "complete" /\ lock = "free"
  /\ \/ /\ ~Resolves(tracker, worker.token)
        /\ tracker' = taken
        /\ worker' = [worker EXCEPT !.pc = "ready"]
     \/ /\ Resolves(tracker, worker.token) /\ c.index = Preview
        /\ tracker' = taken
        /\ worker' = [worker EXCEPT !.pc = "callback",
                                    !.lease = PreviewLease(c.frame)]
     \/ /\ Resolves(tracker, worker.token) /\ c.index # Preview
        /\ tracker' = CompleteOutput(taken, c.frame, c.index)
        /\ worker' =
             IF LastOutput(tracker, c.frame, c.index)
             THEN [worker EXCEPT !.pc = "dispatch",
                     !.result = Result(c.frame,
                                  BuffersOf(tracker.requests[c.frame].outputs))]
             ELSE [worker EXCEPT !.pc = "ready"]
  /\ UNCHANGED <<state, driver, lock, nextFrame, tasks, asleep, dropped, armed,
                 control, frameworkVars, deliveryVars, boundVars>>

\* stream_result_callback_ has read the preview buffer and returns its lease
StreamCallbackReturns ==
  /\ worker.pc = "callback"
  /\ worker' = [worker EXCEPT !.pc = "return"]
  /\ UNCHANGED <<sessionVars, tasks, asleep, dropped, armed, control,
                 frameworkVars, deliveryVars, boundVars>>

\* The lease goes back to the driver if the session is, or is again, Streaming.
ReturnStreamBuffer ==
  LET b == worker.lease
      requeue ==
        /\ CanReturn(driver, b)
        /\ driver' = Return(driver, b)
        /\ tracker' = BindDriverOutput(
                        RegisterStreamingOutput(tracker, nextFrame, b),
                        ReturnedToken(driver, b), Context(nextFrame, Preview))
        /\ nextFrame' = nextFrame + 1
      drop(d) == driver' = d /\ UNCHANGED <<tracker, nextFrame>>
  IN
  /\ worker.pc = "return" /\ lock = "free"
  /\ worker' = [worker EXCEPT !.pc = "ready", !.lease = NoBuffer]
  /\ \/ state # "Streaming" /\ drop(driver)
     \/ state = "Streaming" /\ requeue
     \/ /\ state = "Streaming"
        /\ \E d \in ReturnFailures(driver, b) : drop(d)
  /\ UNCHANGED <<state, lock, tasks, asleep, dropped, armed, control,
                 frameworkVars, deliveryVars, boundVars>>

\* result_callback_, and back to the readiness loop or to the queue
DispatchResult ==
  /\ worker.pc = "dispatch"
  /\ Deliver({worker.result})
  /\ worker' = IF IsReady(worker.request)
               THEN [worker EXCEPT !.pc = "ready", !.result = None]
               ELSE IdleWorker
  /\ UNCHANGED <<sessionVars, tasks, asleep, dropped, armed, control,
                 frameworkVars, boundVars>>

\* mutant: the fd stays disarmed after its first event
NeverRearm ==
  /\ worker.pc = "rearm"
  /\ worker' = IdleWorker
  /\ UNCHANGED <<sessionVars, tasks, asleep, dropped, armed, control,
                 frameworkVars, deliveryVars, boundVars>>

\* The readiness task re-arms the fd, unless it has been unregistered.
RearmFd ==
  /\ worker.pc = "rearm"
  /\ armed' = IF IsOpen(driver, ReadyEndpoint) THEN armed \cup {ReadyEndpoint} ELSE armed
  /\ worker' = IdleWorker
  /\ UNCHANGED <<sessionVars, tasks, asleep, dropped, control, frameworkVars,
                 deliveryVars, boundVars>>

-----------------------------------------------------------------------------
\* The camera fills a queued buffer (external); the number of preview frames
\* is bounded, that of capture frames is not.
DeviceFills(e, i) ==
  /\ e \in EventFds(driver) /\ CanFill(driver, e, i)
  /\ driver' = Fill(driver, e, i)
  /\ IF driver.node[e].kernel[i] \in Previews
     THEN fills < MaxPreviews /\ fills' = fills + 1
     ELSE UNCHANGED fills
  /\ UNCHANGED <<state, tracker, lock, nextFrame, tasks, asleep, dropped, armed,
                 control, worker, frameworkVars, deliveryVars, starts>>

WorkerStep ==
  \/ PopTask \/ SubmitCaptureRequest \/ QueueOutput \/ DequeueCompletion
  \/ OnDriverBufferComplete \/ StreamCallbackReturns \/ ReturnStreamBuffer
  \/ DispatchResult \/ RearmFd

ControlStep == QueuePreview \/ UnregisterSession \/ DispatchFlushed

Next ==
  \/ \E r \in Requests : ProcessCaptureRequest(r)
  \/ PostRequest
  \/ ConfigureStreams \/ StartStreaming \/ Flush \/ Close \/ ControlStep
  \/ Sleep \/ Wake \/ WorkerStep
  \/ \E e \in Endpoints : OnDriverFdReady(e) \/ \E i \in Index : DeviceFills(e, i)

Spec == Init /\ [][Next]_vars

\* Threads that can run are run, the event loop included, and a camera that is
\* streaming keeps filling the buffers it owns.  Nothing makes the worker sleep or
\* wakes it; if it is awake again and again it gets to its task (BoundedTaskQueue,
\* AwakeWorkerRuns).
Fairness ==
  /\ WF_vars(PostRequest) /\ WF_vars(ControlStep)
  /\ WF_vars(WorkerStep) /\ SF_vars(PopTask)
  /\ \A e \in Endpoints :
       /\ WF_vars(OnDriverFdReady(e))
       /\ \A i \in Index : WF_vars(DeviceFills(e, i))

FairSpec == Spec /\ Fairness

-----------------------------------------------------------------------------
TypeOK ==
  /\ state \in {"Created", "Configured", "Streaming", "Stopped", "Error"}
  /\ DOMAIN tracker.requests \subseteq Frames
  /\ DOMAIN tracker.bound \subseteq 1..(driver.nextToken - 1)
  /\ DOMAIN tracker.streaming \subseteq StreamBase..(nextFrame - 1)
  /\ ~IsMock(driver) => \A e \in EventFds(driver) :
       /\ driver.node[e].slot \in [Index -> 0..(driver.nextToken - 1)]
       /\ driver.node[e].kernel \in [Index -> Buffers \cup Previews \cup {NoBuffer}]
  /\ lock \in {"free", "worker", "control"}
  /\ tasks \in Seq(Requests \cup {Ready(e) : e \in Endpoints}) /\ Len(tasks) <= QueueCapacity
  /\ asleep \in BOOLEAN /\ dropped \subseteq [fd : Endpoints, full : BOOLEAN]
  /\ armed \subseteq EventFds(driver)
  /\ sub \in Requests \cup {None}
  /\ control.pc \in {"idle", "preview", "unregister", "dispatch"}
  /\ worker.pc \in {"idle", "submit", "queue", "ready", "complete", "callback",
                    "return", "dispatch", "rearm"}
  /\ unsent \subseteq Requests /\ accepted \subseteq Requests
  /\ results \in [Frames -> Nat] /\ held \subseteq Buffers
  /\ starts \in 0..MaxStarts /\ fills \in 0..MaxPreviews

\* A token bound in the tracker always finds the row it was issued for, with
\* that output still open: no flush, failure or completion leaves a binding
\* that would be taken for another request's output.
BindingsResolve ==
  \A x \in DOMAIN tracker.bound :
    /\ Resolves(tracker, x)
    /\ LET c == tracker.bound[x] IN
         c.index # Preview => c.index \notin tracker.requests[c.frame].completed

\* The driver still owes the completion of token x, on buffer b.
Owed(x, b) ==
  \/ Owes(driver, x, b)
  \/ worker.pc = "complete" /\ worker.token = x

\* An in-flight row waits for something that is coming: every open output of a
\* request handed to the driver, and every preview row, has a token, and the
\* driver holds the row's own buffer under that token, or the worker has just
\* dequeued it.  (The mock never completes a preview buffer that was returned.)
RowsBacked ==
  /\ \A f \in DOMAIN tracker.requests :
       LET row == tracker.requests[f] IN
       row.state = "QueuedToDriver" =>
         \A k \in DOMAIN row.outputs \ row.completed :
           \E x \in DOMAIN tracker.bound :
             tracker.bound[x] = Context(f, k) /\ Owed(x, row.outputs[k])
  /\ ~IsMock(driver) => \A f \in DOMAIN tracker.streaming :
       \E x \in DOMAIN tracker.bound :
         /\ tracker.bound[x] = Context(f, Preview)
         /\ Owed(x, tracker.streaming[f])

\* The places where an accepted request can be: waiting in the shard queue,
\* about to be submitted, in flight, in a result that is being delivered, or
\* answered.
Places(f) ==
  Cardinality({k \in DOMAIN tasks : tasks[k].frame = f})
  + Cardinality({x \in {worker} : x.pc = "submit" /\ x.request.frame = f})
  + Cardinality({f} \cap DOMAIN tracker.requests)
  + Cardinality({x \in control.results \cup {worker.result} : x.frame = f})
  + results[f]

\* A request is never lost and never answered twice: whatever the order of
\* flush, close, completion and submission, it is in exactly one place.
RequestConserved ==
  \A f \in Frames :
    Places(f) = Cardinality({r \in accepted : r.frame = f})

\* README, DMA Buffer Ownership: a buffer handed back to the framework is not
\* in the hands of the driver, which may write to it after QBUF.
NoReturnWhileQueued == held \cap Held(driver) = {}

\* README: the driver does not refill a preview buffer while the application's
\* callback reads it.
PreviewExclusive == worker.pc = "callback" => worker.lease \notin Held(driver)

Unanswered(r) == r \in accepted /\ results[r.frame] = 0

\* interface/camera_device.h: the result of a request that was accepted is
\* delivered later through ResultCallback; but for what the queue alone may do, a
\* worker that sleeps for ever and a refusal when there is room.
AcceptedAnswered ==
  \A r \in Requests :
    \/ []<>(Unanswered(r) => \E x \in dropped : ~x.full)
    \/ <>[]asleep

\* The readiness of an endpoint that request r needs was refused by the queue.
Unheard(r) ==
  \E x \in dropped : \E b \in Range(OutputsOf(r)) : driver.route[b] = x.fd

\* Every accepted request is answered, by its completion, by its failure, by a flush
\* or by close, whatever the driver refuses and whenever the session leaves
\* Streaming; only a readiness event that the queue refused, on an endpoint of that
\* request, and a worker that sleeps for ever are excused.
AnsweredUnlessDropped ==
  \A r \in Requests : []<>(Unanswered(r) => Unheard(r)) \/ <>[]asleep
=============================================================================
