------------------------ MODULE BufferOwnership_proofs -----------------------
(***************************************************************************)
(* Who owns a dma-buf.  A buffer the device may write to is an open output *)
(* of a request in flight, so no buffer the framework holds is in the      *)
(* hands of the driver; and, in a session that is started once, a preview  *)
(* buffer the application reads is not.  The hypotheses on requests and    *)
(* backends leave out the cases in which the code does give a queued       *)
(* buffer back: see the runs that expect a violation.                      *)
(***************************************************************************)
EXTENDS RequestConservation_proofs

\* A request whose second output cannot be queued fails with its first one
\* still queued: at most one output each.
SingleOutput == \A r \in Requests : Len(r.buffers) <= 1

\* A first STREAMON that fails leaves its buffer queued: it can only fail for
\* the preview, which starts the node of every still.
StreamOnGuarded ==
  \A c \in Backends : "streamon" \in c.faults =>
    PreviewBuffers # <<>> /\ \A b \in Buffers : c.route[b] = c.route[PreviewBuffers[1]]

-----------------------------------------------------------------------------
\* A request of A with frame number f owns the buffers of set S.
Owner(A, f, S) == \E r \in A : r.frame = f /\ S \subseteq BuffersOf(r.buffers)

\* What is queued, submitted, in flight or on its way back was accepted; the
\* buffers of unanswered requests are the framework's no more and each is one
\* request's; those of the request being posted are still the framework's.
OwnInv ==
  /\ \A k \in DOMAIN tasks : tasks[k] \in Requests => tasks[k] \in accepted
  /\ worker.pc \in {"submit", "queue"} => worker.request \in accepted
  /\ \A f \in DOMAIN tracker.requests : Owner(accepted, f, BuffersOf(tracker.requests[f].outputs))
  /\ \A x \in control.results : Owner(accepted, x.frame, x.buffers)
  /\ worker.result # None => Owner(accepted, worker.result.frame, worker.result.buffers)
  /\ \A r \in Requests : Unanswered(r) => BuffersOf(r.buffers) \cap held = {}
  /\ \A r, s \in Requests : Unanswered(r) /\ Unanswered(s) /\ r # s =>
       BuffersOf(r.buffers) \cap BuffersOf(s.buffers) = {}
  /\ sub # None => BuffersOf(sub.buffers) \subseteq held

\* A token is in one slot at most, and in none once it is dequeued.
SlotInv ==
  ~IsMock(driver) =>
  /\ \A e, a \in EventFds(driver) : \A i, j \in Index :
       Slot(driver, e, i) = Slot(driver, a, j) /\ Slot(driver, e, i) # 0 => e = a /\ i = j
  /\ worker.pc = "complete" =>
       /\ worker.token < driver.nextToken
       /\ \A e \in EventFds(driver) : \A i \in Index : Slot(driver, e, i) # worker.token

\* Entry i at endpoint e, on a started device, is the output its token is bound to.
Backs(d, t, e, i) ==
  LET x == Slot(d, e, i)
      c == t.bound[x] IN
  /\ Device(d, e) /\ x \in DOMAIN t.bound
  /\ c.index # Preview /\ t.requests[c.frame].outputs[c.index] = Kernel(d, e, i)

\* Every still buffer the kernel has is an open output of a request in flight.
KernelInv ==
  ~IsMock(driver) => \A e \in EventFds(driver) : \A i \in Index :
    Kernel(driver, e, i) \in Buffers => Backs(driver, tracker, e, i)

\* Outputs are queued while the session streams, and the node of the preview is
\* started once a preview buffer is queued.
DeviceInv ==
  /\ worker.pc = "queue" => state = "Streaming"
  /\ (~IsMock(driver) /\ PreviewBuffers # <<>>
        /\ (state = "Streaming" \/ control.tokens # <<>>))
     => Device(driver, driver.route[PreviewBuffers[1]])

OwnershipInv == OwnInv /\ SlotInv /\ KernelInv /\ DeviceInv

-----------------------------------------------------------------------------
\* A request with a row, or with a result on its way, is not answered yet.
LEMMA NotYetAnswered ==
  ASSUME IInv, TallyInv, NEW f \in Frames,
         \/ f \in DOMAIN tracker.requests
         \/ \E x \in control.results : x.frame = f
         \/ worker.result.frame = f
  PROVE  results[f] = 0
<1>1. InFlight(f) = 1 \/ Flushing(f) = 1 \/ Dispatching(f) = 1
  BY DEF InFlight, Flushing, Dispatching
<1> QED BY <1>1, TallyBounds

\* A buffer of a row is a buffer of an unanswered request.
LEMMA RowOwned ==
  ASSUME IInv, TallyInv, OwnInv, NEW f \in DOMAIN tracker.requests
  PROVE  \E r \in Requests : /\ Unanswered(r) /\ r.frame = f
                             /\ BuffersOf(tracker.requests[f].outputs) \subseteq BuffersOf(r.buffers)
<1>1. PICK r \in accepted : /\ r.frame = f
                            /\ BuffersOf(tracker.requests[f].outputs) \subseteq BuffersOf(r.buffers)
  BY DEF OwnInv, Owner
<1>2. r \in Requests /\ f \in Frames
  BY DEF IInv, Shape, TrackerOK
<1>3. results[f] = 0
  BY <1>2, NotYetAnswered
<1> QED BY <1>1, <1>2, <1>3 DEF Unanswered

\* The invariant gives the property: what the kernel has is not the framework's.
LEMMA NotHeld ==
  ASSUME IInv, TallyInv, OwnInv, KernelInv
  PROVE  NoReturnWhileQueued
<1> SUFFICES ASSUME NEW b, b \in held, b \in Held(driver) PROVE FALSE
  BY DEF NoReturnWhileQueued
<1>1. b \in Buffers
  BY DEF IInv, Shape
<1>2. ~IsMock(driver) /\ b # NoBuffer
  BY HeldIsKernel
<1>3. PICK e \in EventFds(driver) : \E i \in Index : Kernel(driver, e, i) = b
  BY HeldIsKernel
<1>4. PICK i \in Index : Kernel(driver, e, i) = b
  BY <1>3
<1> DEFINE x == Slot(driver, e, i)
           c == tracker.bound[x]
           o == tracker.requests[c.frame].outputs
<1>5. x \in DOMAIN tracker.bound /\ c.index # Preview /\ o[c.index] = b
  BY <1>1, <1>2, <1>4 DEF KernelInv, Backs
<1>6. c.frame \in DOMAIN tracker.requests /\ c.index \in DOMAIN o
  BY <1>5, BoundFrame
<1>7. b \in BuffersOf(o)
  BY <1>2, <1>5, <1>6 DEF BuffersOf
<1>8. PICK r \in Requests : Unanswered(r) /\ BuffersOf(o) \subseteq BuffersOf(r.buffers)
  BY <1>6, RowOwned
<1> QED BY <1>7, <1>8 DEF OwnInv

\* A new session: the framework has every buffer and the device none.
LEMMA OwnershipInit == ASSUME Init PROVE OwnershipInv
<1>1. /\ DOMAIN tasks = {} /\ worker = IdleWorker /\ control = IdleControl /\ accepted = {}
      /\ sub = None /\ tracker = EmptyTracker /\ state = "Created"
  BY DEF Init
<1>2. /\ worker.pc = "idle" /\ worker.result = None /\ control.results = {}
      /\ control.tokens = <<>> /\ DOMAIN tracker.requests = {}
  BY <1>1 DEF IdleWorker, IdleControl, EmptyTracker
<1>3. OwnInv
  BY <1>1, <1>2 DEF OwnInv, Unanswered
<1>4. PICK c \in Backends : driver = ClosedDriver(c)
  BY DEF Init
<1>5. NoBuffer \in DriverBuffers /\ DOMAIN c.route = DriverBuffers
  BY SessionAssumption DEF DriverBuffers
<1>6. ~IsMock(driver) => \A e \in EventFds(driver) : \A i \in Index :
        Slot(driver, e, i) = 0 /\ Kernel(driver, e, i) = NoBuffer
  BY <1>4, <1>5, ClosedDriverOK
<1>7. NoBuffer \notin Buffers
  BY SessionAssumption
<1>8. SlotInv /\ KernelInv
  BY <1>2, <1>6, <1>7 DEF SlotInv, KernelInv
<1>9. DeviceInv
  BY <1>1, <1>2 DEF DeviceInv
<1> QED BY <1>3, <1>8, <1>9 DEF OwnershipInv

-----------------------------------------------------------------------------
\* Steps that move no buffer: nothing of what OwnInv speaks of has changed, or
\* the part that has changed satisfies it.
LEMMA OwnKept ==
  ASSUME OwnInv, UNCHANGED <<accepted, results, held, sub>>,
         tasks' = tasks, control'.results = control.results, worker'.result = worker.result,
         worker' = worker \/ worker'.pc \notin {"submit", "queue"},
         DOMAIN tracker'.requests \subseteq DOMAIN tracker.requests,
         \A f \in DOMAIN tracker'.requests :
           tracker'.requests[f].outputs = tracker.requests[f].outputs
  PROVE  OwnInv'
<1>1. \A r : Unanswered(r)' <=> Unanswered(r)
  BY DEF Unanswered
<1>2. \A f \in DOMAIN tracker'.requests :
        Owner(accepted', f, BuffersOf(tracker'.requests[f].outputs))
  BY DEF OwnInv
<1> QED BY <1>1, <1>2 DEF OwnInv

\* A binding of a request output is still there after the step, its row too.
KeepsOutput(t, u, x) ==
  LET c == t.bound[x] IN
  /\ x \in DOMAIN u.bound /\ u.bound[x] = c
  /\ u.requests[c.frame].outputs = t.requests[c.frame].outputs

\* The entries that still hold a buffer of a request after the step held it
\* before, and their bindings are kept, but for the one the worker completes.
LEMMA KernelKept ==
  ASSUME SlotInv, KernelInv, SameConfig(driver, driver'),
         ~IsMock(driver) => \A e \in EventFds(driver) : \A i \in Index :
           Kernel(driver', e, i) \in Buffers =>
             /\ Slot(driver', e, i) = Slot(driver, e, i)
             /\ Kernel(driver', e, i) = Kernel(driver, e, i)
             /\ Device(driver, e) => Device(driver', e),
         \A x \in DOMAIN tracker.bound :
           tracker.bound[x].index # Preview /\ ~(worker.pc = "complete" /\ worker.token = x)
             => KeepsOutput(tracker, tracker', x)
  PROVE  KernelInv'
<1> SUFFICES ASSUME ~IsMock(driver'), NEW e \in EventFds(driver'), NEW i \in Index,
                    Kernel(driver', e, i) \in Buffers
             PROVE  Backs(driver', tracker', e, i)
  BY DEF KernelInv
<1>1. ~IsMock(driver) /\ e \in EventFds(driver)
  BY DEF SameConfig, EventFds
<1>2. /\ Slot(driver', e, i) = Slot(driver, e, i)
      /\ Kernel(driver', e, i) = Kernel(driver, e, i)
      /\ Device(driver, e) => Device(driver', e)
  BY <1>1
<1> DEFINE x == Slot(driver, e, i)
<1>3. Backs(driver, tracker, e, i)
  BY <1>1, <1>2 DEF KernelInv
<1>4. ~(worker.pc = "complete" /\ worker.token = x)
  BY <1>1 DEF SlotInv
<1>5. KeepsOutput(tracker, tracker', x)
  BY <1>3, <1>4 DEF Backs
<1> QED BY <1>2, <1>3, <1>5 DEF Backs, KeepsOutput

\* Slots are only freed.
LEMMA SlotKept ==
  ASSUME IInv, SlotInv, SameConfig(driver, driver'),
         driver'.nextToken \in Nat, driver.nextToken <= driver'.nextToken,
         ~IsMock(driver) => \A e \in EventFds(driver) : \A i \in Index :
           Slot(driver', e, i) \in {0, Slot(driver, e, i)},
         worker' = worker \/ worker'.pc # "complete"
  PROVE  SlotInv'
<1>1. (IsMock(driver') <=> IsMock(driver)) /\ EventFds(driver') = EventFds(driver)
  BY DEF SameConfig, EventFds
<1>2. CASE IsMock(driver)
  BY <1>1, <1>2 DEF SlotInv
<1>3. CASE ~IsMock(driver)
  <2>1. \A e, a \in EventFds(driver') : \A i, j \in Index :
          Slot(driver', e, i) = Slot(driver', a, j) /\ Slot(driver', e, i) # 0 => e = a /\ i = j
    BY <1>1, <1>3 DEF SlotInv
  <2>2. ASSUME worker'.pc = "complete"
        PROVE  /\ worker'.token < driver'.nextToken
               /\ \A e \in EventFds(driver') : \A i \in Index :
                    Slot(driver', e, i) # worker'.token
    <3>1. worker' = worker /\ worker.token \in Nat \ {0} /\ driver.nextToken \in Nat
      BY <2>2 DEF IInv, ThreadInv, Shape, WorkerOK, DriverOK, V4L2OK, MockOK
    <3> QED BY <1>1, <1>3, <2>2, <3>1 DEF SlotInv
  <2> QED BY <2>1, <2>2 DEF SlotInv
<1> QED BY <1>2, <1>3

\* A slot takes a token that was not drawn before.
LEMMA SlotLoaded ==
  ASSUME IInv, SlotInv, NEW b \in DriverBuffers, Loads(driver, driver', b, DriverBuffers),
         worker' = worker \/ worker'.pc # "complete"
  PROVE  SlotInv'
<1>1. (IsMock(driver') <=> IsMock(driver)) /\ EventFds(driver') = EventFds(driver)
  BY DEF Loads, SameConfig, EventFds
<1>2. CASE IsMock(driver)
  BY <1>1, <1>2 DEF SlotInv
<1>3. CASE ~IsMock(driver)
  <2> DEFINE n == driver.nextToken
  <2>1. PICK k \in Index : SetsEntry(driver, driver', driver.route[b], k, n, b)
    BY <1>3 DEF Loads
  <2>2. /\ driver.route[b] \in EventFds(driver) /\ n \in Nat \ {0} /\ driver'.nextToken = n + 1
        /\ \A e \in EventFds(driver) : \A i \in Index :
             Slot(driver, e, i) \in Nat /\ Slot(driver, e, i) < n
    BY <1>3, NodeOf DEF IInv, Shape, Loads, Slot, NodeSet
  <2>3. \A e \in EventFds(driver) : \A i \in Index :
          Slot(driver', e, i) = IF e = driver.route[b] /\ i = k THEN n ELSE Slot(driver, e, i)
    BY <2>1 DEF SetsEntry
  <2> HIDE DEF n
  <2>4. \A e, a \in EventFds(driver') : \A i, j \in Index :
          Slot(driver', e, i) = Slot(driver', a, j) /\ Slot(driver', e, i) # 0 => e = a /\ i = j
    BY <1>1, <1>3, <2>2, <2>3 DEF SlotInv
  <2>5. ASSUME worker'.pc = "complete"
        PROVE  /\ worker'.token < driver'.nextToken
               /\ \A e \in EventFds(driver') : \A i \in Index :
                    Slot(driver', e, i) # worker'.token
    <3>1. worker' = worker /\ worker.token \in Nat \ {0}
      BY <2>5 DEF IInv, ThreadInv, Shape, WorkerOK
    <3>2. worker.token < n
      BY <1>3, <2>5, <3>1 DEF SlotInv, n
    <3> QED BY <1>1, <1>3, <2>2, <2>3, <2>5, <3>1, <3>2 DEF SlotInv
  <2> QED BY <2>4, <2>5 DEF SlotInv
<1> QED BY <1>2, <1>3

\* A step after which every entry and every device is as it was.
LEMMA EntriesKept ==
  ASSUME IInv, OwnershipInv, SameConfig(driver, driver'), driver'.nextToken = driver.nextToken,
         ~IsMock(driver) => /\ SameEntries(driver, driver')
                            /\ \A e \in EventFds(driver) : Device(driver', e) = Device(driver, e),
         tracker' = tracker,
         worker' = worker \/ worker'.pc # "complete"
  PROVE  SlotInv' /\ KernelInv'
<1>1. driver.nextToken \in Nat
  BY DEF IInv, Shape, DriverOK, MockOK, V4L2OK
<1>2. SlotInv'
  BY <1>1, SlotKept DEF OwnershipInv, SameEntries
<1>3. \A x \in DOMAIN tracker.bound : KeepsOutput(tracker, tracker', x)
  BY DEF KeepsOutput
<1>4. KernelInv'
  BY <1>3, KernelKept DEF OwnershipInv, SameEntries
<1> QED BY <1>2, <1>4

\* A step that does not touch the driver.
LEMMA DriverSame ==
  ASSUME IInv, OwnershipInv, UNCHANGED <<tracker, driver>>,
         worker' = worker \/ worker'.pc # "complete"
  PROVE  SlotInv' /\ KernelInv'
<1>1. SameConfig(driver, driver') /\ driver'.nextToken = driver.nextToken
      /\ SameEntries(driver, driver') /\ \A e : Device(driver', e) = Device(driver, e)
  BY DEF SameConfig, SameEntries, IsMock
<1> QED BY <1>1, EntriesKept

\* No device is stopped, and the session does not start to stream.
LEMMA DeviceKept ==
  ASSUME DeviceInv, SameConfig(driver, driver'), IInv,
         ~IsMock(driver) => \A e \in EventFds(driver) : Device(driver, e) => Device(driver', e),
         state' = state \/ (state' # "Streaming" /\ worker'.pc # "queue"),
         control'.tokens = <<>> \/ control'.tokens = control.tokens,
         worker'.pc = "queue" => worker.pc = "queue"
  PROVE  DeviceInv'
<1>1. (IsMock(driver') <=> IsMock(driver)) /\ driver'.route = driver.route
      /\ (PreviewBuffers # <<>> => driver.route[PreviewBuffers[1]] \in EventFds(driver))
  BY ConfigKept DEF SameConfig, IInv
<1> QED BY <1>1 DEF DeviceInv

\* Only threads outside the mutex have moved.
LEMMA ThreadMoves ==
  ASSUME IInv, OwnershipInv, UNCHANGED <<state, tracker, driver>>,
         worker' = worker \/ worker'.pc \notin {"complete", "queue"},
         control'.tokens = control.tokens,
         OwnInv'
  PROVE  OwnershipInv'
<1>1. SlotInv' /\ KernelInv'
  BY DriverSame
<1>2. SameConfig(driver, driver')
  BY DEF SameConfig, IsMock
<1>3. DeviceInv'
  BY <1>2, DeviceKept DEF OwnershipInv
<1> QED BY <1>1, <1>3 DEF OwnershipInv

-----------------------------------------------------------------------------
\* The request that has passed the check brings buffers of the framework.
LEMMA OwnProcess ==
  ASSUME IInv, OwnershipInv, NEW r \in Requests, ProcessCaptureRequest(r)
  PROVE  OwnershipInv'
<1>1. /\ UNCHANGED <<state, tracker, driver, tasks, control, worker, accepted, results, held>>
      /\ BuffersOf(r.buffers) \subseteq held /\ sub' \in {r, None}
  BY DEF ProcessCaptureRequest, sessionVars, deliveryVars
<1>2. \A q : Unanswered(q)' <=> Unanswered(q)
  BY <1>1 DEF Unanswered
<1>3. OwnInv'
  BY <1>1, <1>2 DEF OwnInv, OwnershipInv
<1> QED BY <1>1, <1>3, ThreadMoves

\* The buffers of an accepted request leave the framework, which had them all.
LEMMA OwnPost ==
  ASSUME DistinctFrames, IInv, TallyInv, TallyInv', OwnershipInv, PostRequest
  PROVE  OwnershipInv'
<1>1. /\ UNCHANGED <<state, tracker, driver, control, worker, results>>
      /\ sub # None /\ sub' = None
  BY DEF PostRequest, sessionVars
<1>2. sub \in Requests /\ BuffersOf(sub.buffers) \subseteq held
  BY <1>1 DEF IInv, Shape, OwnershipInv, OwnInv
<1>3. CASE UNCHANGED <<tasks, accepted, held>>
  <2>1. \A q : Unanswered(q)' <=> Unanswered(q)
    BY <1>1, <1>3 DEF Unanswered
  <2>2. OwnInv'
    BY <1>1, <1>3, <2>1 DEF OwnInv, OwnershipInv
  <2> QED BY <1>1, <2>2, ThreadMoves
<1>4. CASE /\ tasks' = Append(tasks, sub) /\ accepted' = accepted \cup {sub}
           /\ held' = held \ BuffersOf(sub.buffers)
  <2>1. /\ tasks' = Append(tasks, sub) /\ accepted' = accepted \cup {sub}
        /\ held' = held \ BuffersOf(sub.buffers)
    BY <1>4
  <2>2. \A f, S : Owner(accepted, f, S) => Owner(accepted', f, S)
    BY <2>1 DEF Owner
  <2>3. \A q : Unanswered(q)' => q = sub \/ Unanswered(q)
    BY <1>1, <2>1 DEF Unanswered
  <2>4. \A k \in DOMAIN tasks' : tasks'[k] \in Requests => tasks'[k] \in accepted'
    <3>1. tasks \in Seq(Requests \cup ReadySet(driver))
      BY DEF IInv, Shape
    <3>2. \A k \in DOMAIN tasks' : tasks'[k] = sub \/ (k \in DOMAIN tasks /\ tasks'[k] = tasks[k])
      BY <1>2, <2>1, <3>1
    <3> QED BY <2>1, <3>2 DEF OwnershipInv, OwnInv
  <2>5. \A q \in Requests : Unanswered(q)' => BuffersOf(q.buffers) \cap held' = {}
    BY <2>1, <2>3 DEF OwnershipInv, OwnInv
  <2>6. \A q, s \in Requests : Unanswered(q)' /\ Unanswered(s)' /\ q # s =>
          BuffersOf(q.buffers) \cap BuffersOf(s.buffers) = {}
    BY <1>2, <2>3 DEF OwnershipInv, OwnInv
  <2>7. OwnInv'
    BY <1>1, <2>1, <2>2, <2>4, <2>5, <2>6 DEF OwnershipInv, OwnInv
  <2> QED BY <1>1, <2>7, ThreadMoves
<1> QED BY <1>3, <1>4 DEF PostRequest

\* A delivery gives back buffers of the requests it answers, and of no others.
LEMMA OwnDeliver ==
  ASSUME DistinctFrames, IInv, TallyInv, OwnershipInv,
         NEW rs \in SUBSET (ResultSet \cup {None}), IsFiniteSet(rs), Deliver(rs),
         \A x, y \in rs : x.frame = y.frame => x = y,
         \A x \in rs : /\ x.frame \in Frames /\ Owner(accepted, x.frame, x.buffers)
                       /\ results[x.frame] = 0,
         accepted' = accepted
  PROVE  /\ \A r \in Requests : Unanswered(r)' =>
              Unanswered(r) /\ BuffersOf(r.buffers) \cap held' = {}
         /\ held \subseteq held'
<1>1. \A f \in Frames :
        results'[f] = results[f] + (IF \E x \in rs : x.frame = f THEN 1 ELSE 0)
  BY DeliverOne DEF IInv, Shape
<1>2. held' = held \cup UNION {x.buffers : x \in rs}
  BY DEF Deliver
<1>3. ASSUME NEW r \in Requests, Unanswered(r)'
      PROVE  Unanswered(r) /\ BuffersOf(r.buffers) \cap held' = {}
  <2>1. r \in accepted /\ results'[r.frame] = 0 /\ r.frame \in Frames
    BY <1>3, RequestOK DEF Unanswered
  <2>2. results[r.frame] \in Nat
    BY <2>1 DEF IInv, Shape
  <2>3. results[r.frame] = 0 /\ ~ \E x \in rs : x.frame = r.frame
    BY <1>1, <2>1, <2>2
  <2>4. Unanswered(r)
    BY <2>1, <2>3 DEF Unanswered
  <2>5. ASSUME NEW x \in rs PROVE BuffersOf(r.buffers) \cap x.buffers = {}
    <3>1. PICK s \in accepted : s.frame = x.frame /\ x.buffers \subseteq BuffersOf(s.buffers)
      BY DEF Owner
    <3>2. s \in Requests /\ s # r /\ Unanswered(s)
      BY <2>3, <3>1 DEF IInv, Shape, Unanswered
    <3>3. BuffersOf(r.buffers) \cap BuffersOf(s.buffers) = {}
      BY <2>4, <3>2 DEF OwnershipInv, OwnInv
    <3> QED BY <3>1, <3>3
  <2>6. BuffersOf(r.buffers) \cap held = {}
    BY <2>4 DEF OwnershipInv, OwnInv
  <2> QED BY <1>2, <2>4, <2>5, <2>6
<1> QED BY <1>2, <1>3

\* The callback for one result.
LEMMA OwnDispatch ==
  ASSUME DistinctFrames, IInv, TallyInv, OwnershipInv, DispatchResult
  PROVE  OwnershipInv'
<1> DEFINE x == worker.result
<1>1. /\ worker.pc = "dispatch" /\ Deliver({x})
      /\ UNCHANGED <<state, tracker, driver, tasks, control, accepted, sub>>
      /\ worker' = IF IsReady(worker.request)
                   THEN [worker EXCEPT !.pc = "ready", !.result = None] ELSE IdleWorker
  BY DEF DispatchResult, sessionVars, frameworkVars
<1>2. x \in ResultSet /\ WorkerOK(worker, driver)
  BY <1>1 DEF IInv, ThreadInv, Shape
<1>3. x # None /\ x.frame \in Frames
  BY <1>2, FramesOK DEF ResultSet, None
<1>4. worker'.pc \in {"ready", "idle"} /\ worker'.result = None
  BY <1>1, <1>2, IdleWorkerOK DEF WorkerOK
<1>5. results[x.frame] = 0 /\ Owner(accepted, x.frame, x.buffers)
  BY <1>3, NotYetAnswered DEF OwnershipInv, OwnInv
<1>6. {x} \in SUBSET (ResultSet \cup {None}) /\ IsFiniteSet({x})
  BY <1>2, FS_Singleton
<1> HIDE DEF x
<1>7. /\ \A r \in Requests : Unanswered(r)' =>
           Unanswered(r) /\ BuffersOf(r.buffers) \cap held' = {}
      /\ held \subseteq held'
  BY <1>1, <1>3, <1>5, <1>6, OwnDeliver
<1>8. OwnInv'
  BY <1>1, <1>4, <1>7 DEF OwnershipInv, OwnInv
<1> QED BY <1>1, <1>4, <1>8, ThreadMoves

\* The callbacks for the results of a flush.
LEMMA OwnDispatchFlushed ==
  ASSUME DistinctFrames, IInv, TallyInv, OwnershipInv, DispatchFlushed
  PROVE  OwnershipInv'
<1>1. /\ control.pc = "dispatch" /\ Deliver(control.results) /\ control' = IdleControl
      /\ UNCHANGED <<state, tracker, driver, tasks, worker, accepted, sub>>
  BY DEF DispatchFlushed, sessionVars, frameworkVars
<1>2. ControlOK(control) /\ control.tokens = <<>>
  BY <1>1 DEF IInv, ThreadInv, Shape
<1>3. control.results \in SUBSET (ResultSet \cup {None}) /\ IsFiniteSet(control.results)
      /\ \A x \in control.results : x.frame \in Frames
  BY <1>2 DEF ControlOK, ResultSet
<1>4. \A x \in control.results :
        results[x.frame] = 0 /\ Owner(accepted, x.frame, x.buffers)
  BY <1>3, NotYetAnswered DEF OwnershipInv, OwnInv
<1>5. control'.results = {} /\ control'.tokens = control.tokens
  BY <1>1, <1>2, IdleControlOK
<1>6. \A x, y \in control.results : x.frame = y.frame => x = y
  BY DEF TallyInv
<1>7. /\ \A r \in Requests : Unanswered(r)' =>
           Unanswered(r) /\ BuffersOf(r.buffers) \cap held' = {}
      /\ held \subseteq held'
  BY <1>1, <1>3, <1>4, <1>6, OwnDeliver
<1>8. OwnInv'
  BY <1>1, <1>5, <1>7 DEF OwnershipInv, OwnInv
<1> QED BY <1>1, <1>5, <1>8, ThreadMoves

\* A readiness task is no request.
LEMMA OwnFdReady ==
  ASSUME IInv, OwnershipInv, NEW e \in Endpoints, OnDriverFdReady(e)
  PROVE  OwnershipInv'
<1>1. /\ UNCHANGED <<state, tracker, driver, control, worker, accepted, results, held, sub>>
      /\ tasks' \in {tasks, Append(tasks, Ready(e))}
  BY DEF OnDriverFdReady, sessionVars, frameworkVars, deliveryVars
<1>2. Ready(e) \notin Requests
  BY RequestOK DEF Ready, IsReady
<1>3. tasks \in Seq(Requests \cup ReadySet(driver))
  BY DEF IInv, Shape
<1>4. \A k \in DOMAIN tasks' :
        tasks'[k] = Ready(e) \/ (k \in DOMAIN tasks /\ tasks'[k] = tasks[k])
  BY <1>1, <1>3
<1>5. \A q : Unanswered(q)' <=> Unanswered(q)
  BY <1>1 DEF Unanswered
<1>6. OwnInv'
  BY <1>1, <1>2, <1>4, <1>5 DEF OwnInv, OwnershipInv
<1> QED BY <1>1, <1>6, ThreadMoves

\* The worker takes an accepted request, or readiness.
LEMMA OwnPop ==
  ASSUME IInv, OwnershipInv, PopTask
  PROVE  OwnershipInv'
<1>1. /\ UNCHANGED <<state, tracker, driver, control, accepted, results, held, sub>>
      /\ tasks # <<>> /\ tasks' = Tail(tasks) /\ worker.pc = "idle"
      /\ worker' = [IdleWorker EXCEPT
                      !.pc = IF IsReady(Head(tasks)) THEN "ready" ELSE "submit",
                      !.request = Head(tasks)]
  BY DEF PopTask, sessionVars, frameworkVars, deliveryVars
<1>2. tasks \in Seq(Requests \cup ReadySet(driver))
  BY DEF IInv, Shape
<1>3. /\ Head(tasks) = tasks[1] /\ 1 \in DOMAIN tasks
      /\ tasks[1] \in Requests \cup ReadySet(driver)
      /\ \A k \in DOMAIN tasks' : k + 1 \in DOMAIN tasks /\ tasks'[k] = tasks[k + 1]
  BY <1>1, <1>2
<1>4. /\ worker'.pc \in {"ready", "submit"} /\ worker'.request = tasks[1]
      /\ worker'.result = None
      /\ worker'.pc = "submit" => ~IsReady(tasks[1])
  BY <1>1, <1>3 DEF IdleWorker
<1>5. worker'.pc = "submit" => tasks[1] \in accepted
  BY <1>3, <1>4, ReadyOK DEF OwnershipInv, OwnInv
<1>6. \A q : Unanswered(q)' <=> Unanswered(q)
  BY <1>1 DEF Unanswered
<1>7. \A k \in DOMAIN tasks' : tasks'[k] \in Requests => tasks'[k] \in accepted'
  BY <1>1, <1>3 DEF OwnInv, OwnershipInv
<1>8. worker'.pc \in {"submit", "queue"} => worker'.request \in accepted'
  BY <1>1, <1>4, <1>5
<1>9. OwnInv'
  BY <1>1, <1>4, <1>6, <1>7, <1>8 DEF OwnInv, OwnershipInv
<1> QED BY <1>1, <1>4, <1>9, ThreadMoves

\* The steps that touch neither driver nor tables, tasks nor buffers.
LEMMA OwnIdle ==
  ASSUME IInv, OwnershipInv, UnregisterSession \/ StreamCallbackReturns \/ RearmFd
  PROVE  OwnershipInv'
<1>1. /\ UNCHANGED <<state, tracker, driver, tasks, accepted, results, held, sub>>
  BY DEF UnregisterSession, StreamCallbackReturns, RearmFd, sessionVars, frameworkVars,
         deliveryVars
<1>2. WorkerOK(worker, driver) /\ ControlOK(control)
  BY DEF IInv, Shape
<1>3. control'.results = control.results /\ control'.tokens = control.tokens
  BY <1>2 DEF UnregisterSession, StreamCallbackReturns, RearmFd, ControlOK
<1>4. worker' = worker
      \/ (worker'.pc \notin {"submit", "queue", "complete"} /\ worker'.result = worker.result)
  BY <1>2, IdleWorkerOK DEF UnregisterSession, StreamCallbackReturns, RearmFd, WorkerOK, IInv,
                            ThreadInv
<1>5. OwnInv'
  BY <1>1, <1>3, <1>4, OwnKept DEF OwnershipInv
<1> QED BY <1>1, <1>3, <1>4, <1>5, ThreadMoves

\* A driver call that moves no buffer.
LEMMA OwnQuiet ==
  ASSUME IInv, OwnershipInv, Quiet(driver, driver', DriverBuffers),
         UNCHANGED <<tracker, tasks, control, worker, accepted, results, held, sub>>,
         state' = state \/ (state' # "Streaming" /\ worker.pc # "queue")
  PROVE  OwnershipInv'
<1>1. /\ SameConfig(driver, driver') /\ driver'.nextToken = driver.nextToken
      /\ ~IsMock(driver) => SameEntries(driver, driver') /\ SameFlags(driver, driver')
  BY DEF Quiet
<1>2. SlotInv' /\ KernelInv'
  BY <1>1, EntriesKept DEF SameFlags
<1>3. DeviceInv'
  BY <1>1, DeviceKept DEF SameFlags, OwnershipInv
<1>4. OwnInv'
  BY OwnKept DEF OwnershipInv
<1> QED BY <1>2, <1>3, <1>4 DEF OwnershipInv

\* configure_streams opens the driver, or leaves it closed.
LEMMA OwnConfigure ==
  ASSUME IInv, OwnershipInv, ConfigureStreams
  PROVE  OwnershipInv'
<1>1. /\ UNCHANGED <<tracker, tasks, control, worker, accepted, results, held, sub>>
      /\ lock = "free" /\ state' # "Streaming" /\ driver' \in {driver, OpenDriver(driver)}
  BY DEF ConfigureStreams, frameworkVars, deliveryVars
<1>2. DriverOK(driver, DriverBuffers) /\ worker.pc # "queue"
  BY <1>1 DEF IInv, Shape, ThreadInv
<1>3. Quiet(driver, driver, DriverBuffers)
  BY <1>2 DEF Quiet, SameConfig, KeepsOwed, SameEntries, SameFlags, IsMock
<1>4. Quiet(driver, driver', DriverBuffers)
  BY <1>1, <1>2, <1>3, OpenDriverQuiet
<1> QED BY <1>1, <1>2, <1>4, OwnQuiet

\* A filled buffer is still the device's until it is dequeued.
LEMMA OwnFills ==
  ASSUME IInv, OwnershipInv, NEW e \in Endpoints, NEW i \in Index, DeviceFills(e, i)
  PROVE  OwnershipInv'
<1>1. /\ UNCHANGED <<state, tracker, tasks, control, worker, accepted, results, held, sub>>
      /\ e \in EventFds(driver) /\ CanFill(driver, e, i) /\ driver' = Fill(driver, e, i)
  BY DEF DeviceFills, frameworkVars, deliveryVars
<1>2. Quiet(driver, driver', DriverBuffers)
  BY <1>1, FillQuiet DEF IInv, Shape
<1> QED BY <1>1, <1>2, OwnQuiet

-----------------------------------------------------------------------------
\* start_streaming starts the driver and sets the preview's node to continuous
\* mode; no buffer is queued yet and no device started.
LEMMA StartIsCalm ==
  ASSUME IInv, StartStreaming
  PROVE  /\ SameConfig(driver, driver') /\ driver'.nextToken = driver.nextToken
         /\ ~IsMock(driver) => /\ SameEntries(driver, driver')
                               /\ \A e \in EventFds(driver) : Device(driver', e) = Device(driver, e)
<1> DEFINE d == StartDriver(driver)
<1>1. Quiet(driver, d, DriverBuffers)
  BY StartDriverQuiet DEF IInv, Shape
<1>2. CASE PreviewBuffers = <<>>
  <2>1. driver' = d
    BY <1>2 DEF StartStreaming
  <2> HIDE DEF d
  <2> QED BY <1>1, <2>1 DEF Quiet, SameFlags
<1>3. CASE PreviewBuffers # <<>>
  <2> DEFINE b == PreviewBuffers[1]
             on == TRUE
             n == SetContinuous(d, b, on)
  <2>1. driver' = n
    BY <1>3 DEF StartStreaming
  <2>2. b \in DriverBuffers /\ on \in BOOLEAN /\ DriverOK(d, DriverBuffers)
    BY <1>1, <1>3, PreviewsOK DEF DriverBuffers, Quiet
  <2> HIDE DEF d, b, on
  <2>3. /\ SameConfig(d, n) /\ n.nextToken = d.nextToken
        /\ ~IsMock(d) => /\ SameEntries(d, n)
                         /\ \A e \in EventFds(d) : Device(n, e) = Device(d, e)
    BY <2>2, SetContinuousSets
  <2> HIDE DEF n
  <2>4. /\ SameConfig(driver, d) /\ d.nextToken = driver.nextToken
        /\ EventFds(d) = EventFds(driver)
        /\ ~IsMock(driver) => SameEntries(driver, d) /\ SameFlags(driver, d)
    BY <1>1 DEF Quiet, SameConfig, EventFds
  <2>5. SameConfig(driver, n)
    BY <2>3, <2>4 DEF SameConfig
  <2>6. ~IsMock(driver) => /\ SameEntries(driver, n)
                           /\ \A e \in EventFds(driver) : Device(n, e) = Device(driver, e)
    BY <2>3, <2>4 DEF SameConfig, SameEntries, SameFlags
  <2> QED BY <2>1, <2>3, <2>4, <2>5, <2>6
<1> QED BY <1>2, <1>3

\* Streaming without previews starts no device; with them, it is not Streaming yet.
LEMMA OwnStart ==
  ASSUME IInv, OwnershipInv, StartStreaming
  PROVE  OwnershipInv'
<1>1. /\ UNCHANGED <<tracker, tasks, worker, accepted, results, held, sub>>
      /\ lock = "free" /\ control.pc = "idle"
      /\ \/ PreviewBuffers = <<>> /\ control' = control
         \/ state' = state /\ control' = [control EXCEPT !.pc = "preview"]
  BY DEF StartStreaming, frameworkVars, deliveryVars
<1>2. /\ control'.results = control.results /\ control'.tokens = control.tokens
      /\ worker'.pc # "queue"
  BY <1>1 DEF IInv, Shape, ControlOK, ThreadInv
<1>3. SlotInv' /\ KernelInv'
  BY <1>1, StartIsCalm, EntriesKept
<1>4. CASE PreviewBuffers = <<>>
  <2>1. DeviceInv'
    BY <1>2, <1>4 DEF DeviceInv
  <2> QED BY <1>1, <1>2, <1>3, <2>1, OwnKept DEF OwnershipInv
<1>5. CASE PreviewBuffers # <<>>
  <2>1. DeviceInv'
    BY <1>1, <1>2, <1>5, StartIsCalm, DeviceKept DEF OwnershipInv
  <2> QED BY <1>1, <1>2, <1>3, <2>1, OwnKept DEF OwnershipInv
<1> QED BY <1>4, <1>5

\* Flush and close: STREAMOFF takes every buffer of a request from the device,
\* whose rows become the results on their way back.
LEMMA OwnFlushed ==
  ASSUME IInv, OwnershipInv, control.pc = "idle", lock = "free",
         Stopped(driver, driver', DriverBuffers),
         tracker' = ClearStreamingOutputs(FlushAll(tracker)),
         state' # "Streaming",
         NEW p, control' = [control EXCEPT !.pc = p, !.results = Flushed],
         UNCHANGED <<tasks, worker, accepted, results, held, sub>>
  PROVE  OwnershipInv'
<1>1. DOMAIN tracker'.requests = {}
  BY FlushedTrackerIs DEF IInv, Shape
<1>2. /\ control'.tokens = <<>> /\ control'.results = Flushed /\ worker.pc # "queue"
  BY DEF IInv, Shape, ControlOK, ThreadInv
<1>3. \A x \in Flushed : Owner(accepted, x.frame, x.buffers)
  BY DEF Flushed, Result, OwnershipInv, OwnInv
<1>4. \A q : Unanswered(q)' <=> Unanswered(q)
  BY DEF Unanswered
<1>5. OwnInv'
  BY <1>1, <1>2, <1>3, <1>4 DEF OwnershipInv, OwnInv
<1>6. DeviceInv'
  BY <1>2 DEF DeviceInv
<1>7. /\ SameConfig(driver, driver') /\ driver'.nextToken = driver.nextToken
      /\ driver.nextToken \in Nat
      /\ IsMock(driver') = IsMock(driver) /\ EventFds(driver') = EventFds(driver)
  BY ConfigKept DEF Stopped, IInv, Shape, DriverOK, MockOK, V4L2OK, SameConfig
<1>8. SlotInv'
  BY <1>7, SlotKept DEF Stopped, OwnershipInv
<1>9. ASSUME ~IsMock(driver), NEW e \in EventFds(driver), NEW i \in Index
      PROVE  Kernel(driver', e, i) \notin Buffers
  <2>1. /\ Kernel(driver', e, i) \in {NoBuffer, Kernel(driver, e, i)}
        /\ Device(driver, e) => Kernel(driver', e, i) = NoBuffer
    BY <1>9 DEF Stopped
  <2>2. Kernel(driver, e, i) \in Buffers => Device(driver, e)
    BY <1>9 DEF OwnershipInv, KernelInv, Backs
  <2> QED BY <2>1, <2>2, SessionAssumption
<1>10. KernelInv'
  BY <1>7, <1>9 DEF KernelInv
<1> QED BY <1>5, <1>6, <1>8, <1>10 DEF OwnershipInv

\* flush and close.
LEMMA OwnFlush ==
  ASSUME IInv, OwnershipInv, Flush \/ Close
  PROVE  OwnershipInv'
<1>1. Stopped(driver, driver', DriverBuffers)
  BY StopDriverStops, CloseDriverStops DEF Flush, Close, IInv, Shape
<1>2. CASE Flush
  BY <1>1, <1>2, OwnFlushed DEF Flush, frameworkVars, deliveryVars
<1>3. CASE Close
  BY <1>1, <1>3, OwnFlushed DEF Close, frameworkVars, deliveryVars
<1> QED BY <1>2, <1>3

-----------------------------------------------------------------------------
\* What LoadFails says of the entries, whatever becomes of the continuous mode.
LoadFailed(d, d2, b) ==
  /\ SameConfig(d, d2) /\ d2.nextToken \in {d.nextToken, d.nextToken + 1}
  /\ ~IsMock(d) =>
       /\ \A e \in EventFds(d) : Device(d2, e) = Device(d, e)
       /\ \/ SameEntries(d, d2)
          \/ /\ "streamon" \in d.faults /\ ~Device(d, d.route[b])
             /\ \E i \in Index : /\ Slot(d, d.route[b], i) = 0
                                 /\ SetsEntry(d, d2, d.route[b], i, 0, b)

\* start_continuous_stream, one buffer: it is queued, it is queued and was the
\* last, or the session fails.
LEMMA QueuePreviewCases ==
  ASSUME IInv, QueuePreview
  PROVE  LET k == Len(control.tokens) + 1
             tokens == Append(control.tokens, driver.nextToken) IN
         /\ control.pc = "preview" /\ k \in 1..Len(PreviewBuffers)
         /\ PreviewBuffers[k] \in Previews /\ PreviewBuffers[k] \in DriverBuffers
         /\ UNCHANGED <<tasks, armed, worker, frameworkVars, deliveryVars, boundVars>>
         /\ \/ /\ Loads(driver, driver', PreviewBuffers[k], DriverBuffers)
               /\ k < Len(PreviewBuffers)
               /\ control' = [control EXCEPT !.tokens = tokens]
               /\ UNCHANGED <<state, tracker, nextFrame>>
            \/ /\ Loads(driver, driver', PreviewBuffers[k], DriverBuffers)
               /\ k = Len(PreviewBuffers)
               /\ tracker' = TrackPreviews(tokens) /\ nextFrame' = nextFrame + k
               /\ state' = "Streaming" /\ control' = IdleControl
            \/ /\ LoadFailed(driver, driver', PreviewBuffers[k])
               /\ state' = "Error" /\ control' = IdleControl /\ UNCHANGED tracker
<1> DEFINE k == Len(control.tokens) + 1
           b == PreviewBuffers[k]
           tokens == Append(control.tokens, driver.nextToken)
<1>1. /\ control.pc = "preview"
      /\ UNCHANGED <<tasks, armed, worker, frameworkVars, deliveryVars, boundVars>>
  BY DEF QueuePreview
<1>2. k \in 1..Len(PreviewBuffers) /\ b \in Previews /\ b \in DriverBuffers
  BY <1>1, PreviewsOK DEF IInv, PreviewInv, Shape, ControlOK, DriverBuffers
<1>3. DriverOK(driver, DriverBuffers)
  BY DEF IInv, Shape
<1>4. CASE \E d \in QueueFailures(driver, b) :
             /\ driver' = SetContinuous(d, PreviewBuffers[1], FALSE)
             /\ state' = "Error" /\ control' = IdleControl /\ UNCHANGED tracker
  <2> DEFINE v == PreviewBuffers[1]
             off == FALSE
  <2>0. v \in DriverBuffers /\ off \in BOOLEAN
    BY <1>1, PreviewsOK DEF DriverBuffers, IInv, ThreadInv
  <2> HIDE DEF b, v, off
  <2>1. PICK d \in QueueFailures(driver, b) :
             /\ driver' = SetContinuous(d, v, off)
             /\ state' = "Error" /\ control' = IdleControl /\ UNCHANGED tracker
    BY <1>4 DEF v, off
  <2>2. LoadFails(driver, d, b, DriverBuffers)
    BY <1>2, <1>3, QueueFails
  <2> DEFINE n == SetContinuous(d, v, off)
  <2>3. /\ SameConfig(d, n) /\ n.nextToken = d.nextToken
        /\ ~IsMock(d) => /\ SameEntries(d, n)
                         /\ \A e \in EventFds(d) : Device(n, e) = Device(d, e)
    BY <2>0, <2>2, SetContinuousSets DEF LoadFails
  <2>4. driver' = n
    BY <2>1
  <2> HIDE DEF n
  <2>5. EventFds(d) = EventFds(driver) /\ (IsMock(d) <=> IsMock(driver))
    BY <2>2 DEF LoadFails, SameConfig, EventFds
  <2>6. SameConfig(driver, n) /\ n.nextToken \in {driver.nextToken, driver.nextToken + 1}
    BY <2>2, <2>3 DEF LoadFails, SameConfig
  <2>7. ASSUME ~IsMock(driver) PROVE \A e \in EventFds(driver) : Device(n, e) = Device(driver, e)
    BY <2>2, <2>3, <2>5, <2>7 DEF LoadFails, SameFlags
  <2>8. ASSUME ~IsMock(driver), SameEntries(driver, d) PROVE SameEntries(driver, n)
    BY <2>3, <2>5, <2>8 DEF SameEntries
  <2>9. ASSUME ~IsMock(driver), NEW i \in Index, SetsEntry(driver, d, driver.route[b], i, 0, b)
        PROVE  SetsEntry(driver, n, driver.route[b], i, 0, b)
    BY <2>3, <2>5, <2>9 DEF SameEntries, SetsEntry
  <2>10. LoadFailed(driver, n, b)
    BY <2>2, <2>6, <2>7, <2>8, <2>9 DEF LoadFails, LoadFailed
  <2> QED BY <1>1, <1>2, <2>1, <2>4, <2>10 DEF b
<1>5. CASE /\ CanQueue(driver, b) /\ driver' = Queue(driver, b)
           /\ IF k < Len(PreviewBuffers)
              THEN /\ control' = [control EXCEPT !.tokens = tokens]
                   /\ UNCHANGED <<state, tracker, lock, nextFrame>>
              ELSE /\ tracker' = TrackPreviews(tokens) /\ nextFrame' = nextFrame + k
                   /\ state' = "Streaming" /\ lock' = "free" /\ control' = IdleControl
  <2>1. Loads(driver, driver', b, DriverBuffers)
    <3> HIDE DEF b
    <3> QED BY <1>2, <1>3, <1>5, QueueLoads
  <2>2. k < Len(PreviewBuffers) =>
          /\ control' = [control EXCEPT !.tokens = tokens] /\ UNCHANGED <<state, tracker, nextFrame>>
    BY <1>5
  <2>3. ~(k < Len(PreviewBuffers)) =>
          /\ k = Len(PreviewBuffers)
          /\ tracker' = TrackPreviews(tokens) /\ nextFrame' = nextFrame + k
          /\ state' = "Streaming" /\ control' = IdleControl
    BY <1>2, <1>5, PreviewsOK
  <2> QED BY <1>1, <1>2, <2>1, <2>2, <2>3
<1> QED BY <1>4, <1>5 DEF QueuePreview

\* Tracker u is t with the rows and the bindings of k preview buffers, whose
\* frame numbers start at m.
PreviewRows(t, u, m, k, tokens) ==
  /\ u.requests = t.requests
  /\ DOMAIN u.streaming = DOMAIN t.streaming \cup {m + j - 1 : j \in 1..k}
  /\ \A j \in 1..k : u.streaming[m + j - 1] = PreviewBuffers[j]
  /\ \A f \in DOMAIN t.streaming : u.streaming[f] = t.streaming[f]
  /\ DOMAIN u.bound = DOMAIN t.bound \cup {tokens[j] : j \in 1..k}
  /\ \A j \in 1..k : u.bound[tokens[j]] = Context(m + j - 1, Preview)
  /\ \A x \in DOMAIN t.bound : u.bound[x] = t.bound[x]

\* The tables once the last preview buffer is queued.
LEMMA PreviewsTracked ==
  ASSUME IInv, control.pc = "preview",
         NEW k, k = Len(control.tokens) + 1, k = Len(PreviewBuffers),
         NEW tokens, tokens = Append(control.tokens, driver.nextToken),
         tracker' = TrackPreviews(tokens)
  PROVE  /\ tokens \in Seq(Nat) /\ Len(tokens) = k /\ tokens[k] = driver.nextToken
         /\ \A j \in DOMAIN control.tokens : j \in 1..k /\ tokens[j] = control.tokens[j]
         /\ PreviewRows(tracker, tracker', nextFrame, k, tokens)
<1> DEFINE n == driver.nextToken
           s == control.tokens
<1>1. /\ n \in Nat \ {0} /\ s \in Seq(Nat) /\ nextFrame \in Nat /\ k \in Nat \ {0}
      /\ TrackerOK(tracker)
  BY PreviewsOK DEF IInv, Shape, DriverOK, MockOK, V4L2OK, ControlOK
<1>2. /\ tokens \in Seq(Nat) /\ Len(tokens) = k /\ tokens[k] = n /\ DOMAIN s = 1..(k - 1)
      /\ \A j \in 1..(k - 1) : tokens[j] = s[j]
  BY <1>1
<1>3. \A j \in 1..(k - 1) : s[j] \in 1..(n - 1) /\ s[j] \notin DOMAIN tracker.bound
  BY <1>2 DEF IInv, PreviewInv
<1>4. \A i, j \in 1..(k - 1) : s[i] = s[j] => i = j
  BY <1>2 DEF IInv, PreviewInv
<1>5. /\ \A f \in DOMAIN tracker.streaming : f < nextFrame
      /\ n \notin DOMAIN tracker.bound
  BY <1>1, FramesOK DEF IInv, BindInv, Shape, TrackerOK
<1> HIDE DEF n, s
<1>6. \A j \in 1..k : j = k \/ j \in 1..(k - 1)
  BY <1>1
<1>7. \A j \in 1..k : tokens[j] # 0 /\ tokens[j] \notin DOMAIN tracker.bound
  BY <1>1, <1>2, <1>3, <1>5, <1>6
<1>8. \A i, j \in 1..k : tokens[i] = tokens[j] => i = j
  <2>1. \A j \in 1..(k - 1) : s[j] # n
    BY <1>1, <1>3
  <2> QED BY <1>2, <1>4, <1>6, <2>1
<1> DEFINE u == TrackPreviews(tokens)
<1>9. /\ u.requests = tracker.requests
      /\ DOMAIN u.streaming =
           DOMAIN tracker.streaming \cup {nextFrame + j - 1 : j \in 1..Len(tokens)}
      /\ \A j \in 1..Len(tokens) : u.streaming[nextFrame + j - 1] = PreviewBuffers[j]
      /\ \A f \in DOMAIN tracker.streaming : u.streaming[f] = tracker.streaming[f]
      /\ DOMAIN u.bound = DOMAIN tracker.bound \cup {tokens[j] : j \in 1..Len(tokens)}
      /\ \A j \in 1..Len(tokens) : u.bound[tokens[j]] = Context(nextFrame + j - 1, Preview)
      /\ \A x \in DOMAIN tracker.bound : u.bound[x] = tracker.bound[x]
  <2>1. /\ \A j \in 1..Len(tokens) : tokens[j] # 0 /\ tokens[j] \notin DOMAIN tracker.bound
        /\ \A i, j \in 1..Len(tokens) : tokens[i] = tokens[j] => i = j
    BY <1>2, <1>7, <1>8
  <2>2. Len(tokens) = Len(PreviewBuffers)
    BY <1>2
  <2>3. TrackerOK(tracker) /\ nextFrame \in Nat /\ tokens \in Seq(Nat)
    BY <1>1, <1>2
  <2> HIDE DEF u
  <2> QED BY <1>5, <2>1, <2>2, <2>3, TrackPreviewsIs DEF u
<1>10. tracker' = u
  OBVIOUS
<1> HIDE DEF u
<1>11. \A j \in DOMAIN s : j \in 1..k /\ tokens[j] = s[j]
  BY <1>1, <1>2
<1>12. PreviewRows(tracker, tracker', nextFrame, k, tokens)
  BY <1>2, <1>9, <1>10 DEF PreviewRows
<1> QED BY <1>2, <1>11, <1>12 DEF n, s

\* A preview buffer given to the device, or not: those of requests are untouched.
LEMMA PreviewBesides ==
  ASSUME IInv, OwnershipInv, NEW v \in Previews,
         Loads(driver, driver', v, DriverBuffers) \/ LoadFailed(driver, driver', v),
         tracker'.requests = tracker.requests,
         \A x \in DOMAIN tracker.bound :
           x \in DOMAIN tracker'.bound /\ tracker'.bound[x] = tracker.bound[x],
         worker' = worker \/ worker'.pc # "complete"
  PROVE  /\ SlotInv' /\ KernelInv' /\ SameConfig(driver, driver')
         /\ ~IsMock(driver) => \A e \in EventFds(driver) : Device(driver, e) => Device(driver', e)
<1>1. v \in DriverBuffers /\ v \notin Buffers /\ v # NoBuffer
  BY SessionAssumption DEF DriverBuffers
<1>2. SameConfig(driver, driver')
  BY DEF Loads, LoadFailed
<1>3. ASSUME ~IsMock(driver), NEW e \in EventFds(driver)
      PROVE  /\ Device(driver, e) => Device(driver', e)
             /\ \A i \in Index : Kernel(driver', e, i) \in Buffers =>
                  /\ Slot(driver', e, i) = Slot(driver, e, i)
                  /\ Kernel(driver', e, i) = Kernel(driver, e, i)
  BY <1>1, <1>3 DEF Loads, LoadFailed, SetsEntry, SameEntries
<1>4. \A x \in DOMAIN tracker.bound : KeepsOutput(tracker, tracker', x)
  BY DEF KeepsOutput
<1>5. KernelInv'
  BY <1>2, <1>3, <1>4, KernelKept DEF OwnershipInv
<1>6. SlotInv'
  <2>1. CASE Loads(driver, driver', v, DriverBuffers)
    BY <1>1, <2>1, SlotLoaded DEF OwnershipInv
  <2>2. CASE LoadFailed(driver, driver', v)
    <3>1. driver.nextToken \in Nat
      BY DEF IInv, Shape, DriverOK, MockOK, V4L2OK
    <3>2. driver'.nextToken \in Nat /\ driver.nextToken <= driver'.nextToken
      BY <2>2, <3>1 DEF LoadFailed
    <3>3. ~IsMock(driver) => \A e \in EventFds(driver) : \A i \in Index :
            Slot(driver', e, i) \in {0, Slot(driver, e, i)}
      BY <2>2 DEF LoadFailed, SetsEntry, SameEntries
    <3> QED BY <1>2, <3>2, <3>3, SlotKept DEF OwnershipInv
  <2> QED BY <2>1, <2>2
<1> QED BY <1>2, <1>3, <1>5, <1>6

\* The previews are served by the node of the first one.
LEMMA PreviewNode ==
  ASSUME IInv, NEW v \in Previews
  PROVE  /\ PreviewBuffers # <<>> /\ driver.route[v] = driver.route[PreviewBuffers[1]]
         /\ driver.route[v] \in EventFds(driver)
<1>1. PICK c \in Backends : SameConfig(c, driver)
  BY DEF IInv, Shape
<1>2. PreviewBuffers # <<>> /\ PreviewBuffers[1] \in Previews
  BY PreviewsOK DEF Previews
<1>3. driver.route[v] = driver.route[PreviewBuffers[1]]
  BY <1>1, <1>2, SessionAssumption DEF SameConfig
<1>4. v \in DOMAIN driver.route
  BY <1>1, SessionAssumption DEF SameConfig
<1> QED BY <1>2, <1>3, <1>4 DEF EventFds

\* start_continuous_stream, one preview buffer.
LEMMA OwnPreview ==
  ASSUME IInv, OwnershipInv, QueuePreview
  PROVE  OwnershipInv'
<1> DEFINE k == Len(control.tokens) + 1
           v == PreviewBuffers[k]
           tokens == Append(control.tokens, driver.nextToken)
           Queued1 == /\ Loads(driver, driver', v, DriverBuffers)
                      /\ control' = [control EXCEPT !.tokens = tokens]
                      /\ UNCHANGED <<state, tracker, nextFrame>>
           Queued2 == /\ Loads(driver, driver', v, DriverBuffers)
                      /\ k = Len(PreviewBuffers)
                      /\ tracker' = TrackPreviews(tokens) /\ control' = IdleControl
           Failed == /\ LoadFailed(driver, driver', v)
                     /\ state' = "Error" /\ control' = IdleControl /\ UNCHANGED tracker
<1>1. /\ control.pc = "preview" /\ v \in Previews
      /\ UNCHANGED <<tasks, worker, accepted, sub, results, held>>
      /\ Queued1 \/ Queued2 \/ Failed
  BY QueuePreviewCases DEF frameworkVars, deliveryVars
<1>2. control.results = {} /\ ControlOK(control) /\ worker.pc # "queue"
  BY <1>1 DEF IInv, ThreadInv, Shape
<1>3. control'.results = {}
  BY <1>1, <1>2, IdleControlOK DEF ControlOK
<1>4. /\ tracker'.requests = tracker.requests
      /\ \A x \in DOMAIN tracker.bound :
           x \in DOMAIN tracker'.bound /\ tracker'.bound[x] = tracker.bound[x]
  <2>1. CASE Queued2
    <3>1. k = Len(control.tokens) + 1 /\ tokens = Append(control.tokens, driver.nextToken)
      OBVIOUS
    <3> HIDE DEF k, tokens
    <3>2. PreviewRows(tracker, tracker', nextFrame, k, tokens)
      BY <1>1, <2>1, <3>1, PreviewsTracked
    <3> QED BY <3>2 DEF PreviewRows
  <2> QED BY <1>1, <2>1
<1>5. Loads(driver, driver', v, DriverBuffers) \/ LoadFailed(driver, driver', v)
  BY <1>1
<1> HIDE DEF v, k, tokens
<1>6. /\ SlotInv' /\ KernelInv' /\ SameConfig(driver, driver')
      /\ ~IsMock(driver) => \A e \in EventFds(driver) : Device(driver, e) => Device(driver', e)
  BY <1>1, <1>4, <1>5, PreviewBesides
<1>7. OwnInv'
  BY <1>1, <1>2, <1>3, <1>4, OwnKept DEF OwnershipInv
<1>8. DeviceInv'
  <2>1. /\ PreviewBuffers # <<>> /\ driver.route[v] = driver.route[PreviewBuffers[1]]
        /\ driver.route[v] \in EventFds(driver)
    BY <1>1, PreviewNode
  <2>2. CASE Loads(driver, driver', v, DriverBuffers)
    <3>1. ~IsMock(driver) => Device(driver', driver.route[v])
      BY <2>1, <2>2 DEF Loads
    <3>2. (IsMock(driver') <=> IsMock(driver)) /\ driver'.route = driver.route
      BY <1>6 DEF SameConfig
    <3> QED BY <1>1, <1>2, <2>1, <3>1, <3>2 DEF DeviceInv
  <2>3. CASE Failed
    BY <1>1, <1>2, <1>6, <2>3, IdleControlOK, DeviceKept DEF OwnershipInv
  <2> QED BY <1>1, <2>2, <2>3
<1> QED BY <1>6, <1>7, <1>8 DEF OwnershipInv

-----------------------------------------------------------------------------
\* The worker answers, or starts the row of, the request it has.
LEMMA OwnSubmit ==
  ASSUME IInv, TallyInv, OwnershipInv, SubmitCaptureRequest
  PROVE  OwnershipInv'
<1> DEFINE r == worker.request
           g == r.frame
<1>1. /\ worker.pc = "submit" /\ lock = "free"
      /\ UNCHANGED <<state, driver, tasks, control, accepted, sub, results, held>>
  BY DEF SubmitCaptureRequest, frameworkVars, deliveryVars
<1>2. /\ r \in Requests /\ r \in accepted /\ TrackerOK(tracker) /\ WorkerOK(worker, driver)
      /\ worker.result = None
  BY <1>1 DEF IInv, ThreadInv, Shape, OwnershipInv, OwnInv
<1>3. /\ g \in Frames /\ g # 0 /\ OutputsOf(r) \in OutputSet
      /\ BuffersOf(OutputsOf(r)) = BuffersOf(r.buffers)
  BY <1>2, RequestOK
<1>4. g \notin DOMAIN tracker.requests
  <2>1. Submitting(g) = 1
    BY <1>1 DEF Submitting
  <2>2. InFlight(g) = 0
    BY <1>3, <2>1, TallyBounds
  <2> QED BY <2>2 DEF InFlight
<1>5. \A x \in DOMAIN tracker.bound : tracker.bound[x].index # Preview =>
        tracker.bound[x].frame \in DOMAIN tracker.requests /\ tracker.bound[x].frame # g
  BY <1>4, BoundFrame
<1>6. SameConfig(driver, driver') /\ driver.nextToken \in Nat
  BY <1>1 DEF SameConfig, IsMock, IInv, Shape, DriverOK, MockOK, V4L2OK
<1>7. \A q : Unanswered(q)' <=> Unanswered(q)
  BY <1>1 DEF Unanswered
\* whatever becomes of the request, the bindings of others are kept
<1>8. ASSUME worker'.pc # "complete",
             \A x \in DOMAIN tracker.bound : tracker.bound[x].index # Preview =>
               KeepsOutput(tracker, tracker', x)
      PROVE  SlotInv' /\ KernelInv'
  <2>1. SlotInv'
    BY <1>1, <1>6, <1>8, SlotKept DEF OwnershipInv
  <2>2. KernelInv'
    BY <1>1, <1>6, <1>8, KernelKept DEF OwnershipInv
  <2> QED BY <2>1, <2>2
\* an answer returns buffers of the request
<1>9. ASSUME NEW S, S \subseteq BuffersOf(r.buffers),
             worker' = [worker EXCEPT !.pc = "dispatch", !.result = Result(g, S)],
             tracker' = tracker \/ tracker' = FailedTracker(tracker, g)
      PROVE  OwnershipInv'
  <2>1. worker'.pc = "dispatch" /\ worker'.result = Result(g, S)
    BY <1>2, <1>9 DEF WorkerOK
  <2>2. Owner(accepted, worker'.result.frame, worker'.result.buffers)
    BY <1>2, <1>9, <2>1 DEF Owner, Result
  <2>3. /\ DOMAIN tracker'.requests = DOMAIN tracker.requests
        /\ \A f \in DOMAIN tracker.requests : tracker'.requests[f] = tracker.requests[f]
        /\ \A x \in DOMAIN tracker.bound : tracker.bound[x].frame # g =>
             x \in DOMAIN tracker'.bound /\ tracker'.bound[x] = tracker.bound[x]
    <3>1. CASE tracker' = FailedTracker(tracker, g)
      <4> HIDE DEF g
      <4>1. /\ DOMAIN tracker'.requests = DOMAIN tracker.requests \ {g}
            /\ \A f \in DOMAIN tracker.requests \ {g} : tracker'.requests[f] = tracker.requests[f]
            /\ DOMAIN tracker'.bound = {x \in DOMAIN tracker.bound : tracker.bound[x].frame # g}
            /\ \A x \in DOMAIN tracker'.bound : tracker'.bound[x] = tracker.bound[x]
        BY <1>2, <3>1, FailedTrackerIs
      <4> QED BY <1>4, <4>1
    <3> QED BY <1>9, <3>1
  <2>4. SlotInv' /\ KernelInv'
    BY <1>5, <1>8, <2>1, <2>3 DEF KeepsOutput
  <2>5. OwnInv'
    BY <1>1, <1>7, <2>1, <2>2, <2>3 DEF OwnershipInv, OwnInv
  <2>6. DeviceInv'
    BY <1>1, <1>6, <2>1, DeviceKept DEF OwnershipInv
  <2> QED BY <2>4, <2>5, <2>6 DEF OwnershipInv
<1>10. CASE /\ worker' = [worker EXCEPT !.pc = "dispatch", !.result = Result(g, {})]
            /\ tracker' = tracker
  <2> DEFINE S == {}
  <2>1. /\ S \subseteq BuffersOf(r.buffers)
        /\ worker' = [worker EXCEPT !.pc = "dispatch", !.result = Result(g, S)]
    BY <1>10
  <2> HIDE DEF S
  <2> QED BY <1>9, <1>10, <2>1
<1>11. CASE /\ worker' = [worker EXCEPT !.pc = "dispatch", !.result = FailedResult(tracker, r)]
            /\ tracker' = FailedTracker(tracker, g)
  <2>1. FailedResult(tracker, r) = Result(g, BuffersOf(r.buffers))
    BY <1>3, <1>4 DEF FailedResult
  <2> QED BY <1>9, <1>11, <2>1
<1>12. CASE /\ state = "Streaming" /\ tracker' = Start(tracker, g, OutputsOf(r))
            /\ worker' = [worker EXCEPT !.pc = "queue"]
  <2>1. /\ tracker'.bound = tracker.bound
        /\ DOMAIN tracker'.requests = DOMAIN tracker.requests \cup {g}
        /\ tracker'.requests[g].outputs = OutputsOf(r)
        /\ \A f \in DOMAIN tracker.requests : f # g => tracker'.requests[f] = tracker.requests[f]
    <3> HIDE DEF g
    <3> QED BY <1>2, <1>3, <1>12, StartIs
  <2>2. worker'.pc = "queue" /\ worker'.result = None /\ worker'.request = r
    BY <1>2, <1>12 DEF WorkerOK
  <2>3. \A f \in DOMAIN tracker'.requests :
          Owner(accepted', f, BuffersOf(tracker'.requests[f].outputs))
    <3>1. Owner(accepted', g, BuffersOf(tracker'.requests[g].outputs))
      BY <1>1, <1>2, <1>3, <2>1 DEF Owner
    <3> QED BY <1>1, <2>1, <3>1 DEF OwnershipInv, OwnInv
  <2>4. SlotInv' /\ KernelInv'
    BY <1>5, <1>8, <2>1, <2>2 DEF KeepsOutput
  <2>5. OwnInv'
    BY <1>1, <1>2, <1>7, <2>2, <2>3 DEF OwnershipInv, OwnInv
  <2>6. DeviceInv'
    BY <1>1, <1>12 DEF OwnershipInv, DeviceInv
  <2> QED BY <2>4, <2>5, <2>6 DEF OwnershipInv
<1> QED BY <1>10, <1>11, <1>12 DEF SubmitCaptureRequest

\* The tables once an output is queued: its token is bound to it, and nothing
\* else has changed but the state of the row.
LEMMA OutputBound ==
  ASSUME IInv, worker.pc = "queue",
         NEW f, f = worker.request.frame, NEW o, o = OutputsOf(worker.request),
         NEW k, k = worker.index, NEW x, x = driver.nextToken,
         NEW u, u = BindDriverOutput(tracker, x, Context(f, k)),
         tracker' = u \/ tracker' = MarkQueuedToDriver(u, f)
  PROVE  /\ f \in DOMAIN tracker.requests /\ tracker.requests[f].outputs = o
         /\ k \in DOMAIN o /\ k # Preview /\ o[k] \in DriverBuffers
         /\ tracker'.streaming = tracker.streaming
         /\ DOMAIN tracker'.requests = DOMAIN tracker.requests
         /\ \A g \in DOMAIN tracker.requests :
              tracker'.requests[g].outputs = tracker.requests[g].outputs
         /\ DOMAIN tracker'.bound = DOMAIN tracker.bound \cup {x}
         /\ tracker'.bound[x] = Context(f, k)
         /\ \A y \in DOMAIN tracker.bound : tracker'.bound[y] = tracker.bound[y]
<1> DEFINE c == Context(f, k)
<1>1. worker.request \in Requests /\ TrackerOK(tracker)
  BY DEF IInv, Shape, ThreadInv
<1>2. f \in Frames /\ f \in Nat /\ o \in OutputSet
  BY <1>1, RequestOK
<1>3. /\ Len(o) \in Nat \ {0} /\ DOMAIN o = 1..Len(o)
      /\ \A j \in 1..Len(o) : o[j] \in Buffers \cup {NoBuffer}
  BY <1>2, OutputsIn
<1>4. /\ f \in DOMAIN tracker.requests /\ tracker.requests[f].outputs = o
      /\ k <= Len(o) /\ k \in Nat \ {0} /\ k \in DOMAIN o
  BY <1>3 DEF IInv, QueueInv, Shape, WorkerOK
<1>5. x \in Nat \ {0} /\ x \notin DOMAIN tracker.bound
  BY DEF IInv, Shape, DriverOK, MockOK, V4L2OK, BindInv
<1>6. c \in ContextSet /\ k # Preview /\ o[k] \in DriverBuffers
  BY <1>2, <1>3, <1>4 DEF Context, ContextSet, Preview, DriverBuffers
<1> HIDE DEF c
<1>7. /\ TrackerOK(u) /\ u.requests = tracker.requests /\ u.streaming = tracker.streaming
      /\ DOMAIN u.bound = DOMAIN tracker.bound \cup {x} /\ u.bound[x] = c
      /\ \A y \in DOMAIN tracker.bound : u.bound[y] = tracker.bound[y]
  <2>1. u = BindDriverOutput(tracker, x, c)
    BY DEF c
  <2> QED BY <1>1, <1>5, <1>6, <2>1, BindIs
<1>8. /\ tracker'.streaming = tracker.streaming /\ tracker'.bound = u.bound
      /\ DOMAIN tracker'.requests = DOMAIN tracker.requests
      /\ \A g \in DOMAIN tracker.requests :
           tracker'.requests[g].outputs = tracker.requests[g].outputs
  <2>1. CASE tracker' = u
    BY <1>7, <2>1
  <2>2. CASE tracker' = MarkQueuedToDriver(u, f)
    <3>1. f \in DOMAIN u.requests
      BY <1>4, <1>7
    <3>2. /\ tracker'.streaming = u.streaming /\ tracker'.bound = u.bound
          /\ DOMAIN tracker'.requests = DOMAIN u.requests
          /\ tracker'.requests[f].outputs = u.requests[f].outputs
          /\ \A g \in DOMAIN u.requests : g # f => tracker'.requests[g] = u.requests[g]
      BY <1>7, <2>2, <3>1, MarkQueuedIs
    <3> QED BY <1>7, <3>2
  <2> QED BY <2>1, <2>2
<1> QED BY <1>4, <1>6, <1>7, <1>8 DEF c

\* The first STREAMON of a node of a request cannot fail while the session
\* streams: nothing is left with the kernel when an output is refused.
LEMMA OutputNotLeft ==
  ASSUME StreamOnGuarded, IInv, OwnershipInv, worker.pc = "queue", ~IsMock(driver),
         NEW b \in Buffers \cup {NoBuffer}, LoadFails(driver, driver', b, DriverBuffers),
         b # NoBuffer
  PROVE  SameEntries(driver, driver')
<1>1. PICK c \in Backends : SameConfig(c, driver)
  BY DEF IInv, Shape
<1>2. "streamon" \in driver.faults =>
        PreviewBuffers # <<>> /\ driver.route[b] = driver.route[PreviewBuffers[1]]
  BY <1>1 DEF StreamOnGuarded, SameConfig
<1>3. state = "Streaming"
  BY DEF OwnershipInv, DeviceInv
<1>4. "streamon" \in driver.faults => Device(driver, driver.route[b])
  BY <1>2, <1>3 DEF OwnershipInv, DeviceInv
<1> QED BY <1>4 DEF LoadFails

\* The worker queues an output of its request, or answers it.
LEMMA OwnQueueOutput ==
  ASSUME SingleOutput, StreamOnGuarded, IInv, TallyInv, OwnershipInv, QueueOutput
  PROVE  OwnershipInv'
<1> DEFINE r == worker.request
           f == r.frame
           o == OutputsOf(r)
           k == worker.index
           x == driver.nextToken
           u == BindDriverOutput(tracker, x, Context(f, k))
<1>1. /\ worker.pc = "queue"
      /\ UNCHANGED <<state, tasks, control, accepted, sub, results, held>>
  BY DEF QueueOutput, frameworkVars, deliveryVars
<1>2. /\ r \in Requests /\ r \in accepted /\ TrackerOK(tracker) /\ WorkerOK(worker, driver)
      /\ DriverOK(driver, DriverBuffers) /\ worker.result = None /\ x \in Nat \ {0}
  BY <1>1 DEF IInv, ThreadInv, Shape, OwnershipInv, OwnInv, DriverOK, MockOK, V4L2OK
<1>3. /\ f \in Frames /\ o \in OutputSet /\ BuffersOf(o) = BuffersOf(r.buffers)
      /\ r.buffers \in Seq(Buffers)
  BY <1>2, RequestOK
<1>4. /\ f \in DOMAIN tracker.requests /\ tracker.requests[f].outputs = o
      /\ k \in Nat \ {0} /\ k <= Len(o)
      /\ \A y \in DOMAIN tracker.bound : tracker.bound[y].frame = f => tracker.bound[y].index < k
  BY <1>1, <1>2 DEF IInv, QueueInv, WorkerOK
<1>5. /\ Len(o) \in Nat \ {0} /\ DOMAIN o = 1..Len(o)
      /\ \A j \in 1..Len(o) : o[j] \in Buffers \cup {NoBuffer}
  BY <1>3, OutputsIn
<1>6. k \in DOMAIN o /\ o[k] \in Buffers \cup {NoBuffer} /\ o[k] \in DriverBuffers /\ k # Preview
  BY <1>4, <1>5 DEF DriverBuffers, Preview
<1>7. CASE /\ CanQueue(driver, o[k]) /\ driver' = Queue(driver, o[k])
           /\ \/ tracker' = u /\ worker' = [worker EXCEPT !.index = @ + 1]
              \/ tracker' = MarkQueuedToDriver(u, f) /\ worker' = IdleWorker
  <2> DEFINE b == o[k]
  <2>1. Loads(driver, driver', b, DriverBuffers)
    <3> HIDE DEF b
    <3>1. b \in DriverBuffers /\ CanQueue(driver, b) /\ driver' = Queue(driver, b)
      BY <1>6, <1>7 DEF b
    <3> QED BY <1>2, <3>1, QueueLoads
  <2>2. /\ DOMAIN tracker'.requests = DOMAIN tracker.requests
        /\ \A g \in DOMAIN tracker.requests :
             tracker'.requests[g].outputs = tracker.requests[g].outputs
        /\ DOMAIN tracker'.bound = DOMAIN tracker.bound \cup {x}
        /\ tracker'.bound[x] = Context(f, k)
        /\ \A y \in DOMAIN tracker.bound : tracker'.bound[y] = tracker.bound[y]
    BY <1>1, <1>7, OutputBound
  <2>3. /\ worker'.pc \in {"queue", "idle"} /\ worker'.result = None
        /\ worker'.pc = "queue" => worker'.request = r
    BY <1>1, <1>2, <1>7, IdleWorkerOK DEF WorkerOK
  <2>4. \A y \in DOMAIN tracker.bound : tracker.bound[y].index # Preview =>
          /\ tracker.bound[y].frame \in DOMAIN tracker.requests
          /\ y < x /\ y \in Nat
    BY BoundFrame
  <2> HIDE DEF x, o, f, k, r, u, b
  <2>5. SlotInv'
    BY <1>6, <2>1, <2>3, SlotLoaded DEF OwnershipInv, b
  <2>6. (IsMock(driver') <=> IsMock(driver)) /\ EventFds(driver') = EventFds(driver)
        /\ SameConfig(driver, driver')
    BY <2>1 DEF Loads, SameConfig, EventFds
  <2>7. ASSUME ~IsMock(driver), NEW e \in EventFds(driver), NEW i \in Index,
               Kernel(driver', e, i) \in Buffers
        PROVE  Backs(driver', tracker', e, i)
    <3>1. PICK j \in Index : SetsEntry(driver, driver', driver.route[b], j, x, b)
      BY <2>1, <2>7 DEF Loads, x
    <3>2. Device(driver', e) = (e = driver.route[b] \/ Device(driver, e))
      BY <2>1, <2>7 DEF Loads
    <3>3. CASE e = driver.route[b] /\ i = j
      <4>1. Slot(driver', e, i) = x /\ Kernel(driver', e, i) = b /\ Device(driver', e)
        BY <2>7, <3>1, <3>2, <3>3 DEF SetsEntry
      <4>2. tracker'.requests[f].outputs[k] = b
        BY <1>4, <2>2 DEF b
      <4> QED BY <1>6, <2>2, <4>1, <4>2 DEF Backs, Context
    <3>4. CASE ~(e = driver.route[b] /\ i = j)
      <4>1. Slot(driver', e, i) = Slot(driver, e, i) /\ Kernel(driver', e, i) = Kernel(driver, e, i)
        BY <2>7, <3>1, <3>4 DEF SetsEntry
      <4>2. Backs(driver, tracker, e, i)
        BY <2>7, <4>1 DEF OwnershipInv, KernelInv
      <4> QED BY <2>2, <2>4, <3>2, <4>1, <4>2 DEF Backs
    <3> QED BY <3>3, <3>4
  <2>8. KernelInv'
    BY <2>6, <2>7 DEF KernelInv
  <2>9. \A f2 \in DOMAIN tracker'.requests :
          Owner(accepted', f2, BuffersOf(tracker'.requests[f2].outputs))
    BY <1>1, <2>2 DEF OwnershipInv, OwnInv
  <2>10. \A q : Unanswered(q)' <=> Unanswered(q)
    BY <1>1 DEF Unanswered
  <2>11. worker'.pc \in {"submit", "queue"} => worker'.request \in accepted'
    BY <1>1, <1>2, <2>3
  <2>12. OwnInv'
    BY <1>1, <2>3, <2>9, <2>10, <2>11 DEF OwnershipInv, OwnInv
  <2>13. ~IsMock(driver) => \A e \in EventFds(driver) : Device(driver, e) => Device(driver', e)
    BY <2>1 DEF Loads
  <2>14. DeviceInv'
    BY <1>1, <2>6, <2>13, DeviceKept DEF OwnershipInv
  <2> QED BY <2>5, <2>8, <2>12, <2>14 DEF OwnershipInv
<1>8. CASE /\ driver' \in QueueFailures(driver, o[k])
           /\ tracker' = FailedTracker(tracker, f)
           /\ worker' = [worker EXCEPT !.pc = "dispatch", !.result = FailedResult(tracker, r)]
  <2> DEFINE b == o[k]
  <2>1. LoadFails(driver, driver', b, DriverBuffers)
    <3> HIDE DEF b
    <3>1. b \in DriverBuffers /\ driver' \in QueueFailures(driver, b)
      BY <1>6, <1>8 DEF b
    <3> QED BY <1>2, <3>1, QueueFails
  <2>2. k = 1
    <3>1. Len(o) = 1
      BY <1>2, <1>3, <1>5 DEF SingleOutput, OutputsOf
    <3> QED BY <1>4, <3>1
  <2>3. FailedResult(tracker, r) = Result(f, BuffersOf(r.buffers))
    BY <1>3, <1>4 DEF FailedResult
  <2>4. worker'.pc = "dispatch" /\ worker'.result = Result(f, BuffersOf(r.buffers))
    BY <1>2, <1>8, <2>3 DEF WorkerOK
  <2>5. Owner(accepted, worker'.result.frame, worker'.result.buffers)
    BY <1>2, <2>4 DEF Owner, Result
  <2>6. \A y \in DOMAIN tracker.bound : tracker.bound[y].index # Preview =>
          tracker.bound[y].frame \in DOMAIN tracker.requests /\ tracker.bound[y].frame # f
    <3> TAKE y \in DOMAIN tracker.bound
    <3>1. tracker.bound[y].index \in Nat
      BY <1>2 DEF TrackerOK, ContextSet
    <3> QED BY <1>4, <2>2, <3>1, BoundFrame DEF Preview
  <2> HIDE DEF x, o, f, k, r, u, b
  <2>7. /\ DOMAIN tracker'.requests = DOMAIN tracker.requests \ {f}
        /\ \A g \in DOMAIN tracker.requests \ {f} : tracker'.requests[g] = tracker.requests[g]
        /\ DOMAIN tracker'.bound = {y \in DOMAIN tracker.bound : tracker.bound[y].frame # f}
        /\ \A y \in DOMAIN tracker'.bound : tracker'.bound[y] = tracker.bound[y]
    BY <1>2, <1>8, FailedTrackerIs
  <2>8. \A y \in DOMAIN tracker.bound : tracker.bound[y].index # Preview =>
          KeepsOutput(tracker, tracker', y)
    BY <2>6, <2>7 DEF KeepsOutput
  <2>9. /\ SameConfig(driver, driver') /\ driver'.nextToken \in Nat
        /\ driver.nextToken <= driver'.nextToken
    BY <1>2, <2>1 DEF LoadFails, x
  <2>10. ~IsMock(driver) => \A e \in EventFds(driver) :
           /\ Device(driver', e) = Device(driver, e)
           /\ \A i \in Index :
                /\ Slot(driver', e, i) \in {0, Slot(driver, e, i)}
                /\ Kernel(driver', e, i) \in Buffers =>
                     /\ Slot(driver', e, i) = Slot(driver, e, i)
                     /\ Kernel(driver', e, i) = Kernel(driver, e, i)
    <3>1. CASE b = NoBuffer
      BY <2>1, <3>1, SessionAssumption DEF LoadFails, SetsEntry, SameEntries, SameFlags
    <3>2. CASE b # NoBuffer
      <4>1. ~IsMock(driver) => SameEntries(driver, driver')
        BY <1>1, <1>6, <2>1, <3>2, OutputNotLeft DEF b
      <4> QED BY <2>1, <4>1 DEF LoadFails, SameEntries, SameFlags
    <3> QED BY <3>1, <3>2
  <2>11. SlotInv'
    BY <2>4, <2>9, <2>10, SlotKept DEF OwnershipInv
  <2>12. KernelInv'
    BY <2>8, <2>9, <2>10, KernelKept DEF OwnershipInv
  <2>13. \A q : Unanswered(q)' <=> Unanswered(q)
    BY <1>1 DEF Unanswered
  <2>14. OwnInv'
    BY <1>1, <2>4, <2>5, <2>7, <2>13 DEF OwnershipInv, OwnInv
  <2>15. DeviceInv'
    BY <1>1, <2>4, <2>9, <2>10, DeviceKept DEF OwnershipInv
  <2> QED BY <2>11, <2>12, <2>14, <2>15 DEF OwnershipInv
<1> QED BY <1>7, <1>8 DEF QueueOutput

\* A dequeued token leaves its slot, and no other slot has it.
LEMMA OwnDequeue ==
  ASSUME IInv, OwnershipInv, DequeueCompletion
  PROVE  OwnershipInv'
<1> DEFINE e == ReadyEndpoint
           x == DequeuedToken(driver, e)
<1>1. /\ worker.pc = "ready" /\ lock = "free"
      /\ UNCHANGED <<state, tracker, tasks, control, accepted, sub, results, held>>
  BY DEF DequeueCompletion, frameworkVars, deliveryVars
<1>2. /\ worker.request \in ReadySet(driver) /\ e \in EventFds(driver)
      /\ worker.result = None /\ WorkerOK(worker, driver) /\ driver.nextToken \in Nat
      /\ DriverOK(driver, DriverBuffers)
  BY <1>1, ReadyOK DEF IInv, ThreadInv, ReadyEndpoint, Shape, DriverOK, MockOK, V4L2OK
<1>3. CASE driver' = driver /\ worker' = [worker EXCEPT !.pc = "rearm"]
  <2>1. worker'.pc = "rearm" /\ worker'.result = worker.result
    BY <1>2, <1>3 DEF WorkerOK
  <2>2. OwnInv'
    BY <1>1, <2>1, OwnKept DEF OwnershipInv
  <2> QED BY <1>1, <1>3, <2>1, <2>2, ThreadMoves
<1>4. CASE /\ CanDequeue(driver, e) /\ driver' = Dequeue(driver, e)
           /\ worker' = IF x # 0 THEN [worker EXCEPT !.pc = "complete", !.token = x]
                        ELSE [worker EXCEPT !.pc = "rearm"]
  <2>1. Unloads(driver, driver', e, x, DriverBuffers)
    <3> HIDE DEF e
    <3> QED BY <1>2, <1>4, DequeueUnloads
  <2> HIDE DEF x, e
  <2>2. /\ worker'.pc \in {"complete", "rearm"} /\ worker'.result = worker.result
        /\ worker'.pc = "complete" => x # 0 /\ worker'.token = x
    BY <1>2, <1>4 DEF WorkerOK
  <2>3. OwnInv'
    BY <1>1, <2>2, OwnKept DEF OwnershipInv
  <2>4. SameConfig(driver, driver') /\ driver'.nextToken = driver.nextToken
        /\ (IsMock(driver') <=> IsMock(driver)) /\ EventFds(driver') = EventFds(driver)
    BY <2>1 DEF Unloads, SameConfig, EventFds
  <2>5. CASE IsMock(driver)
    <3>1. SlotInv' /\ KernelInv'
      BY <2>4, <2>5 DEF SlotInv, KernelInv
    <3>2. DeviceInv'
      BY <1>1, <2>2, <2>4, <2>5, DeviceKept DEF OwnershipInv
    <3> QED BY <2>3, <3>1, <3>2 DEF OwnershipInv
  <2>6. CASE ~IsMock(driver)
    <3>1. PICK i \in Index : /\ Slot(driver, e, i) = x
                             /\ SetsEntry(driver, driver', e, i, 0, NoBuffer)
      BY <2>1, <2>6 DEF Unloads
    <3>2. \A a \in EventFds(driver) : Device(driver', a) = Device(driver, a)
      BY <2>1, <2>6 DEF Unloads, SameFlags
    <3>3. \A a \in EventFds(driver) : \A j \in Index :
            /\ Slot(driver', a, j) = IF a = e /\ j = i THEN 0 ELSE Slot(driver, a, j)
            /\ Kernel(driver', a, j) = IF a = e /\ j = i THEN NoBuffer ELSE Kernel(driver, a, j)
      BY <3>1 DEF SetsEntry
    <3>4. x < driver.nextToken
      BY <1>2, <2>6, <3>1, NodeOf DEF Slot, DriverOK
    <3>5. x # 0 => \A a \in EventFds(driver) : \A j \in Index : Slot(driver', a, j) # x
      BY <1>2, <2>6, <3>1, <3>3 DEF OwnershipInv, SlotInv
    <3>6. SlotInv'
      BY <2>2, <2>4, <2>6, <3>3, <3>4, <3>5 DEF OwnershipInv, SlotInv
    <3>7. \A y \in DOMAIN tracker.bound : KeepsOutput(tracker, tracker', y)
      BY <1>1 DEF KeepsOutput
    <3>8. KernelInv'
      BY <2>4, <3>2, <3>3, <3>7, KernelKept, SessionAssumption DEF OwnershipInv
    <3>9. DeviceInv'
      BY <1>1, <2>2, <2>4, <3>2, DeviceKept DEF OwnershipInv
    <3> QED BY <2>3, <3>6, <3>8, <3>9 DEF OwnershipInv
  <2> QED BY <2>5, <2>6
<1> QED BY <1>3, <1>4 DEF DequeueCompletion

\* The tables once the worker has taken the binding of its token.
LEMMA CompleteTables ==
  ASSUME IInv, OnDriverBufferComplete
  PROVE  LET x == worker.token
             c == tracker.bound[x] IN
         /\ DOMAIN tracker'.bound = DOMAIN tracker.bound \ {x}
         /\ \A y \in DOMAIN tracker.bound \ {x} : tracker'.bound[y] = tracker.bound[y]
         /\ DOMAIN tracker'.requests \subseteq DOMAIN tracker.requests
         /\ \A g \in DOMAIN tracker'.requests :
              tracker'.requests[g].outputs = tracker.requests[g].outputs
         /\ \A y \in DOMAIN tracker.bound \ {x} : tracker.bound[y].index # Preview =>
              tracker.bound[y].frame \in DOMAIN tracker'.requests
         /\ DOMAIN tracker'.streaming =
              IF x \in DOMAIN tracker.bound /\ c.index = Preview
              THEN DOMAIN tracker.streaming \ {c.frame} ELSE DOMAIN tracker.streaming
         /\ \A g \in DOMAIN tracker'.streaming : tracker'.streaming[g] = tracker.streaming[g]
<1> DEFINE x == worker.token
           f == tracker.bound[x].frame
           k == tracker.bound[x].index
           t == TakeDriverOutputContext(tracker, x)
<1>1. TrackerOK(tracker) /\ BindingsResolve
  BY DEF IInv, Shape
<1>2. /\ TrackerOK(t) /\ t.requests = tracker.requests
      /\ DOMAIN t.bound = DOMAIN tracker.bound \ {x}
      /\ \A y \in DOMAIN tracker.bound \ {x} : t.bound[y] = tracker.bound[y]
      /\ DOMAIN t.streaming =
           IF x \in DOMAIN tracker.bound /\ k = Preview
           THEN DOMAIN tracker.streaming \ {f} ELSE DOMAIN tracker.streaming
      /\ \A g \in DOMAIN t.streaming : t.streaming[g] = tracker.streaming[g]
  BY <1>1, TakeIs
<1>3. \A y \in DOMAIN tracker.bound : tracker.bound[y].index # Preview =>
        /\ tracker.bound[y].frame \in DOMAIN tracker.requests
        /\ tracker.bound[y].index \in DOMAIN tracker.requests[tracker.bound[y].frame].outputs
        /\ tracker.bound[y].index \notin tracker.requests[tracker.bound[y].frame].completed
        /\ tracker.bound[y] = Context(tracker.bound[y].frame, tracker.bound[y].index)
  BY BoundFrame
<1>4. CASE tracker' = t
  <2> HIDE DEF t
  <2> QED BY <1>2, <1>3, <1>4
<1>5. CASE Resolves(tracker, x) /\ k # Preview /\ tracker' = CompleteOutput(t, f, k)
  <2>1. x \in DOMAIN tracker.bound /\ f \in DOMAIN tracker.requests /\ k \in Nat
    BY <1>1, <1>5 DEF Resolves, TrackerOK, ContextSet
  <2>2. LastOutput(t, f, k) <=> LastOutput(tracker, f, k)
    BY <1>2 DEF LastOutput
  <2>3. ASSUME LastOutput(tracker, f, k), NEW y \in DOMAIN tracker.bound \ {x},
               tracker.bound[y].index # Preview
        PROVE  tracker.bound[y].frame # f
    <3>1. SUFFICES ASSUME tracker.bound[y].frame = f PROVE FALSE
      OBVIOUS
    <3>2. tracker.bound[y].index = k
      BY <1>3, <2>3, <3>1 DEF LastOutput
    <3>3. tracker.bound[y] = tracker.bound[x]
      BY <1>3, <1>5, <2>1, <2>3, <3>1, <3>2
    <3> QED BY <2>1, <2>3, <3>3 DEF IInv, BindInv
  <2> HIDE DEF f, k, t
  <2>4. Completes(t, tracker', f, k)
    BY <1>2, <1>5, <2>1, CompleteOutputIs
  <2>5. tracker'.bound = t.bound /\ tracker'.streaming = t.streaming
    BY <2>4 DEF Completes
  <2>6. /\ DOMAIN tracker'.requests = IF LastOutput(tracker, f, k)
                                      THEN DOMAIN tracker.requests \ {f}
                                      ELSE DOMAIN tracker.requests
        /\ \A g \in DOMAIN tracker'.requests :
              tracker'.requests[g].outputs = tracker.requests[g].outputs
    BY <1>2, <2>2, <2>4 DEF Completes
  <2> QED BY <1>2, <1>3, <2>3, <2>5, <2>6 DEF f, k
<1> QED BY <1>4, <1>5 DEF OnDriverBufferComplete

\* A completed request goes with its last output, when none of its buffers is
\* queued any more.
LEMMA OwnComplete ==
  ASSUME IInv, TallyInv, OwnershipInv, OnDriverBufferComplete
  PROVE  OwnershipInv'
<1> DEFINE x == worker.token
           f == tracker.bound[x].frame
           k == tracker.bound[x].index
           res == Result(f, BuffersOf(tracker.requests[f].outputs))
<1>1. /\ worker.pc = "complete"
      /\ UNCHANGED <<state, driver, tasks, control, accepted, sub, results, held>>
  BY DEF OnDriverBufferComplete, frameworkVars, deliveryVars
<1>2. /\ worker.result = None /\ TrackerOK(tracker) /\ WorkerOK(worker, driver)
      /\ SameConfig(driver, driver') /\ driver.nextToken \in Nat
  BY <1>1 DEF IInv, ThreadInv, Shape, SameConfig, IsMock, DriverOK, MockOK, V4L2OK
<1>3. /\ worker'.pc \in {"ready", "callback", "dispatch"}
      /\ \/ worker'.result = None
         \/ f \in DOMAIN tracker.requests /\ worker'.result = res
  <2>1. CASE worker' = [worker EXCEPT !.pc = "ready"]
    BY <1>2, <2>1 DEF WorkerOK
  <2>2. CASE worker' = [worker EXCEPT !.pc = "callback", !.lease = PreviewLease(f)]
    BY <1>2, <2>2 DEF WorkerOK
  <2>3. CASE /\ Resolves(tracker, x) /\ k # Preview
             /\ worker' = [worker EXCEPT !.pc = "dispatch", !.result = res]
    BY <1>2, <2>3 DEF WorkerOK, Resolves
  <2> QED BY <2>1, <2>2, <2>3 DEF OnDriverBufferComplete
<1>4. worker'.result # None =>
        Owner(accepted, worker'.result.frame, worker'.result.buffers)
  BY <1>3 DEF OwnershipInv, OwnInv, Result
<1>5. /\ DOMAIN tracker'.bound = DOMAIN tracker.bound \ {x}
      /\ \A y \in DOMAIN tracker.bound \ {x} : tracker'.bound[y] = tracker.bound[y]
      /\ DOMAIN tracker'.requests \subseteq DOMAIN tracker.requests
      /\ \A g \in DOMAIN tracker'.requests :
           tracker'.requests[g].outputs = tracker.requests[g].outputs
      /\ \A y \in DOMAIN tracker.bound \ {x} : tracker.bound[y].index # Preview =>
           tracker.bound[y].frame \in DOMAIN tracker'.requests
  BY CompleteTables
<1> HIDE DEF f, k, res
<1>6. SlotInv'
  BY <1>1, <1>2, <1>3, SlotKept DEF OwnershipInv
<1>7. \A y \in DOMAIN tracker.bound :
        tracker.bound[y].index # Preview /\ ~(worker.pc = "complete" /\ worker.token = y)
          => KeepsOutput(tracker, tracker', y)
  BY <1>1, <1>5 DEF KeepsOutput
<1>8. KernelInv'
  BY <1>1, <1>2, <1>7, KernelKept DEF OwnershipInv
<1>9. DeviceInv'
  BY <1>1, <1>2, <1>3, DeviceKept DEF OwnershipInv
<1>10. \A q : Unanswered(q)' <=> Unanswered(q)
  BY <1>1 DEF Unanswered
<1>11. OwnInv'
  BY <1>1, <1>3, <1>4, <1>5, <1>10 DEF OwnershipInv, OwnInv
<1> QED BY <1>6, <1>8, <1>9, <1>11 DEF OwnershipInv

\* return_stream_buffer: nothing happens, the driver refuses the buffer, or the
\* buffer is queued again under a new token and preview frame number.
LEMMA ReturnStreamBufferCases ==
  ASSUME IInv, ReturnStreamBuffer
  PROVE  LET v == worker.lease IN
         /\ worker.pc = "return" /\ lock = "free" /\ v \in Previews
         /\ worker'.pc = "ready" /\ worker'.result = worker.result
         /\ UNCHANGED <<state, tasks, armed, control, frameworkVars, deliveryVars, boundVars>>
         /\ \/ UNCHANGED <<driver, tracker>>
            \/ /\ state = "Streaming"
               /\ LoadFailed(driver, driver', v) /\ UNCHANGED tracker
            \/ /\ state = "Streaming" /\ nextFrame' = nextFrame + 1
               /\ \/ IsMock(driver) /\ SameConfig(driver, driver')
                  \/ Loads(driver, driver', v, DriverBuffers)
               /\ tracker'.requests = tracker.requests
               /\ DOMAIN tracker'.streaming = DOMAIN tracker.streaming \cup {nextFrame}
               /\ tracker'.streaming[nextFrame] = v
               /\ \A g \in DOMAIN tracker.streaming :
                    g # nextFrame /\ tracker'.streaming[g] = tracker.streaming[g]
               /\ DOMAIN tracker'.bound = DOMAIN tracker.bound \cup {driver.nextToken}
               /\ tracker'.bound[driver.nextToken] = Context(nextFrame, Preview)
               /\ driver.nextToken \notin DOMAIN tracker.bound
               /\ \A y \in DOMAIN tracker.bound : tracker'.bound[y] = tracker.bound[y]
<1> DEFINE v == worker.lease
           x == driver.nextToken
           m == nextFrame
           c == Context(m, Preview)
<1>1. /\ worker.pc = "return" /\ lock = "free"
      /\ worker' = [worker EXCEPT !.pc = "ready", !.lease = NoBuffer]
      /\ UNCHANGED <<state, tasks, armed, control, frameworkVars, deliveryVars, boundVars>>
  BY DEF ReturnStreamBuffer
<1>2. /\ TrackerOK(tracker) /\ DriverOK(driver, DriverBuffers) /\ m \in Nat
      /\ x \in Nat \ {0} /\ WorkerOK(worker, driver) /\ v \in Previews /\ v \in DriverBuffers
  BY <1>1 DEF IInv, ThreadInv, Shape, DriverOK, MockOK, V4L2OK, DriverBuffers
<1>3. worker'.pc = "ready" /\ worker'.result = worker.result
  BY <1>1, <1>2 DEF WorkerOK
<1>4. CASE UNCHANGED <<driver, tracker>>
  BY <1>1, <1>2, <1>3, <1>4
<1>5. CASE state = "Streaming" /\ driver' \in ReturnFailures(driver, v) /\ UNCHANGED tracker
  <2>1. ~IsMock(driver)
    BY <1>5 DEF ReturnFailures
  <2>2. ~IsMock(driver) => Continuous(driver, driver.route[v])
    BY <1>1, <1>5, LeaseReturned
  <2> HIDE DEF v
  <2>3. driver' \in QueueFailures(driver, v)
    BY <1>2, <1>5, <2>1, <2>2, ReturnCases
  <2>4. LoadFails(driver, driver', v, DriverBuffers)
    BY <1>2, <2>3, QueueFails
  <2>5. LoadFailed(driver, driver', v)
    BY <2>4 DEF LoadFails, LoadFailed, SameFlags
  <2> QED BY <1>1, <1>2, <1>3, <1>5, <2>5 DEF v
<1>6. CASE /\ state = "Streaming" /\ CanReturn(driver, v) /\ driver' = Return(driver, v)
           /\ tracker' = BindDriverOutput(RegisterStreamingOutput(tracker, m, v),
                                          ReturnedToken(driver, v), c)
           /\ nextFrame' = m + 1
  <2>1. ~IsMock(driver) => Continuous(driver, driver.route[v])
    BY <1>1, <1>6, LeaseReturned
  <2> HIDE DEF v
  <2>2. /\ ReturnedToken(driver, v) = x
        /\ \/ IsMock(driver) /\ SameConfig(driver, driver')
           \/ Loads(driver, driver', v, DriverBuffers)
    <3>1. CASE IsMock(driver)
      BY <1>2, <1>6, <3>1, MockReturn
    <3>2. CASE ~IsMock(driver)
      <4>1. /\ ReturnedToken(driver, v) = x /\ CanQueue(driver, v)
            /\ Return(driver, v) = Queue(driver, v)
        BY <1>2, <1>6, <2>1, <3>2, ReturnCases
      <4>2. Loads(driver, driver', v, DriverBuffers)
        BY <1>2, <1>6, <4>1, QueueLoads
      <4> QED BY <4>1, <4>2
    <3> QED BY <3>1, <3>2
  <2> HIDE DEF x, m, c
  <2> DEFINE t == RegisterStreamingOutput(tracker, m, v)
             u == BindDriverOutput(t, x, c)
  <2>3. m \notin DOMAIN tracker.streaming
    BY <1>2, FramesOK DEF IInv, BindInv, m
  <2>4. /\ TrackerOK(t) /\ t.requests = tracker.requests /\ t.bound = tracker.bound
        /\ DOMAIN t.streaming = DOMAIN tracker.streaming \cup {m}
        /\ t.streaming[m] = v
        /\ \A g \in DOMAIN tracker.streaming : t.streaming[g] = tracker.streaming[g]
    BY <1>2, <2>3, RegisterStreamingIs
  <2>5. c \in ContextSet /\ x \notin DOMAIN tracker.bound
    BY <1>2 DEF c, x, Context, ContextSet, Preview, IInv, BindInv
  <2>6. tracker' = u
    BY <1>6, <2>2
  <2> HIDE DEF t
  <2>7. /\ u.requests = t.requests /\ u.streaming = t.streaming
        /\ DOMAIN u.bound = DOMAIN t.bound \cup {x} /\ u.bound[x] = c
        /\ \A y \in DOMAIN t.bound : u.bound[y] = t.bound[y]
    BY <1>2, <2>4, <2>5, BindIs
  <2> HIDE DEF u
  <2> QED BY <1>1, <1>2, <1>3, <1>6, <2>2, <2>3, <2>4, <2>5, <2>6, <2>7 DEF v, x, m, c
<1> QED BY <1>4, <1>5, <1>6 DEF ReturnStreamBuffer

\* A returned preview buffer does not touch the buffers of requests.
LEMMA OwnReturn ==
  ASSUME IInv, OwnershipInv, ReturnStreamBuffer
  PROVE  OwnershipInv'
<1> DEFINE v == worker.lease
           Nothing == UNCHANGED <<driver, tracker>>
           Mock1 == IsMock(driver) /\ SameConfig(driver, driver')
           Device1 == Loads(driver, driver', v, DriverBuffers) \/ LoadFailed(driver, driver', v)
<1>1. /\ worker.pc = "return" /\ v \in Previews
      /\ worker'.pc = "ready" /\ worker'.result = worker.result
      /\ UNCHANGED <<state, tasks, control, accepted, sub, results, held>>
      /\ tracker'.requests = tracker.requests
      /\ \A y \in DOMAIN tracker.bound :
           y \in DOMAIN tracker'.bound /\ tracker'.bound[y] = tracker.bound[y]
      /\ Nothing \/ Mock1 \/ Device1
  BY ReturnStreamBufferCases DEF frameworkVars, deliveryVars
<1>2. OwnInv'
  BY <1>1, OwnKept DEF OwnershipInv
<1>3. CASE Nothing
  BY <1>1, <1>2, <1>3, ThreadMoves
<1>4. CASE Mock1
  <2>1. IsMock(driver')
    BY <1>4 DEF SameConfig
  <2>2. SlotInv' /\ KernelInv'
    BY <2>1 DEF SlotInv, KernelInv
  <2>3. DeviceInv'
    BY <1>1, <2>1 DEF DeviceInv
  <2> QED BY <1>2, <2>2, <2>3 DEF OwnershipInv
<1>5. CASE Device1
  <2> HIDE DEF v
  <2>1. /\ SlotInv' /\ KernelInv' /\ SameConfig(driver, driver')
        /\ ~IsMock(driver) => \A e \in EventFds(driver) : Device(driver, e) => Device(driver', e)
    BY <1>1, <1>5, PreviewBesides
  <2>2. DeviceInv'
    BY <1>1, <2>1, DeviceKept DEF OwnershipInv
  <2> QED BY <1>2, <2>1, <2>2 DEF OwnershipInv
<1> QED BY <1>1, <1>3, <1>4, <1>5

-----------------------------------------------------------------------------
\* Every step of the session keeps the ownership of the buffers.
LEMMA OwnershipNext ==
  ASSUME DistinctFrames, SingleOutput, StreamOnGuarded, IInv, TallyInv, TallyInv',
         OwnershipInv, [Next]_vars
  PROVE  OwnershipInv'
<1>1. CASE UNCHANGED vars
  <2>1. UNCHANGED <<state, tracker, driver, worker, control, tasks, accepted, results, held, sub>>
    BY <1>1 DEF vars
  <2>2. OwnInv'
    BY <2>1, OwnKept DEF OwnershipInv
  <2> QED BY <2>1, <2>2, ThreadMoves
<1>2. CASE \E r \in Requests : ProcessCaptureRequest(r)
  BY <1>2, OwnProcess
<1>3. CASE PostRequest
  BY <1>3, OwnPost
<1>4. CASE ConfigureStreams \/ StartStreaming \/ Flush \/ Close
  BY <1>4, OwnConfigure, OwnStart, OwnFlush
<1>5. CASE ControlStep
  BY <1>5, OwnPreview, OwnIdle, OwnDispatchFlushed DEF ControlStep
<1>6. CASE WorkerStep
  BY <1>6, OwnPop, OwnSubmit, OwnQueueOutput, OwnDequeue, OwnComplete, OwnIdle, OwnReturn,
     OwnDispatch DEF WorkerStep
<1>7. CASE \E e \in Endpoints : OnDriverFdReady(e) \/ \E i \in Index : DeviceFills(e, i)
  BY <1>7, OwnFdReady, OwnFills
<1>8. CASE Sleep \/ Wake
  <2>1. UNCHANGED <<state, tracker, driver, worker, control, tasks, accepted, results, held, sub>>
    BY <1>8 DEF Sleep, Wake, sessionVars, frameworkVars, deliveryVars
  <2>2. OwnInv'
    BY <2>1, OwnKept DEF OwnershipInv
  <2> QED BY <2>1, <2>2, ThreadMoves
<1> QED BY <1>1, <1>2, <1>3, <1>4, <1>5, <1>6, <1>7, <1>8 DEF Next

\* README, DMA Buffer Ownership: a buffer that the framework holds is not in the
\* hands of the driver.  From submission to result, through completion, failure,
\* flush and close, on every backend whose failures are not of the two kinds that
\* SingleOutput and StreamOnGuarded leave out.
THEOREM NoReturnWhileQueuedAlways ==
  ASSUME DistinctFrames, SingleOutput, StreamOnGuarded
  PROVE  Spec => []NoReturnWhileQueued
<1> DEFINE J == IInv /\ TallyInv /\ OwnershipInv
<1>1. Init => J
  BY InitInv, TallyInit, OwnershipInit
<1>2. J /\ [Next]_vars => J'
  <2> SUFFICES ASSUME J, [Next]_vars PROVE J'
    OBVIOUS
  <2>1. IInv'
    BY NextInv
  <2>2. TallyInv'
    BY TallyNext
  <2>3. OwnershipInv'
    BY <2>2, OwnershipNext
  <2> QED BY <2>1, <2>2, <2>3
<1>3. J => NoReturnWhileQueued
  BY NotHeld DEF OwnershipInv
<1> QED BY <1>1, <1>2, <1>3, PTL DEF Spec

-----------------------------------------------------------------------------
(***************************************************************************)
(* Who owns a preview buffer.  In a session that is started once, the      *)
(* device does not have the buffer the application's callback reads, on    *)
(* any backend and with any failure of it: every preview buffer the device *)
(* has is the buffer of a preview row, and the row of a lease is gone.     *)
(***************************************************************************)

\* The session is started once: a second start queues every preview buffer,
\* the one the callback reads too.
OneStart == MaxStarts <= 1

\* continuous_preview_buffers names no buffer twice.
DistinctPreviews ==
  \A j, k \in DOMAIN PreviewBuffers : PreviewBuffers[j] = PreviewBuffers[k] => j = k

\* No preview frame has been registered yet, and none will be.
NotStarted == starts = 0 \/ control.pc = "preview" \/ state = "Error"

\* Entry i at endpoint e is the buffer of a preview row, or of one to be.
Tracked(d, t, c, e, i) ==
  LET x == Slot(d, e, i)
      b == t.bound[x] IN
  \/ /\ c.pc = "preview"
     /\ \E j \in DOMAIN c.tokens : c.tokens[j] = x /\ PreviewBuffers[j] = Kernel(d, e, i)
  \/ /\ x \in DOMAIN t.bound /\ b.index = Preview
     /\ b.frame \in DOMAIN t.streaming /\ t.streaming[b.frame] = Kernel(d, e, i)

StartInv ==
  /\ state = "Created" => starts = 0
  /\ starts = 0 => control.pc # "preview" /\ state # "Streaming"
  /\ NotStarted => DOMAIN tracker.streaming = {} /\ worker.pc \notin {"callback", "return"}

\* A buffer has one preview row at most, and none while it is leased.
LeaseInv ==
  /\ \A f, g \in DOMAIN tracker.streaming : tracker.streaming[f] = tracker.streaming[g] => f = g
  /\ worker.pc \in {"callback", "return"} =>
       \A f \in DOMAIN tracker.streaming : tracker.streaming[f] # worker.lease

\* What the kernel has of the previews is tracked, on a started device, unless
\* the start failed.
EntryInv ==
  ~IsMock(driver) => \A e \in EventFds(driver) : \A i \in Index :
    Kernel(driver, e, i) \in Previews =>
      /\ starts # 0
      /\ state # "Error" => Device(driver, e) /\ Tracked(driver, tracker, control, e, i)

PreviewLeaseInv == SlotInv /\ DeviceInv /\ StartInv /\ LeaseInv /\ EntryInv

-----------------------------------------------------------------------------
\* The invariant gives the property: a preview buffer the device has is that of
\* a preview row, and a leased buffer has none.
LEMMA LeaseNotHeld ==
  ASSUME IInv, PreviewLeaseInv
  PROVE  PreviewExclusive
<1> SUFFICES ASSUME worker.pc = "callback", worker.lease \in Held(driver) PROVE FALSE
  BY DEF PreviewExclusive
<1> DEFINE v == worker.lease
<1>1. v \in Previews
  BY DEF IInv, ThreadInv
<1>2. ~IsMock(driver) /\ \E e \in EventFds(driver) : \E i \in Index : Kernel(driver, e, i) = v
  BY HeldIsKernel
<1>3. PICK e \in EventFds(driver) : \E i \in Index : Kernel(driver, e, i) = v
  BY <1>2
<1>4. PICK i \in Index : Kernel(driver, e, i) = v
  BY <1>3
<1>5. ~NotStarted
  BY DEF PreviewLeaseInv, StartInv
<1>6. Tracked(driver, tracker, control, e, i)
  BY <1>1, <1>2, <1>4, <1>5 DEF PreviewLeaseInv, EntryInv, NotStarted
<1>7. \E f \in DOMAIN tracker.streaming : tracker.streaming[f] = v
  BY <1>4, <1>5, <1>6 DEF Tracked, NotStarted
<1> QED BY <1>7 DEF PreviewLeaseInv, LeaseInv

\* A new session has no preview row and its device no buffer.
LEMMA LeaseInit == ASSUME Init PROVE PreviewLeaseInv
<1>1. /\ worker = IdleWorker /\ control = IdleControl /\ tracker = EmptyTracker
      /\ state = "Created" /\ starts = 0
  BY DEF Init
<1>2. /\ worker.pc = "idle" /\ control.pc = "idle" /\ tracker.streaming = <<>>
  BY <1>1 DEF IdleWorker, IdleControl, EmptyTracker
<1>3. DOMAIN tracker.streaming = {}
  BY <1>2, EmptyTable
<1>4. StartInv /\ LeaseInv
  BY <1>1, <1>2, <1>3 DEF StartInv, LeaseInv
<1>5. PICK c \in Backends : driver = ClosedDriver(c)
  BY DEF Init
<1>6. NoBuffer \in DriverBuffers /\ DOMAIN c.route = DriverBuffers
  BY SessionAssumption DEF DriverBuffers
<1>7. ~IsMock(driver) => \A e \in EventFds(driver) : \A i \in Index :
        Kernel(driver, e, i) = NoBuffer
  BY <1>5, <1>6, ClosedDriverOK
<1>8. EntryInv
  BY <1>7, SessionAssumption DEF EntryInv
<1> QED BY <1>4, <1>8, OwnershipInit DEF PreviewLeaseInv, OwnershipInv

-----------------------------------------------------------------------------
\* Every preview buffer the kernel has after the step it had before, in the same
\* entry.
PreviewEntriesKept ==
  /\ SameConfig(driver, driver')
  /\ ~IsMock(driver) => \A e \in EventFds(driver) : \A i \in Index :
       Kernel(driver', e, i) \in Previews =>
         /\ Slot(driver', e, i) = Slot(driver, e, i)
         /\ Kernel(driver', e, i) = Kernel(driver, e, i)
         /\ Device(driver, e) => Device(driver', e)

\* Steps that register and complete no preview frame.
LEMMA PreviewsKept ==
  ASSUME PreviewLeaseInv, PreviewEntriesKept, UNCHANGED <<state, starts>>,
         tracker'.streaming = tracker.streaming,
         \A x \in DOMAIN tracker.bound : tracker.bound[x].index = Preview =>
           x \in DOMAIN tracker'.bound /\ tracker'.bound[x] = tracker.bound[x],
         (control'.pc = "preview") = (control.pc = "preview"),
         control'.tokens = control.tokens,
         worker'.pc \in {"callback", "return"} =>
           worker.pc \in {"callback", "return"} /\ worker'.lease = worker.lease
  PROVE  StartInv' /\ LeaseInv' /\ EntryInv'
<1>1. (IsMock(driver') <=> IsMock(driver)) /\ EventFds(driver') = EventFds(driver)
  BY DEF PreviewEntriesKept, SameConfig, EventFds
<1>2. NotStarted' <=> NotStarted
  BY DEF NotStarted
<1>3. StartInv' /\ LeaseInv'
  BY <1>2 DEF PreviewLeaseInv, StartInv, LeaseInv
<1>4. ASSUME ~IsMock(driver), NEW e \in EventFds(driver), NEW i \in Index,
             Kernel(driver', e, i) \in Previews
      PROVE  /\ starts # 0
             /\ state # "Error" => Device(driver', e) /\ Tracked(driver', tracker', control', e, i)
  <2>1. /\ Slot(driver', e, i) = Slot(driver, e, i)
        /\ Kernel(driver', e, i) = Kernel(driver, e, i)
        /\ Device(driver, e) => Device(driver', e)
    BY <1>4 DEF PreviewEntriesKept
  <2>2. /\ starts # 0
        /\ state # "Error" => Device(driver, e) /\ Tracked(driver, tracker, control, e, i)
    BY <1>4, <2>1 DEF PreviewLeaseInv, EntryInv
  <2>3. Tracked(driver, tracker, control, e, i) => Tracked(driver', tracker', control', e, i)
    BY <2>1 DEF Tracked
  <2> QED BY <2>1, <2>2, <2>3
<1>5. EntryInv'
  BY <1>1, <1>4 DEF EntryInv
<1> QED BY <1>3, <1>5

\* Calls that draw no token and move no buffer.
LEMMA CalmKept ==
  ASSUME SameConfig(driver, driver'),
         ~IsMock(driver) => /\ SameEntries(driver, driver')
                            /\ \A e \in EventFds(driver) : Device(driver', e) = Device(driver, e)
  PROVE  /\ PreviewEntriesKept
         /\ ~IsMock(driver) => \A e \in EventFds(driver) : \A i \in Index :
              Slot(driver', e, i) \in {0, Slot(driver, e, i)}
         /\ ~IsMock(driver) => \A e \in EventFds(driver) : Device(driver, e) => Device(driver', e)
  BY DEF PreviewEntriesKept, SameEntries

\* Steps of the threads besides the driver.
LEMMA LeaseBesides ==
  ASSUME IInv, PreviewLeaseInv, UNCHANGED <<state, driver, starts>>,
         tracker'.streaming = tracker.streaming,
         \A x \in DOMAIN tracker.bound : tracker.bound[x].index = Preview =>
           x \in DOMAIN tracker'.bound /\ tracker'.bound[x] = tracker.bound[x],
         (control'.pc = "preview") = (control.pc = "preview"),
         control'.tokens = control.tokens,
         worker' = worker \/
           /\ worker'.pc # "complete"
           /\ worker'.pc = "queue" => state = "Streaming"
           /\ worker'.pc \in {"callback", "return"} =>
                worker.pc \in {"callback", "return"} /\ worker'.lease = worker.lease
  PROVE  PreviewLeaseInv'
<1>1. SameConfig(driver, driver') /\ SameEntries(driver, driver')
      /\ (\A e : Device(driver', e) = Device(driver, e)) /\ driver.nextToken \in Nat
  BY DEF SameConfig, SameEntries, IsMock, IInv, Shape, DriverOK, MockOK, V4L2OK
<1>2. /\ PreviewEntriesKept
      /\ ~IsMock(driver) => \A e \in EventFds(driver) : \A i \in Index :
           Slot(driver', e, i) \in {0, Slot(driver, e, i)}
  BY <1>1, CalmKept
<1>3. SlotInv'
  BY <1>1, <1>2, SlotKept DEF PreviewLeaseInv
<1>4. DeviceInv'
  BY DEF PreviewLeaseInv, DeviceInv
<1>5. worker'.pc \in {"callback", "return"} =>
        worker.pc \in {"callback", "return"} /\ worker'.lease = worker.lease
  OBVIOUS
<1>6. StartInv' /\ LeaseInv' /\ EntryInv'
  BY <1>2, <1>5, PreviewsKept
<1> QED BY <1>3, <1>4, <1>6 DEF PreviewLeaseInv

\* The framework's calls, the event loop and the callbacks.
LEMMA LeaseThreads ==
  ASSUME IInv, PreviewLeaseInv,
         \/ \E r \in Requests : ProcessCaptureRequest(r)
         \/ PostRequest \/ UnregisterSession \/ DispatchFlushed
         \/ \E e \in Endpoints : OnDriverFdReady(e)
         \/ PopTask \/ StreamCallbackReturns \/ DispatchResult \/ RearmFd
  PROVE  PreviewLeaseInv'
<1>1. UNCHANGED <<state, driver, starts, tracker>>
  BY DEF ProcessCaptureRequest, PostRequest, UnregisterSession, DispatchFlushed,
         OnDriverFdReady, PopTask, StreamCallbackReturns, DispatchResult, RearmFd,
         sessionVars, boundVars
<1>2. WorkerOK(worker, driver) /\ ControlOK(control)
  BY DEF IInv, Shape
<1>3. /\ (control'.pc = "preview") = (control.pc = "preview")
      /\ control'.tokens = control.tokens
  <2>1. CASE UnregisterSession
    BY <1>2, <2>1 DEF UnregisterSession, ControlOK
  <2>2. CASE DispatchFlushed
    BY <1>2, <2>2, IdleControlOK DEF DispatchFlushed, IInv, ThreadInv
  <2>3. CASE control' = control
    BY <2>3
  <2> QED BY <2>1, <2>2, <2>3 DEF ProcessCaptureRequest, PostRequest, OnDriverFdReady, PopTask,
                                  StreamCallbackReturns, DispatchResult, RearmFd
<1>4. \/ worker' = worker
      \/ /\ worker'.pc \notin {"complete", "queue"}
         /\ worker'.pc \in {"callback", "return"} =>
              worker.pc \in {"callback", "return"} /\ worker'.lease = worker.lease
  <2>1. CASE PopTask
    <3>1. worker'.pc \in {"ready", "submit"}
      BY <2>1 DEF PopTask, IdleWorker
    <3> QED BY <3>1
  <2>2. CASE StreamCallbackReturns
    BY <1>2, <2>2 DEF StreamCallbackReturns, WorkerOK
  <2>3. CASE DispatchResult
    <3>1. worker'.pc \in {"ready", "idle"}
      BY <1>2, <2>3, IdleWorkerOK DEF DispatchResult, WorkerOK
    <3> QED BY <3>1
  <2>4. CASE RearmFd
    <3>1. worker'.pc = "idle"
      BY <2>4, IdleWorkerOK DEF RearmFd
    <3> QED BY <3>1
  <2>5. CASE worker' = worker
    BY <2>5
  <2> QED BY <2>1, <2>2, <2>3, <2>4, <2>5 DEF ProcessCaptureRequest, PostRequest,
             UnregisterSession, DispatchFlushed, OnDriverFdReady
<1> QED BY <1>1, <1>3, <1>4, LeaseBesides

\* A request is answered, or its row started: previews have other frame numbers.
LEMMA LeaseSubmit ==
  ASSUME IInv, PreviewLeaseInv, SubmitCaptureRequest
  PROVE  PreviewLeaseInv'
<1> DEFINE r == worker.request
           g == r.frame
           o == OutputsOf(r)
<1>1. /\ worker.pc = "submit" /\ UNCHANGED <<state, driver, control, starts>>
  BY DEF SubmitCaptureRequest, boundVars
<1>2. TrackerOK(tracker) /\ WorkerOK(worker, driver) /\ r \in Requests
  BY <1>1 DEF IInv, ThreadInv, Shape
<1>3. g \in Frames /\ o \in OutputSet /\ g < StreamBase /\ g \in Nat
  BY <1>2, RequestOK
<1>4. \A x \in DOMAIN tracker.bound : tracker.bound[x].index = Preview =>
        tracker.bound[x].frame # g
  <2> TAKE x \in DOMAIN tracker.bound
  <2>1. tracker.bound[x].index = Preview => StreamBase <= tracker.bound[x].frame
    BY BoundFrame
  <2>2. tracker.bound[x].frame \in Nat /\ StreamBase \in Nat
    BY <1>2, FramesOK DEF TrackerOK, ContextSet
  <2> QED BY <1>3, <2>1, <2>2
<1>5. /\ tracker'.streaming = tracker.streaming
      /\ \A x \in DOMAIN tracker.bound : tracker.bound[x].frame # g =>
           x \in DOMAIN tracker'.bound /\ tracker'.bound[x] = tracker.bound[x]
  <2> HIDE DEF g, o
  <2>1. CASE tracker' = tracker
    BY <2>1
  <2>2. CASE tracker' = FailedTracker(tracker, g)
    BY <1>2, <2>2, FailedTrackerIs
  <2>3. CASE tracker' = Start(tracker, g, o)
    BY <1>2, <1>3, <2>3, StartIs
  <2> QED BY <2>1, <2>2, <2>3 DEF SubmitCaptureRequest, g, o
<1>6. worker'.pc \in {"dispatch", "queue"} /\ (worker'.pc = "queue" => state = "Streaming")
  BY <1>2 DEF SubmitCaptureRequest, WorkerOK
<1> HIDE DEF g
<1>7. \A x \in DOMAIN tracker.bound : tracker.bound[x].index = Preview =>
        x \in DOMAIN tracker'.bound /\ tracker'.bound[x] = tracker.bound[x]
  BY <1>4, <1>5
<1> QED BY <1>1, <1>5, <1>6, <1>7, LeaseBesides

\* A filled buffer stays with the device.
LEMMA LeaseFills ==
  ASSUME IInv, PreviewLeaseInv, NEW e \in Endpoints, NEW i \in Index, DeviceFills(e, i)
  PROVE  PreviewLeaseInv'
<1>1. /\ UNCHANGED <<state, tracker, control, worker, starts>>
      /\ e \in EventFds(driver) /\ CanFill(driver, e, i) /\ driver' = Fill(driver, e, i)
  BY DEF DeviceFills
<1>2. Quiet(driver, driver', DriverBuffers)
  BY <1>1, FillQuiet DEF IInv, Shape
<1>3. /\ SameConfig(driver, driver') /\ driver'.nextToken = driver.nextToken
      /\ ~IsMock(driver) => /\ SameEntries(driver, driver')
                            /\ \A a \in EventFds(driver) : Device(driver', a) = Device(driver, a)
  BY <1>2 DEF Quiet, SameFlags
<1>4. /\ PreviewEntriesKept
      /\ ~IsMock(driver) => \A a \in EventFds(driver) : \A j \in Index :
           Slot(driver', a, j) \in {0, Slot(driver, a, j)}
      /\ ~IsMock(driver) => \A a \in EventFds(driver) : Device(driver, a) => Device(driver', a)
  BY <1>3, CalmKept
<1>5. driver'.nextToken \in Nat /\ driver.nextToken <= driver'.nextToken
  BY <1>3 DEF IInv, Shape, DriverOK, MockOK, V4L2OK
<1>6. SlotInv' /\ DeviceInv'
  BY <1>1, <1>3, <1>4, <1>5, SlotKept, DeviceKept DEF PreviewLeaseInv
<1>7. StartInv' /\ LeaseInv' /\ EntryInv'
  BY <1>1, <1>4, PreviewsKept
<1> QED BY <1>6, <1>7 DEF PreviewLeaseInv

-----------------------------------------------------------------------------
\* Before the first start no preview buffer was queued, and none was leased.
LEMMA NothingBeforeStart ==
  ASSUME PreviewLeaseInv, starts = 0
  PROVE  /\ DOMAIN tracker.streaming = {} /\ worker.pc \notin {"callback", "return"}
         /\ ~IsMock(driver) => \A e \in EventFds(driver) : \A i \in Index :
              Kernel(driver, e, i) \notin Previews
  BY DEF PreviewLeaseInv, StartInv, EntryInv, NotStarted

\* configure_streams opens the driver of a session that was never started.
LEMMA LeaseConfigure ==
  ASSUME IInv, PreviewLeaseInv, ConfigureStreams
  PROVE  PreviewLeaseInv'
<1>1. /\ UNCHANGED <<tracker, control, worker, starts>> /\ control.pc = "idle"
      /\ lock = "free" /\ state = "Created" /\ state' \in {"Configured", "Error"}
      /\ driver' \in {driver, OpenDriver(driver)}
  BY DEF ConfigureStreams, boundVars
<1>2. DriverOK(driver, DriverBuffers) /\ worker.pc # "queue"
  BY <1>1 DEF IInv, Shape, ThreadInv
<1>3. Quiet(driver, driver, DriverBuffers)
  BY <1>2 DEF Quiet, SameConfig, KeepsOwed, SameEntries, SameFlags, IsMock
<1>4. Quiet(driver, driver', DriverBuffers)
  BY <1>1, <1>2, <1>3, OpenDriverQuiet
<1>5. /\ SameConfig(driver, driver') /\ driver'.nextToken = driver.nextToken
      /\ ~IsMock(driver) => /\ SameEntries(driver, driver')
                            /\ \A a \in EventFds(driver) : Device(driver', a) = Device(driver, a)
  BY <1>4 DEF Quiet, SameFlags
<1>6. /\ PreviewEntriesKept
      /\ ~IsMock(driver) => \A a \in EventFds(driver) : \A j \in Index :
           Slot(driver', a, j) \in {0, Slot(driver, a, j)}
      /\ ~IsMock(driver) => \A a \in EventFds(driver) : Device(driver, a) => Device(driver', a)
  BY <1>5, CalmKept
<1>7. driver'.nextToken \in Nat /\ driver.nextToken <= driver'.nextToken
  BY <1>2, <1>5 DEF DriverOK, MockOK, V4L2OK
<1>8. SlotInv'
  BY <1>1, <1>5, <1>6, <1>7, SlotKept DEF PreviewLeaseInv
<1>9. DeviceInv'
  BY <1>1, <1>2, <1>5, <1>6, DeviceKept DEF PreviewLeaseInv
<1>10. starts = 0
  BY <1>1 DEF PreviewLeaseInv, StartInv
<1>11. /\ DOMAIN tracker.streaming = {} /\ worker.pc \notin {"callback", "return"}
       /\ ~IsMock(driver) => \A e \in EventFds(driver) : \A i \in Index :
            Kernel(driver, e, i) \notin Previews
  BY <1>10, NothingBeforeStart
<1>12. StartInv' /\ LeaseInv'
  BY <1>1, <1>10, <1>11 DEF StartInv, LeaseInv
<1>13. EntryInv'
  <2>1. (IsMock(driver') <=> IsMock(driver)) /\ EventFds(driver') = EventFds(driver)
    BY <1>5 DEF SameConfig, EventFds
  <2> QED BY <1>5, <1>11, <2>1 DEF EntryInv, SameEntries
<1> QED BY <1>8, <1>9, <1>12, <1>13 DEF PreviewLeaseInv

\* The one start: the device has no preview buffer yet.
LEMMA LeaseStart ==
  ASSUME OneStart, IInv, PreviewLeaseInv, StartStreaming
  PROVE  PreviewLeaseInv'
<1>1. /\ UNCHANGED <<tracker, worker>> /\ starts < MaxStarts /\ starts' = starts + 1
      /\ lock = "free" /\ control.pc = "idle" /\ state = "Configured"
      /\ \/ PreviewBuffers = <<>> /\ control' = control /\ state' = "Streaming"
         \/ state' = state /\ control' = [control EXCEPT !.pc = "preview"]
  BY DEF StartStreaming
<1>2. /\ control'.tokens = control.tokens /\ control.tokens = <<>> /\ worker.pc # "queue"
      /\ starts \in Nat /\ MaxStarts \in Nat
  BY <1>1, SessionAssumption DEF IInv, Shape, ControlOK, ThreadInv
<1>3. starts = 0 /\ starts' # 0
  BY <1>1, <1>2 DEF OneStart
<1>4. /\ DOMAIN tracker.streaming = {} /\ worker.pc \notin {"callback", "return"}
      /\ ~IsMock(driver) => \A e \in EventFds(driver) : \A i \in Index :
           Kernel(driver, e, i) \notin Previews
  BY <1>3, NothingBeforeStart
<1>5. /\ SameConfig(driver, driver') /\ driver'.nextToken = driver.nextToken
      /\ ~IsMock(driver) => /\ SameEntries(driver, driver')
                            /\ \A a \in EventFds(driver) : Device(driver', a) = Device(driver, a)
  BY StartIsCalm
<1>6. /\ ~IsMock(driver) => \A a \in EventFds(driver) : \A j \in Index :
           Slot(driver', a, j) \in {0, Slot(driver, a, j)}
      /\ ~IsMock(driver) => \A a \in EventFds(driver) : Device(driver, a) => Device(driver', a)
  BY <1>5, CalmKept
<1>7. driver'.nextToken \in Nat /\ driver.nextToken <= driver'.nextToken
  BY <1>5 DEF IInv, Shape, DriverOK, MockOK, V4L2OK
<1>8. SlotInv'
  BY <1>1, <1>5, <1>6, <1>7, SlotKept DEF PreviewLeaseInv
<1>9. DeviceInv'
  <2>1. CASE PreviewBuffers = <<>>
    BY <1>1, <1>2, <2>1 DEF DeviceInv
  <2>2. CASE PreviewBuffers # <<>>
    BY <1>1, <1>2, <1>5, <1>6, <2>2, DeviceKept DEF PreviewLeaseInv
  <2> QED BY <2>1, <2>2
<1>10. StartInv' /\ LeaseInv'
  BY <1>1, <1>3, <1>4 DEF StartInv, LeaseInv
<1>11. EntryInv'
  <2>1. (IsMock(driver') <=> IsMock(driver)) /\ EventFds(driver') = EventFds(driver)
    BY <1>5 DEF SameConfig, EventFds
  <2> QED BY <1>4, <1>5, <2>1 DEF EntryInv, SameEntries
<1> QED BY <1>8, <1>9, <1>10, <1>11 DEF PreviewLeaseInv

\* Flush and close: the device has given up every preview buffer, and every
\* preview row is gone; a lease may still be with the callback.
LEMMA LeaseStopped ==
  ASSUME IInv, PreviewLeaseInv, control.pc = "idle", lock = "free",
         Stopped(driver, driver', DriverBuffers),
         ~IsMock(driver) => \A e \in EventFds(driver) : \A i \in Index :
           Kernel(driver', e, i) \notin Previews,
         DOMAIN tracker'.streaming = {},
         state' \in {"Configured", "Stopped"},
         control'.pc # "preview", control'.tokens = control.tokens,
         UNCHANGED <<worker, starts>>
  PROVE  PreviewLeaseInv'
<1>1. /\ SameConfig(driver, driver') /\ driver'.nextToken = driver.nextToken
      /\ ~IsMock(driver) => \A e \in EventFds(driver) : \A i \in Index : Slot(driver', e, i) = 0
  BY DEF Stopped
<1>2. /\ driver'.nextToken \in Nat /\ driver.nextToken <= driver'.nextToken
      /\ worker.pc # "queue" /\ control.tokens = <<>>
  BY <1>1 DEF IInv, Shape, DriverOK, MockOK, V4L2OK, ThreadInv
<1>3. SlotInv'
  BY <1>1, <1>2, SlotKept DEF PreviewLeaseInv
<1>4. DeviceInv'
  BY <1>2 DEF DeviceInv
<1>5. NotStarted' => NotStarted
  BY DEF NotStarted
<1>6. StartInv' /\ LeaseInv'
  BY <1>5 DEF PreviewLeaseInv, StartInv, LeaseInv
<1>7. (IsMock(driver') <=> IsMock(driver)) /\ EventFds(driver') = EventFds(driver)
  BY <1>1 DEF SameConfig, EventFds
<1>8. EntryInv'
  BY <1>7 DEF EntryInv
<1> QED BY <1>3, <1>4, <1>6, <1>8 DEF PreviewLeaseInv

\* flush and close; the nodes a flush stops are those that were started.
LEMMA LeaseFlush ==
  ASSUME IInv, PreviewLeaseInv, Flush \/ Close
  PROVE  PreviewLeaseInv'
<1>1. DriverOK(driver, DriverBuffers) /\ ControlOK(control) /\ TrackerOK(tracker)
      /\ NoBuffer \notin Previews
  BY SessionAssumption DEF IInv, Shape
<1>2. /\ control.pc = "idle" /\ lock = "free" /\ UNCHANGED <<worker, starts>>
      /\ tracker' = ClearStreamingOutputs(FlushAll(tracker))
      /\ state' \in {"Configured", "Stopped"}
      /\ \E p \in {"dispatch", "unregister"} :
           control' = [control EXCEPT !.pc = p, !.results = Flushed]
  BY DEF Flush, Close, boundVars
<1>3. DOMAIN tracker'.streaming = {}
  <2>1. tracker'.streaming = <<>>
    BY <1>1, <1>2 DEF ClearStreamingOutputs, FlushAll, TrackerOK
  <2> QED BY <2>1, EmptyTable
<1>4. control'.pc # "preview" /\ control'.tokens = control.tokens
  BY <1>1, <1>2 DEF ControlOK
<1>5. CASE Flush
  <2>1. state # "Error" /\ driver' = StopDriver(driver)
    BY <1>5 DEF Flush
  <2>2. Stopped(driver, driver', DriverBuffers)
    BY <1>1, <2>1, StopDriverStops
  <2>3. ASSUME ~IsMock(driver), NEW e \in EventFds(driver), NEW i \in Index,
               Kernel(driver', e, i) \in Previews
        PROVE  FALSE
    <3>1. Kernel(driver', e, i) = Kernel(driver, e, i) /\ ~Device(driver, e)
      BY <1>1, <2>2, <2>3 DEF Stopped
    <3> QED BY <2>1, <2>3, <3>1 DEF PreviewLeaseInv, EntryInv
  <2> QED BY <1>2, <1>3, <1>4, <2>2, <2>3, LeaseStopped
<1>6. CASE Close
  <2>1. driver' = CloseDriver(driver)
    BY <1>6 DEF Close
  <2>2. /\ Stopped(driver, driver', DriverBuffers)
        /\ ~IsMock(driver) => \A e \in EventFds(driver) : \A i \in Index :
             Kernel(driver', e, i) = NoBuffer
    BY <1>1, <2>1, CloseDriverStops
  <2> QED BY <1>1, <1>2, <1>3, <1>4, <2>2, LeaseStopped
<1> QED BY <1>5, <1>6

-----------------------------------------------------------------------------
\* A buffer is queued, or not: slots stay distinct and no device stops.
LEMMA LoadKeepsSlots ==
  ASSUME IInv, SlotInv, NEW b \in DriverBuffers,
         Loads(driver, driver', b, DriverBuffers) \/ LoadFailed(driver, driver', b),
         worker' = worker \/ worker'.pc # "complete"
  PROVE  /\ SlotInv' /\ SameConfig(driver, driver')
         /\ ~IsMock(driver) => \A e \in EventFds(driver) : Device(driver, e) => Device(driver', e)
<1>1. CASE Loads(driver, driver', b, DriverBuffers)
  BY <1>1, SlotLoaded DEF Loads
<1>2. CASE LoadFailed(driver, driver', b)
  <2>1. driver.nextToken \in Nat
    BY DEF IInv, Shape, DriverOK, MockOK, V4L2OK
  <2>2. /\ SameConfig(driver, driver')
        /\ driver'.nextToken \in Nat /\ driver.nextToken <= driver'.nextToken
    BY <1>2, <2>1 DEF LoadFailed
  <2>3. ~IsMock(driver) => \A e \in EventFds(driver) : \A i \in Index :
          Slot(driver', e, i) \in {0, Slot(driver, e, i)}
    BY <1>2 DEF LoadFailed, SetsEntry, SameEntries
  <2>4. SlotInv'
    BY <2>2, <2>3, SlotKept
  <2> QED BY <1>2, <2>2, <2>4 DEF LoadFailed
<1> QED BY <1>1, <1>2

\* What a successful QBUF leaves: the new entry, and the others as they were.
LEMMA LoadedEntry ==
  ASSUME NEW b, Loads(driver, driver', b, DriverBuffers), ~IsMock(driver),
         NEW e \in EventFds(driver), NEW i \in Index
  PROVE  \/ /\ Slot(driver', e, i) = driver.nextToken /\ Kernel(driver', e, i) = b
            /\ Device(driver', e)
         \/ /\ Slot(driver', e, i) = Slot(driver, e, i)
            /\ Kernel(driver', e, i) = Kernel(driver, e, i)
            /\ Device(driver, e) => Device(driver', e)
  BY DEF Loads, SetsEntry

\* A start with preview buffers left to queue.
LEMMA LeasePreviewQueued ==
  ASSUME IInv, PreviewLeaseInv, control.pc = "preview",
         NEW k, k = Len(control.tokens) + 1,
         NEW v \in Previews, v = PreviewBuffers[k],
         Loads(driver, driver', v, DriverBuffers),
         control' = [control EXCEPT !.tokens = Append(control.tokens, driver.nextToken)],
         UNCHANGED <<state, tracker, worker, starts>>
  PROVE  StartInv' /\ LeaseInv' /\ EntryInv'
<1>1. ControlOK(control) /\ driver.nextToken \in Nat /\ state # "Error" /\ starts # 0
      /\ (IsMock(driver') <=> IsMock(driver)) /\ EventFds(driver') = EventFds(driver)
  BY DEF IInv, ThreadInv, Shape, DriverOK, MockOK, V4L2OK, PreviewLeaseInv, StartInv, Loads,
         SameConfig, EventFds
<1>2. /\ control'.pc = "preview"
      /\ control'.tokens = Append(control.tokens, driver.nextToken)
      /\ control.tokens \in Seq(Nat)
  BY <1>1 DEF ControlOK
<1>3. /\ k \in DOMAIN control'.tokens /\ control'.tokens[k] = driver.nextToken
      /\ \A j \in DOMAIN control.tokens :
           j \in DOMAIN control'.tokens /\ control'.tokens[j] = control.tokens[j]
  BY <1>1, <1>2
<1>4. DOMAIN tracker.streaming = {} /\ worker.pc \notin {"callback", "return"}
  BY DEF PreviewLeaseInv, StartInv, NotStarted
<1>5. StartInv' /\ LeaseInv'
  BY <1>1, <1>2, <1>4 DEF PreviewLeaseInv, StartInv, LeaseInv
<1>6. ASSUME ~IsMock(driver), NEW e \in EventFds(driver), NEW i \in Index,
             Kernel(driver', e, i) \in Previews
      PROVE  Device(driver', e) /\ Tracked(driver', tracker', control', e, i)
  <2>1. CASE /\ Slot(driver', e, i) = driver.nextToken /\ Kernel(driver', e, i) = v
             /\ Device(driver', e)
    BY <1>2, <1>3, <2>1 DEF Tracked
  <2>2. CASE /\ Slot(driver', e, i) = Slot(driver, e, i)
             /\ Kernel(driver', e, i) = Kernel(driver, e, i)
             /\ Device(driver, e) => Device(driver', e)
    <3>1. Device(driver, e) /\ Tracked(driver, tracker, control, e, i)
      BY <1>1, <1>6, <2>2 DEF PreviewLeaseInv, EntryInv
    <3>2. \E j \in DOMAIN control.tokens :
            control.tokens[j] = Slot(driver, e, i) /\ PreviewBuffers[j] = Kernel(driver, e, i)
      BY <1>4, <3>1 DEF Tracked
    <3>3. \E j \in DOMAIN control'.tokens :
            control'.tokens[j] = Slot(driver', e, i) /\ PreviewBuffers[j] = Kernel(driver', e, i)
      BY <1>3, <2>2, <3>2
    <3> QED BY <1>2, <2>2, <3>1, <3>3 DEF Tracked
  <2> QED BY <1>6, <2>1, <2>2, LoadedEntry
<1>7. EntryInv'
  BY <1>1, <1>6 DEF EntryInv
<1> QED BY <1>5, <1>7

\* The last preview buffer of a start: the rows appear.
LEMMA LeasePreviewsStarted ==
  ASSUME DistinctPreviews, IInv, PreviewLeaseInv, control.pc = "preview",
         NEW k \in Nat \ {0}, DOMAIN PreviewBuffers = 1..k, NEW tokens,
         Loads(driver, driver', PreviewBuffers[k], DriverBuffers),
         tokens[k] = driver.nextToken,
         \A j \in DOMAIN control.tokens : j \in 1..k /\ tokens[j] = control.tokens[j],
         PreviewRows(tracker, tracker', nextFrame, k, tokens),
         state' = "Streaming", control' = IdleControl,
         UNCHANGED <<worker, starts>>
  PROVE  StartInv' /\ LeaseInv' /\ EntryInv'
<1>1. nextFrame \in Nat /\ state # "Error" /\ starts # 0
      /\ (IsMock(driver') <=> IsMock(driver)) /\ EventFds(driver') = EventFds(driver)
  BY DEF IInv, ThreadInv, Shape, PreviewLeaseInv, StartInv, Loads, SameConfig, EventFds
<1>2. DOMAIN tracker.streaming = {} /\ worker.pc \notin {"callback", "return"}
  BY DEF PreviewLeaseInv, StartInv, NotStarted
<1>3. /\ DOMAIN tracker'.streaming = {nextFrame + j - 1 : j \in 1..k} /\ k \in 1..k
      /\ \A j \in 1..k : tracker'.streaming[nextFrame + j - 1] = PreviewBuffers[j]
      /\ \A j \in 1..k : tokens[j] \in DOMAIN tracker'.bound
      /\ \A j \in 1..k : tracker'.bound[tokens[j]] = Context(nextFrame + j - 1, Preview)
  BY <1>2 DEF PreviewRows
<1>4. \A f, g \in DOMAIN tracker'.streaming :
        tracker'.streaming[f] = tracker'.streaming[g] => f = g
  <2> SUFFICES ASSUME NEW f \in DOMAIN tracker'.streaming, NEW g \in DOMAIN tracker'.streaming,
                      tracker'.streaming[f] = tracker'.streaming[g]
               PROVE  f = g
    OBVIOUS
  <2>1. PICK a \in 1..k : f = nextFrame + a - 1
    BY <1>3
  <2>2. PICK b \in 1..k : g = nextFrame + b - 1
    BY <1>3
  <2>3. PreviewBuffers[a] = PreviewBuffers[b]
    BY <1>3, <2>1, <2>2
  <2> QED BY <1>1, <2>1, <2>2, <2>3 DEF DistinctPreviews
<1>5. control'.pc = "idle"
  BY IdleControlOK
<1>6. StartInv' /\ LeaseInv'
  BY <1>1, <1>2, <1>4, <1>5 DEF StartInv, LeaseInv, NotStarted
<1>7. \A j \in 1..k : \A e, i :
        Slot(driver', e, i) = tokens[j] /\ Kernel(driver', e, i) = PreviewBuffers[j]
          => Tracked(driver', tracker', control', e, i)
  <2> TAKE j \in 1..k
  <2> DEFINE f == nextFrame + j - 1
  <2>1. /\ tracker'.bound[tokens[j]] = Context(f, Preview)
        /\ tokens[j] \in DOMAIN tracker'.bound
        /\ f \in DOMAIN tracker'.streaming /\ tracker'.streaming[f] = PreviewBuffers[j]
    BY <1>3
  <2> HIDE DEF f
  <2>2. tracker'.bound[tokens[j]].index = Preview /\ tracker'.bound[tokens[j]].frame = f
    BY <2>1 DEF Context
  <2> QED BY <2>1, <2>2 DEF Tracked
<1>8. ASSUME ~IsMock(driver), NEW e \in EventFds(driver), NEW i \in Index,
             Kernel(driver', e, i) \in Previews
      PROVE  Device(driver', e) /\ Tracked(driver', tracker', control', e, i)
  <2>1. CASE /\ Slot(driver', e, i) = driver.nextToken /\ Kernel(driver', e, i) = PreviewBuffers[k]
             /\ Device(driver', e)
    BY <1>3, <1>7, <2>1
  <2>2. CASE /\ Slot(driver', e, i) = Slot(driver, e, i)
             /\ Kernel(driver', e, i) = Kernel(driver, e, i)
             /\ Device(driver, e) => Device(driver', e)
    <3>1. Device(driver, e) /\ Tracked(driver, tracker, control, e, i)
      BY <1>1, <1>8, <2>2 DEF PreviewLeaseInv, EntryInv
    <3>2. \E j \in DOMAIN control.tokens :
            control.tokens[j] = Slot(driver, e, i) /\ PreviewBuffers[j] = Kernel(driver, e, i)
      BY <1>2, <3>1 DEF Tracked
    <3> QED BY <1>3, <1>7, <2>2, <3>1, <3>2
  <2> QED BY <1>8, <2>1, <2>2, LoadedEntry
<1>9. EntryInv'
  BY <1>1, <1>8 DEF EntryInv
<1> QED BY <1>6, <1>9

\* start_continuous_stream, one preview buffer.
LEMMA LeasePreview ==
  ASSUME DistinctPreviews, IInv, PreviewLeaseInv, QueuePreview
  PROVE  PreviewLeaseInv'
<1> DEFINE k == Len(control.tokens) + 1
           v == PreviewBuffers[k]
           tokens == Append(control.tokens, driver.nextToken)
           Queued1 == /\ Loads(driver, driver', v, DriverBuffers)
                      /\ control' = [control EXCEPT !.tokens = tokens]
                      /\ UNCHANGED <<state, tracker, nextFrame>>
           Queued2 == /\ Loads(driver, driver', v, DriverBuffers)
                      /\ k = Len(PreviewBuffers) /\ state' = "Streaming"
                      /\ tracker' = TrackPreviews(tokens) /\ control' = IdleControl
           Failed == /\ LoadFailed(driver, driver', v)
                     /\ state' = "Error" /\ control' = IdleControl /\ UNCHANGED tracker
<1>1. /\ control.pc = "preview" /\ v \in Previews /\ v \in DriverBuffers
      /\ UNCHANGED <<worker, starts>>
      /\ Queued1 \/ Queued2 \/ Failed
  BY QueuePreviewCases DEF boundVars
<1>2. worker.pc # "queue" /\ k \in Nat \ {0}
  BY <1>1 DEF IInv, ThreadInv, Shape, ControlOK
<1>3. k = Len(control.tokens) + 1 /\ tokens = Append(control.tokens, driver.nextToken)
      /\ v = PreviewBuffers[k]
  OBVIOUS
<1>4. Loads(driver, driver', v, DriverBuffers) \/ LoadFailed(driver, driver', v)
  BY <1>1
<1> HIDE DEF k, v, tokens
<1>5. /\ SlotInv' /\ SameConfig(driver, driver')
      /\ ~IsMock(driver) => \A e \in EventFds(driver) : Device(driver, e) => Device(driver', e)
  BY <1>1, <1>4, LoadKeepsSlots DEF PreviewLeaseInv
<1>6. DeviceInv'
  <2>1. /\ PreviewBuffers # <<>> /\ driver.route[v] = driver.route[PreviewBuffers[1]]
        /\ driver.route[v] \in EventFds(driver)
    BY <1>1, PreviewNode
  <2>2. CASE Loads(driver, driver', v, DriverBuffers)
    <3>1. ~IsMock(driver) => Device(driver', driver.route[v])
      BY <2>1, <2>2 DEF Loads
    <3>2. (IsMock(driver') <=> IsMock(driver)) /\ driver'.route = driver.route
      BY <1>5 DEF SameConfig
    <3> QED BY <1>1, <1>2, <2>1, <3>1, <3>2 DEF DeviceInv
  <2>3. CASE Failed
    BY <1>1, <1>2, <1>5, <2>3, IdleControlOK, DeviceKept DEF PreviewLeaseInv
  <2> QED BY <1>1, <2>2, <2>3
<1>7. StartInv' /\ LeaseInv' /\ EntryInv'
  <2>1. CASE Queued1
    BY <1>1, <1>3, <2>1, LeasePreviewQueued
  <2>2. CASE Queued2
    <3>1. DOMAIN PreviewBuffers = 1..k
      BY <1>1, <2>2, PreviewsOK
    <3>2. /\ tokens[k] = driver.nextToken
          /\ \A j \in DOMAIN control.tokens : j \in 1..k /\ tokens[j] = control.tokens[j]
          /\ PreviewRows(tracker, tracker', nextFrame, k, tokens)
      BY <1>1, <1>3, <2>2, PreviewsTracked
    <3>3. Loads(driver, driver', PreviewBuffers[k], DriverBuffers)
      BY <2>2 DEF v
    <3> QED BY <1>1, <1>2, <2>2, <3>1, <3>2, <3>3, LeasePreviewsStarted
  <2>3. CASE Failed
    <3>1. /\ starts # 0 /\ DOMAIN tracker.streaming = {}
          /\ worker.pc \notin {"callback", "return"}
      BY <1>1 DEF PreviewLeaseInv, StartInv, NotStarted
    <3>2. control'.pc = "idle"
      BY <2>3, IdleControlOK
    <3> QED BY <1>1, <2>3, <3>1, <3>2 DEF StartInv, LeaseInv, EntryInv
  <2> QED BY <1>1, <2>1, <2>2, <2>3
<1> QED BY <1>5, <1>6, <1>7 DEF PreviewLeaseInv

-----------------------------------------------------------------------------
\* The outputs of requests are not preview buffers.
LEMMA LeaseOutput ==
  ASSUME IInv, PreviewLeaseInv, QueueOutput
  PROVE  PreviewLeaseInv'
<1> DEFINE r == worker.request
           f == r.frame
           o == OutputsOf(r)
           k == worker.index
           x == driver.nextToken
           u == BindDriverOutput(tracker, x, Context(f, k))
           b == o[k]
<1>1. /\ worker.pc = "queue" /\ UNCHANGED <<state, control, starts>>
  BY DEF QueueOutput, boundVars
<1>2. /\ r \in Requests /\ TrackerOK(tracker) /\ WorkerOK(worker, driver)
      /\ DriverOK(driver, DriverBuffers) /\ state = "Streaming"
  BY <1>1 DEF IInv, ThreadInv, Shape, PreviewLeaseInv, DeviceInv
<1>3. f \in Frames /\ o \in OutputSet /\ f < StreamBase /\ f \in Nat
  BY <1>2, RequestOK
<1>4. /\ Len(o) \in Nat \ {0} /\ k \in 1..Len(o)
      /\ \A j \in 1..Len(o) : o[j] \in Buffers \cup {NoBuffer}
  BY <1>1, <1>2, <1>3, OutputsIn DEF IInv, QueueInv, WorkerOK
<1>5. b \in DriverBuffers /\ b \notin Previews
  BY <1>4, SessionAssumption DEF DriverBuffers
<1>6. \A y \in DOMAIN tracker.bound : tracker.bound[y].index = Preview =>
        tracker.bound[y].frame # f
  <2> TAKE y \in DOMAIN tracker.bound
  <2>1. tracker.bound[y].index = Preview => StreamBase <= tracker.bound[y].frame
    BY BoundFrame
  <2>2. tracker.bound[y].frame \in Nat /\ StreamBase \in Nat
    BY <1>2, FramesOK DEF TrackerOK, ContextSet
  <2> QED BY <1>3, <2>1, <2>2
<1>7. CASE /\ CanQueue(driver, b) /\ driver' = Queue(driver, b)
           /\ \/ tracker' = u /\ worker' = [worker EXCEPT !.index = @ + 1]
              \/ tracker' = MarkQueuedToDriver(u, f) /\ worker' = IdleWorker
  <2>1. Loads(driver, driver', b, DriverBuffers)
    <3> HIDE DEF b
    <3> QED BY <1>2, <1>5, <1>7, QueueLoads
  <2>2. /\ tracker'.streaming = tracker.streaming
        /\ DOMAIN tracker'.bound = DOMAIN tracker.bound \cup {x}
        /\ \A y \in DOMAIN tracker.bound : tracker'.bound[y] = tracker.bound[y]
    BY <1>1, <1>7, OutputBound
  <2>3. worker'.pc \in {"queue", "idle"}
    BY <1>1, <1>2, <1>7, IdleWorkerOK DEF WorkerOK
  <2> HIDE DEF b, x, u, f, k, o, r
  <2>4. /\ SlotInv' /\ SameConfig(driver, driver')
        /\ ~IsMock(driver) => \A e \in EventFds(driver) : Device(driver, e) => Device(driver', e)
    BY <1>5, <2>1, <2>3, LoadKeepsSlots DEF PreviewLeaseInv
  <2>5. DeviceInv'
    BY <1>1, <2>3, <2>4, DeviceKept DEF PreviewLeaseInv
  <2>6. PreviewEntriesKept
    BY <1>5, <2>1, <2>4, LoadedEntry DEF PreviewEntriesKept
  <2>7. StartInv' /\ LeaseInv' /\ EntryInv'
    BY <1>1, <2>2, <2>3, <2>6, PreviewsKept
  <2> QED BY <2>4, <2>5, <2>7 DEF PreviewLeaseInv
<1>8. CASE /\ driver' \in QueueFailures(driver, b)
           /\ tracker' = FailedTracker(tracker, f)
           /\ worker' = [worker EXCEPT !.pc = "dispatch", !.result = FailedResult(tracker, r)]
  <2>1. LoadFails(driver, driver', b, DriverBuffers)
    <3> HIDE DEF b
    <3> QED BY <1>2, <1>5, <1>8, QueueFails
  <2>2. LoadFailed(driver, driver', b)
    <3> HIDE DEF b
    <3> QED BY <2>1 DEF LoadFails, LoadFailed, SameFlags
  <2>3. worker'.pc = "dispatch"
    BY <1>2, <1>8 DEF WorkerOK
  <2> HIDE DEF b, x, u, f, k, o, r
  <2>4. /\ SlotInv' /\ SameConfig(driver, driver')
        /\ ~IsMock(driver) => \A e \in EventFds(driver) : Device(driver, e) => Device(driver', e)
    BY <1>5, <2>2, <2>3, LoadKeepsSlots DEF PreviewLeaseInv
  <2>5. DeviceInv'
    BY <1>1, <2>3, <2>4, DeviceKept DEF PreviewLeaseInv
  <2>6. PreviewEntriesKept
    BY <1>5, <2>2, <2>4 DEF PreviewEntriesKept, LoadFailed, SameEntries, SetsEntry
  <2>7. /\ tracker'.streaming = tracker.streaming
        /\ \A y \in DOMAIN tracker.bound : tracker.bound[y].frame # f =>
             y \in DOMAIN tracker'.bound /\ tracker'.bound[y] = tracker.bound[y]
    BY <1>2, <1>8, FailedTrackerIs
  <2>8. StartInv' /\ LeaseInv' /\ EntryInv'
    BY <1>1, <1>6, <2>3, <2>6, <2>7, PreviewsKept
  <2> QED BY <2>4, <2>5, <2>8 DEF PreviewLeaseInv
<1> QED BY <1>7, <1>8 DEF QueueOutput

\* A dequeued buffer leaves the kernel, and its token the slots.
LEMMA LeaseDequeue ==
  ASSUME IInv, PreviewLeaseInv, DequeueCompletion
  PROVE  PreviewLeaseInv'
<1> DEFINE e == ReadyEndpoint
           x == DequeuedToken(driver, e)
<1>1. worker.pc = "ready" /\ UNCHANGED <<state, tracker, control, starts>>
  BY DEF DequeueCompletion, boundVars
<1>2. /\ e \in EventFds(driver) /\ WorkerOK(worker, driver) /\ driver.nextToken \in Nat
      /\ DriverOK(driver, DriverBuffers)
  BY <1>1, ReadyOK DEF IInv, ThreadInv, ReadyEndpoint, Shape, DriverOK, MockOK, V4L2OK
<1>3. CASE driver' = driver /\ worker' = [worker EXCEPT !.pc = "rearm"]
  <2>1. worker'.pc = "rearm"
    BY <1>2, <1>3 DEF WorkerOK
  <2> QED BY <1>1, <1>3, <2>1, LeaseBesides
<1>4. CASE /\ CanDequeue(driver, e) /\ driver' = Dequeue(driver, e)
           /\ worker' = IF x # 0 THEN [worker EXCEPT !.pc = "complete", !.token = x]
                        ELSE [worker EXCEPT !.pc = "rearm"]
  <2>1. Unloads(driver, driver', e, x, DriverBuffers)
    <3> HIDE DEF e
    <3> QED BY <1>2, <1>4, DequeueUnloads
  <2> HIDE DEF x, e
  <2>2. /\ worker'.pc \in {"complete", "rearm"}
        /\ worker'.pc = "complete" => x # 0 /\ worker'.token = x
    BY <1>2, <1>4 DEF WorkerOK
  <2>3. SameConfig(driver, driver') /\ driver'.nextToken = driver.nextToken
        /\ (IsMock(driver') <=> IsMock(driver)) /\ EventFds(driver') = EventFds(driver)
    BY <2>1 DEF Unloads, SameConfig, EventFds
  <2>4. SlotInv' /\ PreviewEntriesKept
        /\ (~IsMock(driver) => \A a \in EventFds(driver) : Device(driver', a) = Device(driver, a))
    <3>1. CASE IsMock(driver)
      BY <2>3, <3>1 DEF SlotInv, PreviewEntriesKept
    <3>2. CASE ~IsMock(driver)
      <4>1. PICK i \in Index : /\ Slot(driver, e, i) = x
                               /\ SetsEntry(driver, driver', e, i, 0, NoBuffer)
        BY <2>1, <3>2 DEF Unloads
      <4>2. \A a \in EventFds(driver) : Device(driver', a) = Device(driver, a)
        BY <2>1, <3>2 DEF Unloads, SameFlags
      <4>3. \A a \in EventFds(driver) : \A j \in Index :
              /\ Slot(driver', a, j) = IF a = e /\ j = i THEN 0 ELSE Slot(driver, a, j)
              /\ Kernel(driver', a, j) = IF a = e /\ j = i THEN NoBuffer ELSE Kernel(driver, a, j)
        BY <4>1 DEF SetsEntry
      <4>4. x < driver.nextToken
        BY <1>2, <3>2, <4>1, NodeOf DEF Slot, DriverOK
      <4>5. x # 0 => \A a \in EventFds(driver) : \A j \in Index : Slot(driver', a, j) # x
        BY <1>2, <3>2, <4>1, <4>3 DEF PreviewLeaseInv, SlotInv
      <4>6. SlotInv'
        BY <2>2, <2>3, <3>2, <4>3, <4>4, <4>5 DEF PreviewLeaseInv, SlotInv
      <4>7. PreviewEntriesKept
        BY <2>3, <4>2, <4>3, SessionAssumption DEF PreviewEntriesKept
      <4> QED BY <4>2, <4>6, <4>7
    <3> QED BY <3>1, <3>2
  <2>5. DeviceInv'
    BY <1>1, <2>2, <2>3, <2>4, DeviceKept DEF PreviewLeaseInv
  <2>6. StartInv' /\ LeaseInv' /\ EntryInv'
    BY <1>1, <2>2, <2>4, PreviewsKept
  <2> QED BY <2>4, <2>5, <2>6 DEF PreviewLeaseInv
<1> QED BY <1>3, <1>4 DEF DequeueCompletion

\* A completed preview frame: its row becomes the lease, and no other row or
\* entry is of the same buffer.
LEMMA LeaseComplete ==
  ASSUME IInv, PreviewLeaseInv, OnDriverBufferComplete
  PROVE  PreviewLeaseInv'
<1> DEFINE x == worker.token
           c == tracker.bound[x]
           preview == x \in DOMAIN tracker.bound /\ c.index = Preview
<1>1. /\ worker.pc = "complete" /\ UNCHANGED <<state, driver, control, starts>>
  BY DEF OnDriverBufferComplete, boundVars
<1>2. /\ WorkerOK(worker, driver) /\ SameConfig(driver, driver') /\ driver.nextToken \in Nat
      /\ SameEntries(driver, driver')
  BY DEF IInv, Shape, SameConfig, IsMock, DriverOK, MockOK, V4L2OK, OnDriverBufferComplete,
         SameEntries
<1>3. /\ worker'.pc \in {"ready", "callback", "dispatch"}
      /\ worker'.pc = "callback" => preview /\ worker'.lease = tracker.streaming[c.frame]
  <2>1. CASE worker' = [worker EXCEPT !.pc = "ready"]
    BY <1>2, <2>1 DEF WorkerOK
  <2>2. CASE /\ Resolves(tracker, x) /\ c.index = Preview
             /\ worker' = [worker EXCEPT !.pc = "callback", !.lease = PreviewLease(c.frame)]
    BY <1>2, <2>2 DEF WorkerOK, Resolves, PreviewLease
  <2>3. CASE worker' = [worker EXCEPT !.pc = "dispatch", !.result =
                          Result(c.frame, BuffersOf(tracker.requests[c.frame].outputs))]
    BY <1>2, <2>3 DEF WorkerOK
  <2> QED BY <2>1, <2>2, <2>3 DEF OnDriverBufferComplete
<1>4. /\ DOMAIN tracker'.bound = DOMAIN tracker.bound \ {x}
      /\ \A y \in DOMAIN tracker.bound \ {x} : tracker'.bound[y] = tracker.bound[y]
      /\ DOMAIN tracker'.streaming =
           IF preview THEN DOMAIN tracker.streaming \ {c.frame} ELSE DOMAIN tracker.streaming
      /\ \A g \in DOMAIN tracker'.streaming : tracker'.streaming[g] = tracker.streaming[g]
  BY CompleteTables
<1>5. preview => c.frame \in DOMAIN tracker.streaming
  BY BoundFrame
<1>6. SlotInv'
  BY <1>1, <1>2, <1>3, SlotKept DEF PreviewLeaseInv
<1>7. DeviceInv'
  BY <1>1, <1>2, <1>3, DeviceKept DEF PreviewLeaseInv
<1>8. \A y \in DOMAIN tracker.bound \ {x} :
        tracker.bound[y].index = Preview /\ preview => tracker.bound[y].frame # c.frame
  <2> SUFFICES ASSUME NEW y \in DOMAIN tracker.bound \ {x}, tracker.bound[y].index = Preview,
                      preview, tracker.bound[y].frame = c.frame
               PROVE  FALSE
    OBVIOUS
  <2>1. tracker.bound[y] = Context(tracker.bound[y].frame, tracker.bound[y].index)
        /\ c = Context(c.frame, c.index)
    BY BoundFrame
  <2>2. tracker.bound[y] = c
    BY <2>1
  <2> QED BY <2>2 DEF IInv, BindInv
<1> HIDE DEF c, preview
<1>9. StartInv'
  <2>1. NotStarted' <=> NotStarted
    BY <1>1 DEF NotStarted
  <2>2. NotStarted => DOMAIN tracker.streaming = {} /\ ~preview
    BY <1>5 DEF PreviewLeaseInv, StartInv
  <2> QED BY <1>1, <1>3, <1>4, <2>1, <2>2 DEF PreviewLeaseInv, StartInv
<1>10. LeaseInv'
  <2>1. \A f, g \in DOMAIN tracker'.streaming :
          tracker'.streaming[f] = tracker'.streaming[g] => f = g
    BY <1>4 DEF PreviewLeaseInv, LeaseInv
  <2>2. ASSUME worker'.pc \in {"callback", "return"}, NEW f \in DOMAIN tracker'.streaming,
               tracker'.streaming[f] = worker'.lease
        PROVE  FALSE
    <3>1. preview /\ worker'.lease = tracker.streaming[c.frame]
      BY <1>3, <2>2
    <3>2. f # c.frame /\ f \in DOMAIN tracker.streaming
          /\ tracker.streaming[f] = tracker.streaming[c.frame]
      BY <1>4, <2>2, <3>1
    <3> QED BY <1>5, <3>1, <3>2 DEF PreviewLeaseInv, LeaseInv
  <2> QED BY <2>1, <2>2 DEF LeaseInv
<1>11. ASSUME ~IsMock(driver), NEW e \in EventFds(driver), NEW i \in Index,
              Kernel(driver, e, i) \in Previews, state # "Error"
       PROVE  Device(driver, e) /\ Tracked(driver, tracker', control, e, i)
  <2>1. Device(driver, e) /\ Tracked(driver, tracker, control, e, i)
    BY <1>11 DEF PreviewLeaseInv, EntryInv
  <2>2. Slot(driver, e, i) # x
    BY <1>1, <1>11 DEF PreviewLeaseInv, SlotInv
  <2> DEFINE y == Slot(driver, e, i)
  <2>3. CASE /\ y \in DOMAIN tracker.bound /\ tracker.bound[y].index = Preview
             /\ tracker.bound[y].frame \in DOMAIN tracker.streaming
             /\ tracker.streaming[tracker.bound[y].frame] = Kernel(driver, e, i)
    <3>1. y \in DOMAIN tracker'.bound /\ tracker'.bound[y] = tracker.bound[y]
      BY <1>4, <2>2, <2>3
    <3>2. tracker.bound[y].frame \in DOMAIN tracker'.streaming
      BY <1>4, <1>8, <2>2, <2>3
    <3> QED BY <1>4, <2>1, <2>3, <3>1, <3>2 DEF Tracked
  <2> QED BY <2>1, <2>3 DEF Tracked
<1>12. EntryInv'
  BY <1>1, <1>11 DEF PreviewLeaseInv, EntryInv
<1> QED BY <1>6, <1>7, <1>9, <1>10, <1>12 DEF PreviewLeaseInv

\* return_stream_buffer: the lease becomes the buffer of a new preview row, which
\* is the only one it has.
LEMMA LeaseRequeued ==
  ASSUME IInv, PreviewLeaseInv, worker.pc = "return", worker'.pc = "ready",
         NEW v \in Previews, v = worker.lease, state = "Streaming",
         UNCHANGED <<state, control, starts>>,
         NEW m, m = nextFrame, NEW x, x = driver.nextToken,
         \/ IsMock(driver) /\ SameConfig(driver, driver')
         \/ Loads(driver, driver', v, DriverBuffers),
         DOMAIN tracker'.streaming = DOMAIN tracker.streaming \cup {m},
         tracker'.streaming[m] = v,
         \A g \in DOMAIN tracker.streaming :
           g # m /\ tracker'.streaming[g] = tracker.streaming[g],
         DOMAIN tracker'.bound = DOMAIN tracker.bound \cup {x},
         tracker'.bound[x] = Context(m, Preview),
         \A y \in DOMAIN tracker.bound : tracker'.bound[y] = tracker.bound[y]
  PROVE  StartInv' /\ LeaseInv' /\ EntryInv'
<1>1. ~NotStarted /\ ~NotStarted' /\ starts # 0
  BY DEF PreviewLeaseInv, StartInv, NotStarted
<1>2. StartInv'
  BY <1>1 DEF PreviewLeaseInv, StartInv
<1>3. \A g \in DOMAIN tracker.streaming : tracker.streaming[g] # v
  BY DEF PreviewLeaseInv, LeaseInv
<1>4. LeaseInv'
  BY <1>3 DEF PreviewLeaseInv, LeaseInv
<1>5. (IsMock(driver') <=> IsMock(driver)) /\ EventFds(driver') = EventFds(driver)
  BY DEF Loads, SameConfig, EventFds
<1>6. ASSUME ~IsMock(driver), NEW e \in EventFds(driver), NEW i \in Index,
             Kernel(driver', e, i) \in Previews
      PROVE  Device(driver', e) /\ Tracked(driver', tracker', control', e, i)
  <2>1. CASE /\ Slot(driver', e, i) = x /\ Kernel(driver', e, i) = v /\ Device(driver', e)
    BY <2>1 DEF Tracked, Context
  <2>2. CASE /\ Slot(driver', e, i) = Slot(driver, e, i)
             /\ Kernel(driver', e, i) = Kernel(driver, e, i)
             /\ Device(driver, e) => Device(driver', e)
    <3>1. Device(driver, e) /\ Tracked(driver, tracker, control, e, i)
      BY <1>6, <2>2 DEF PreviewLeaseInv, EntryInv
    <3>2. Tracked(driver', tracker', control', e, i)
      BY <2>2, <3>1 DEF Tracked
    <3> QED BY <2>2, <3>1, <3>2
  <2> QED BY <1>6, <2>1, <2>2, LoadedEntry
<1>7. EntryInv'
  BY <1>1, <1>5, <1>6 DEF EntryInv
<1> QED BY <1>2, <1>4, <1>7

\* The lease is dropped, refused or queued again.  While the session streams the
\* node of the preview is started, so a refused buffer is not left queued.
LEMMA LeaseReturn ==
  ASSUME IInv, PreviewLeaseInv, ReturnStreamBuffer
  PROVE  PreviewLeaseInv'
<1> DEFINE v == worker.lease
           m == nextFrame
           x == driver.nextToken
           Requeued ==
             /\ state = "Streaming"
             /\ \/ IsMock(driver) /\ SameConfig(driver, driver')
                \/ Loads(driver, driver', v, DriverBuffers)
             /\ DOMAIN tracker'.streaming = DOMAIN tracker.streaming \cup {m}
             /\ tracker'.streaming[m] = v
             /\ \A g \in DOMAIN tracker.streaming :
                  g # m /\ tracker'.streaming[g] = tracker.streaming[g]
             /\ DOMAIN tracker'.bound = DOMAIN tracker.bound \cup {x}
             /\ tracker'.bound[x] = Context(m, Preview)
             /\ \A y \in DOMAIN tracker.bound : tracker'.bound[y] = tracker.bound[y]
           Refused == state = "Streaming" /\ LoadFailed(driver, driver', v) /\ UNCHANGED tracker
           Dropped == UNCHANGED <<driver, tracker>>
<1>1. /\ worker.pc = "return" /\ v \in Previews /\ worker'.pc = "ready"
      /\ UNCHANGED <<state, control, starts>>
      /\ Dropped \/ Refused \/ Requeued
  BY ReturnStreamBufferCases DEF boundVars
<1>2. v \in DriverBuffers
  BY <1>1 DEF DriverBuffers
<1>3. CASE Dropped
  BY <1>1, <1>3, LeaseBesides
<1>4. CASE Refused
  <2> HIDE DEF v
  <2>1. /\ SlotInv' /\ SameConfig(driver, driver')
        /\ ~IsMock(driver) => \A e \in EventFds(driver) : Device(driver, e) => Device(driver', e)
    BY <1>1, <1>2, <1>4, LoadKeepsSlots DEF PreviewLeaseInv
  <2>2. DeviceInv'
    BY <1>1, <2>1, DeviceKept DEF PreviewLeaseInv
  <2>3. ~IsMock(driver) => Device(driver, driver.route[v])
    BY <1>1, <1>4, PreviewNode DEF PreviewLeaseInv, DeviceInv
  <2>4. PreviewEntriesKept
    BY <1>4, <2>1, <2>3 DEF PreviewEntriesKept, LoadFailed, SameEntries
  <2>5. StartInv' /\ LeaseInv' /\ EntryInv'
    BY <1>1, <1>4, <2>4, PreviewsKept
  <2> QED BY <2>1, <2>2, <2>5 DEF PreviewLeaseInv
<1>5. CASE Requeued
  <2>1. v = worker.lease /\ m = nextFrame /\ x = driver.nextToken
    OBVIOUS
  <2> HIDE DEF v, m, x
  <2>2. StartInv' /\ LeaseInv' /\ EntryInv'
    BY <1>1, <1>5, <2>1, LeaseRequeued
  <2>3. SlotInv' /\ DeviceInv'
    <3>1. CASE IsMock(driver) /\ SameConfig(driver, driver')
      BY <1>1, <3>1 DEF SlotInv, DeviceInv, SameConfig
    <3>2. CASE Loads(driver, driver', v, DriverBuffers)
      <4>1. /\ SlotInv' /\ SameConfig(driver, driver')
            /\ ~IsMock(driver) =>
                 \A e \in EventFds(driver) : Device(driver, e) => Device(driver', e)
        BY <1>1, <1>2, <3>2, LoadKeepsSlots DEF PreviewLeaseInv
      <4>2. DeviceInv'
        BY <1>1, <4>1, DeviceKept DEF PreviewLeaseInv
      <4> QED BY <4>1, <4>2
    <3> QED BY <1>5, <3>1, <3>2
  <2> QED BY <2>2, <2>3 DEF PreviewLeaseInv
<1> QED BY <1>1, <1>3, <1>4, <1>5

-----------------------------------------------------------------------------
\* Every step of a session that starts once keeps leases and rows apart.
LEMMA PreviewLeaseNext ==
  ASSUME OneStart, DistinctPreviews, IInv, PreviewLeaseInv, [Next]_vars
  PROVE  PreviewLeaseInv'
<1>1. CASE UNCHANGED vars
  <2>1. UNCHANGED <<state, tracker, driver, worker, control, starts>>
    BY <1>1 DEF vars
  <2> QED BY <2>1, LeaseBesides
<1>2. CASE (\E r \in Requests : ProcessCaptureRequest(r)) \/ PostRequest
  BY <1>2, LeaseThreads
<1>3. CASE ConfigureStreams \/ StartStreaming \/ Flush \/ Close
  BY <1>3, LeaseConfigure, LeaseStart, LeaseFlush
<1>4. CASE ControlStep
  BY <1>4, LeasePreview, LeaseThreads DEF ControlStep
<1>5. CASE WorkerStep
  BY <1>5, LeaseThreads, LeaseSubmit, LeaseOutput, LeaseDequeue, LeaseComplete, LeaseReturn
     DEF WorkerStep
<1>6. CASE \E e \in Endpoints : OnDriverFdReady(e) \/ \E i \in Index : DeviceFills(e, i)
  BY <1>6, LeaseThreads, LeaseFills
<1>7. CASE Sleep \/ Wake
  <2>1. UNCHANGED <<state, tracker, driver, worker, control, starts>>
    BY <1>7 DEF Sleep, Wake, sessionVars, boundVars
  <2> QED BY <2>1, LeaseBesides
<1> QED BY <1>1, <1>2, <1>3, <1>4, <1>5, <1>6, <1>7 DEF Next

\* README, continuous preview: the driver does not refill a preview buffer while
\* the application's callback reads it, in a session that is started once, on
\* every backend and with every fault, and whatever flush and close do meanwhile.
THEOREM PreviewExclusiveAlways ==
  ASSUME OneStart, DistinctPreviews
  PROVE  Spec => []PreviewExclusive
<1> DEFINE J == IInv /\ PreviewLeaseInv
<1>1. Init => J
  BY InitInv, LeaseInit
<1>2. J /\ [Next]_vars => J'
  BY NextInv, PreviewLeaseNext
<1>3. J => PreviewExclusive
  BY LeaseNotHeld
<1> QED BY <1>1, <1>2, <1>3, PTL DEF Spec
=============================================================================
