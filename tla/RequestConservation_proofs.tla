----------------------- MODULE RequestConservation_proofs ----------------------
(***************************************************************************)
(* No accepted request is lost and none is answered twice, for every       *)
(* session whose requests carry different frame numbers.  The cardinalities *)
(* of RequestConserved are replaced by indicators: a place holds a request *)
(* at most once, so the six places of a frame number sum to 1 if a request *)
(* with that number was accepted, and to 0 if none was.                    *)
(***************************************************************************)
EXTENDS CameraDeviceSession_proofs

\* The framework numbers its requests: interface/camera_device.h.
DistinctFrames == \A r, s \in Requests : r.frame = s.frame => r = s

\* 1 if a request with frame number f is in the place, else 0
Queued(f) == IF \E k \in DOMAIN tasks : tasks[k].frame = f THEN 1 ELSE 0
Submitting(f) == IF worker.pc = "submit" /\ worker.request.frame = f THEN 1 ELSE 0
InFlight(f) == IF f \in DOMAIN tracker.requests THEN 1 ELSE 0
Flushing(f) == IF \E x \in control.results : x.frame = f THEN 1 ELSE 0
Dispatching(f) == IF worker.result.frame = f THEN 1 ELSE 0
Accepted(f) == IF \E r \in accepted : r.frame = f THEN 1 ELSE 0

Tally(f) == Queued(f) + Submitting(f) + InFlight(f) + Flushing(f) + Dispatching(f) + results[f]

\* A request is submitted once; no two tasks and no two flushed results have
\* the same frame number; and a request is in one place until it is answered.
TallyInv ==
  /\ accepted \cap unsent = {} /\ sub \notin accepted \cup unsent
  /\ \A j, k \in DOMAIN tasks : tasks[j].frame = tasks[k].frame /\ tasks[j].frame # 0 => j = k
  /\ \A x, y \in control.results : x.frame = y.frame => x = y
  /\ \A f \in Frames : Tally(f) = Accepted(f)

-----------------------------------------------------------------------------
\* A step that moves no request.
LEMMA TallyKept ==
  ASSUME TallyInv, UNCHANGED <<frameworkVars, results, tasks>>,
         control'.results = control.results, worker'.result = worker.result,
         DOMAIN tracker'.requests = DOMAIN tracker.requests,
         worker' = worker \/ (worker.pc # "submit" /\ worker'.pc # "submit")
  PROVE  TallyInv'
<1>1. \A f \in Frames : Tally(f)' = Tally(f)
  BY DEF Tally, Queued, Submitting, InFlight, Flushing, Dispatching
<1> QED BY <1>1 DEF TallyInv, frameworkVars, Accepted

\* In a set of results with one result per frame number, what Deliver adds.
LEMMA DeliverOne ==
  ASSUME NEW rs \in SUBSET (ResultSet \cup {None}), IsFiniteSet(rs), Deliver(rs),
         results \in [Frames -> Nat], held \subseteq Buffers,
         \A x, y \in rs : x.frame = y.frame => x = y
  PROVE  \A f \in Frames :
           results'[f] = results[f] + (IF \E x \in rs : x.frame = f THEN 1 ELSE 0)
<1> TAKE f \in Frames
<1> DEFINE S == {x \in rs : x.frame = f}
<1>1. results'[f] = results[f] + Cardinality(S)
  BY DeliverOK
<1>2. CASE S = {}
  BY <1>1, <1>2, FS_EmptySet
<1>3. CASE S # {}
  <2>1. PICK x \in S : TRUE
    BY <1>3
  <2>2. S = {x}
    BY <2>1
  <2> QED BY <1>1, <2>1, <2>2, FS_Singleton
<1> QED BY <1>2, <1>3

\* The places of a frame number, as numbers.
LEMMA TallyBounds ==
  ASSUME IInv, TallyInv, NEW f \in Frames
  PROVE  /\ results[f] \in Nat
         /\ Queued(f) + Submitting(f) + InFlight(f) + Flushing(f) + Dispatching(f) + results[f]
              = Accepted(f)
         /\ Queued(f) \in 0..1 /\ Submitting(f) \in 0..1 /\ InFlight(f) \in 0..1
         /\ Flushing(f) \in 0..1 /\ Dispatching(f) \in 0..1 /\ Accepted(f) \in 0..1
<1>1. results[f] \in Nat
  BY DEF IInv, Shape
<1>2. Queued(f) + Submitting(f) + InFlight(f) + Flushing(f) + Dispatching(f) + results[f]
        = Accepted(f)
  BY DEF TallyInv, Tally
<1> QED BY <1>1, <1>2 DEF Queued, Submitting, InFlight, Flushing, Dispatching, Accepted

\* A new session has accepted nothing.
LEMMA TallyInit == ASSUME Init PROVE TallyInv
<1>1. /\ DOMAIN tasks = {} /\ worker = IdleWorker /\ control = IdleControl /\ accepted = {}
      /\ unsent = Requests /\ sub = None /\ results = [f \in Frames |-> 0]
      /\ tracker = EmptyTracker
  BY DEF Init
<1>2. \A r \in Requests : r # None
  BY RequestOK
<1>3. /\ worker.pc = "idle" /\ worker.result = None /\ control.results = {}
      /\ DOMAIN tracker.requests = {}
  BY <1>1 DEF IdleWorker, IdleControl, EmptyTracker
<1>4. ASSUME NEW f \in Frames PROVE Tally(f) = 0 /\ Accepted(f) = 0
  <2>1. f # 0 /\ results[f] = 0
    BY <1>1, FramesOK
  <2>2. Dispatching(f) = 0
    BY <1>3, <2>1 DEF Dispatching, None
  <2> QED BY <1>1, <1>3, <2>1, <2>2 DEF Tally, Queued, Submitting, InFlight, Flushing, Accepted
<1> QED BY <1>1, <1>2, <1>3, <1>4 DEF TallyInv

-----------------------------------------------------------------------------
\* A request that passes the check of the state is not accepted yet.
LEMMA TallyProcess ==
  ASSUME IInv, TallyInv, NEW r \in Requests, ProcessCaptureRequest(r)
  PROVE  TallyInv'
<1>1. \A f \in Frames : Tally(f)' = Tally(f)
  BY DEF Tally, Queued, Submitting, InFlight, Flushing, Dispatching, ProcessCaptureRequest,
     sessionVars, deliveryVars
<1>2. sub' \notin accepted' \cup unsent' /\ accepted' \cap unsent' = {}
  BY RequestOK DEF ProcessCaptureRequest, TallyInv, IInv, Shape
<1> QED BY <1>1, <1>2 DEF TallyInv, Accepted, ProcessCaptureRequest, sessionVars, deliveryVars

\* The places after a step, compared with the places before it, for one frame.
LEMMA PlacesKept ==
  ASSUME NEW f, DOMAIN tracker'.requests = DOMAIN tracker.requests, control' = control
  PROVE  /\ InFlight(f)' = InFlight(f) /\ Flushing(f)' = Flushing(f)
         /\ worker' = worker => /\ Submitting(f)' = Submitting(f)
                                /\ Dispatching(f)' = Dispatching(f)
         /\ tasks' = tasks => Queued(f)' = Queued(f)
         /\ accepted' = accepted => Accepted(f)' = Accepted(f)
  BY DEF InFlight, Flushing, Submitting, Dispatching, Queued, Accepted

\* A posted request is accepted and waits in the queue, or it is neither.
LEMMA TallyPost ==
  ASSUME DistinctFrames, IInv, TallyInv, PostRequest
  PROVE  TallyInv'
<1>1. /\ sub # None /\ sub' = None
      /\ UNCHANGED <<tracker, armed, control, worker, unsent, results>>
  BY DEF PostRequest, sessionVars
<1>2. \A r \in Requests : r # None
  BY RequestOK
<1>3. CASE UNCHANGED <<tasks, accepted>>
  <2>1. \A f \in Frames : Tally(f)' = Tally(f) /\ Accepted(f)' = Accepted(f)
    BY <1>1, <1>3, PlacesKept DEF Tally
  <2>2. sub' \notin accepted' \cup unsent' /\ accepted' \cap unsent' = {}
    BY <1>1, <1>2, <1>3 DEF TallyInv, IInv, Shape
  <2> QED BY <1>1, <1>3, <2>1, <2>2 DEF TallyInv
<1>4. CASE tasks' = Append(tasks, sub) /\ accepted' = accepted \cup {sub}
  <2> DEFINE g == sub.frame
             n == Len(tasks) + 1
  <2>1. tasks' = Append(tasks, sub) /\ accepted' = accepted \cup {sub}
    BY <1>4
  <2>2. sub \in Requests /\ tasks \in Seq(Requests \cup ReadySet(driver))
    BY <1>1 DEF IInv, Shape
  <2>3. g \in Frames /\ g # 0
    BY <2>2, RequestOK
  <2>4. DOMAIN tasks = 1..Len(tasks) /\ Len(tasks) \in Nat
    BY <2>2
  <2>5. /\ DOMAIN tasks' = DOMAIN tasks \cup {n} /\ n \notin DOMAIN tasks
        /\ tasks'[n] = sub /\ \A k \in DOMAIN tasks : tasks'[k] = tasks[k]
    BY <2>1, <2>2, <2>4
  <2>6. Accepted(g) = 0
    BY <2>2 DEF DistinctFrames, Accepted, TallyInv, IInv, Shape
  <2>7. Queued(g) = 0
    BY <2>3, <2>6, TallyBounds
  <2>8. \A f \in Frames : Queued(f)' = IF f = g THEN 1 ELSE Queued(f)
    BY <2>5 DEF Queued
  <2>9. \A f \in Frames : Accepted(f)' = IF f = g THEN 1 ELSE Accepted(f)
    BY <2>1 DEF Accepted
  <2>10. ASSUME NEW f \in Frames PROVE Tally(f)' = Accepted(f)'
    <3>1. /\ Submitting(f)' = Submitting(f) /\ InFlight(f)' = InFlight(f)
          /\ Flushing(f)' = Flushing(f) /\ Dispatching(f)' = Dispatching(f)
          /\ results'[f] = results[f]
      BY <1>1, PlacesKept
    <3>2. /\ results[f] \in Nat
          /\ Queued(f) + Submitting(f) + InFlight(f) + Flushing(f) + Dispatching(f) + results[f]
               = Accepted(f)
          /\ Queued(f) \in 0..1 /\ Submitting(f) \in 0..1 /\ InFlight(f) \in 0..1
          /\ Flushing(f) \in 0..1 /\ Dispatching(f) \in 0..1
      BY TallyBounds
    <3> HIDE DEF g
    <3> QED BY <2>6, <2>7, <2>8, <2>9, <3>1, <3>2 DEF Tally
  <2>11. \A j, k \in DOMAIN tasks' :
           tasks'[j].frame = tasks'[k].frame /\ tasks'[j].frame # 0 => j = k
    <3>1. \A k \in DOMAIN tasks : tasks[k].frame # g
      BY <2>7 DEF Queued
    <3> HIDE DEF g, n
    <3>2. tasks'[n].frame = g
      BY <2>5 DEF g
    <3> QED BY <2>5, <3>1, <3>2 DEF TallyInv
  <2>12. sub' \notin accepted' \cup unsent' /\ accepted' \cap unsent' = {}
    BY <1>1, <1>2, <2>1, <2>2 DEF TallyInv, IInv, Shape
  <2> QED BY <1>1, <2>10, <2>11, <2>12 DEF TallyInv
<1> QED BY <1>3, <1>4 DEF PostRequest

\* A readiness task is no request.
LEMMA TallyFdReady ==
  ASSUME IInv, TallyInv, NEW e \in Endpoints, OnDriverFdReady(e)
  PROVE  TallyInv'
<1>1. /\ UNCHANGED <<tracker, control, worker, frameworkVars, results>>
      /\ tasks' \in {tasks, Append(tasks, Ready(e))}
  BY DEF OnDriverFdReady, sessionVars, deliveryVars
<1>2. CASE tasks' = tasks
  BY <1>1, <1>2, TallyKept
<1>3. CASE tasks' = Append(tasks, Ready(e))
  <2> DEFINE n == Len(tasks) + 1
  <2>1. tasks \in Seq(Requests \cup ReadySet(driver))
    BY DEF IInv, Shape
  <2>2. DOMAIN tasks = 1..Len(tasks) /\ Len(tasks) \in Nat
    BY <2>1
  <2>3. /\ DOMAIN tasks' = DOMAIN tasks \cup {n} /\ n \notin DOMAIN tasks
        /\ tasks'[n] = Ready(e) /\ \A k \in DOMAIN tasks : tasks'[k] = tasks[k]
    BY <1>3, <2>1, <2>2
  <2> HIDE DEF n
  <2>4. tasks'[n].frame = 0
    BY <2>3 DEF Ready
  <2>5. ASSUME NEW f \in Frames PROVE Tally(f)' = Tally(f) /\ Accepted(f)' = Accepted(f)
    <3>1. f # 0
      BY FramesOK
    <3>2. Queued(f)' = Queued(f)
      BY <2>3, <2>4, <3>1 DEF Queued
    <3> QED BY <1>1, <3>2, PlacesKept DEF Tally, frameworkVars
  <2>6. \A j, k \in DOMAIN tasks' :
          tasks'[j].frame = tasks'[k].frame /\ tasks'[j].frame # 0 => j = k
    BY <2>3, <2>4 DEF TallyInv
  <2> QED BY <1>1, <2>5, <2>6 DEF TallyInv, frameworkVars
<1> QED BY <1>1, <1>2, <1>3

\* A request the worker takes leaves the queue.
LEMMA TallyPop ==
  ASSUME IInv, TallyInv, PopTask
  PROVE  TallyInv'
<1> DEFINE h == Head(tasks)
           n == Len(tasks)
<1>1. /\ UNCHANGED <<tracker, control, frameworkVars, results>>
      /\ worker.pc = "idle" /\ tasks # <<>> /\ tasks' = Tail(tasks)
      /\ worker'.request = h /\ worker'.result = None
      /\ worker'.pc = IF h.frame = 0 THEN "ready" ELSE "submit"
  BY DEF PopTask, sessionVars, deliveryVars, IdleWorker, IsReady
<1>2. tasks \in Seq(Requests \cup ReadySet(driver)) /\ worker.result = None
  BY <1>1 DEF IInv, Shape, ThreadInv
<1>3. /\ n \in Nat \ {0} /\ DOMAIN tasks = 1..n /\ DOMAIN tasks' = 1..(n - 1)
      /\ tasks[1] = h /\ \A k \in 1..(n - 1) : tasks'[k] = tasks[k + 1]
  BY <1>1, <1>2
<1> HIDE DEF h, n
<1>4. \A k \in 2..n : k - 1 \in 1..(n - 1) /\ tasks'[k - 1] = tasks[k]
  BY <1>3
<1>5. \A k \in DOMAIN tasks : k = 1 \/ k \in 2..n
  BY <1>3
<1>6. \A j, k \in DOMAIN tasks' :
        tasks'[j].frame = tasks'[k].frame /\ tasks'[j].frame # 0 => j = k
  <2> SUFFICES ASSUME NEW j \in 1..(n - 1), NEW k \in 1..(n - 1),
                      tasks[j + 1].frame = tasks[k + 1].frame, tasks[j + 1].frame # 0
               PROVE  j = k
    BY <1>3
  <2>1. j + 1 \in DOMAIN tasks /\ k + 1 \in DOMAIN tasks
    BY <1>3
  <2>2. j + 1 = k + 1
    BY <2>1 DEF TallyInv
  <2> QED BY <2>2
<1>7. ASSUME NEW f \in Frames PROVE Queued(f)' + Submitting(f)' = Queued(f) + Submitting(f)
  <2>1. f # 0
    BY FramesOK
  <2>2. Submitting(f) = 0
    BY <1>1 DEF Submitting
  <2>3. CASE h.frame = f
    <3>1. Submitting(f)' = 1
      BY <1>1, <2>1, <2>3 DEF Submitting
    <3>2. Queued(f) = 1
      BY <1>3, <2>3 DEF Queued
    <3>3. ASSUME NEW k \in DOMAIN tasks' PROVE tasks'[k].frame # f
      <4>1. k + 1 \in DOMAIN tasks /\ 1 \in DOMAIN tasks /\ k + 1 # 1 /\ tasks'[k] = tasks[k + 1]
        BY <1>3
      <4> QED BY <1>3, <2>1, <2>3, <4>1 DEF TallyInv
    <3>4. Queued(f)' = 0
      BY <3>3 DEF Queued
    <3> QED BY <2>2, <3>1, <3>2, <3>4
  <2>4. CASE h.frame # f
    <3>1. Submitting(f)' = 0
      BY <1>1, <2>4 DEF Submitting
    <3>2. (\E k \in DOMAIN tasks : tasks[k].frame = f) <=> (\E k \in DOMAIN tasks' : tasks'[k].frame = f)
      <4>1. ASSUME NEW k \in DOMAIN tasks, tasks[k].frame = f
            PROVE  \E i \in DOMAIN tasks' : tasks'[i].frame = f
        BY <1>3, <1>4, <1>5, <2>4, <4>1
      <4>2. ASSUME NEW k \in DOMAIN tasks', tasks'[k].frame = f
            PROVE  \E i \in DOMAIN tasks : tasks[i].frame = f
        <5>1. k + 1 \in DOMAIN tasks /\ tasks'[k] = tasks[k + 1]
          BY <1>3
        <5> QED BY <4>2, <5>1
      <4> QED BY <4>1, <4>2
    <3>3. Queued(f)' = Queued(f)
      BY <3>2 DEF Queued
    <3> QED BY <2>2, <3>1, <3>3
  <2> QED BY <2>3, <2>4
<1>8. ASSUME NEW f \in Frames PROVE Tally(f)' = Accepted(f)'
  <2>1. /\ InFlight(f)' = InFlight(f) /\ Flushing(f)' = Flushing(f)
        /\ Accepted(f)' = Accepted(f) /\ results'[f] = results[f]
    BY <1>1, PlacesKept DEF frameworkVars
  <2>2. Dispatching(f)' = Dispatching(f)
    BY <1>1, <1>2 DEF Dispatching
  <2>3. /\ results[f] \in Nat
        /\ Queued(f) + Submitting(f) + InFlight(f) + Flushing(f) + Dispatching(f) + results[f]
             = Accepted(f)
        /\ Queued(f) \in 0..1 /\ Submitting(f) \in 0..1 /\ InFlight(f) \in 0..1
        /\ Flushing(f) \in 0..1 /\ Dispatching(f) \in 0..1
    BY TallyBounds
  <2>4. Queued(f)' \in 0..1 /\ Submitting(f)' \in 0..1
    BY DEF Queued, Submitting
  <2> QED BY <1>7, <2>1, <2>2, <2>3, <2>4 DEF Tally
<1> QED BY <1>1, <1>6, <1>8 DEF TallyInv, frameworkVars

\* The worker or the table gives up the request with frame number g, and it is
\* in the result the worker has, or in the table.
LEMMA TallyMoves ==
  ASSUME IInv, TallyInv, UNCHANGED <<frameworkVars, results, tasks, control>>,
         \A f \in Frames :
           Submitting(f)' + InFlight(f)' + Dispatching(f)'
             = Submitting(f) + InFlight(f) + Dispatching(f)
  PROVE  TallyInv'
<1>1. ASSUME NEW f \in Frames PROVE Tally(f)' = Accepted(f)'
  <2>1. /\ Queued(f)' = Queued(f) /\ Flushing(f)' = Flushing(f)
        /\ Accepted(f)' = Accepted(f) /\ results'[f] = results[f]
    BY DEF Queued, Flushing, Accepted, frameworkVars
  <2>2. /\ results[f] \in Nat
        /\ Queued(f) + Submitting(f) + InFlight(f) + Flushing(f) + Dispatching(f) + results[f]
             = Accepted(f)
        /\ Queued(f) \in 0..1 /\ Submitting(f) \in 0..1 /\ InFlight(f) \in 0..1
        /\ Flushing(f) \in 0..1 /\ Dispatching(f) \in 0..1
    BY TallyBounds
  <2>3. Submitting(f)' \in 0..1 /\ InFlight(f)' \in 0..1 /\ Dispatching(f)' \in 0..1
    BY DEF Submitting, InFlight, Dispatching
  <2>4. Submitting(f)' + InFlight(f)' + Dispatching(f)'
          = Submitting(f) + InFlight(f) + Dispatching(f)
    OBVIOUS
  <2> QED BY <2>1, <2>2, <2>3, <2>4 DEF Tally
<1> QED BY <1>1 DEF TallyInv, frameworkVars

\* A submitted request gets a row, or an answer.
LEMMA TallySubmit ==
  ASSUME IInv, TallyInv, SubmitCaptureRequest
  PROVE  TallyInv'
<1> DEFINE r == worker.request
           g == r.frame
<1>1. /\ worker.pc = "submit"
      /\ UNCHANGED <<frameworkVars, results, tasks, control>>
  BY DEF SubmitCaptureRequest, deliveryVars
<1>2. /\ r \in Requests /\ worker.result = None /\ TrackerOK(tracker) /\ WorkerOK(worker, driver)
  BY <1>1 DEF IInv, ThreadInv, Shape
<1>3. g \in Frames /\ g # 0 /\ OutputsOf(r) \in OutputSet
  BY <1>2, RequestOK
<1>4. Submitting(g) = 1
  BY <1>1 DEF Submitting
<1>5. g \notin DOMAIN tracker.requests
  <2>1. InFlight(g) = 0
    BY <1>3, <1>4, TallyBounds
  <2> QED BY <2>1 DEF InFlight
<1>6. \A f \in Frames : Submitting(f) = (IF f = g THEN 1 ELSE 0) /\ Dispatching(f) = 0
  BY <1>1, <1>2, FramesOK DEF Submitting, Dispatching, None
<1>7. ASSUME NEW res, res.frame = g,
             worker' = [worker EXCEPT !.pc = "dispatch", !.result = res],
             DOMAIN tracker'.requests = DOMAIN tracker.requests
      PROVE  TallyInv'
  <2>1. worker'.pc = "dispatch" /\ worker'.result = res
    BY <1>2, <1>7 DEF WorkerOK
  <2> HIDE DEF g
  <2>2. \A f \in Frames : /\ Submitting(f)' = 0 /\ Dispatching(f)' = (IF f = g THEN 1 ELSE 0)
                          /\ InFlight(f)' = InFlight(f) /\ InFlight(f) \in 0..1
    BY <1>7, <2>1 DEF Submitting, Dispatching, InFlight
  <2>3. \A f \in Frames : Submitting(f)' + InFlight(f)' + Dispatching(f)'
                            = Submitting(f) + InFlight(f) + Dispatching(f)
    BY <1>6, <2>2
  <2> QED BY <1>1, <2>3, TallyMoves
<1>8. CASE /\ worker' = [worker EXCEPT !.pc = "dispatch", !.result = Result(g, {})]
           /\ tracker' = tracker
  BY <1>7, <1>8 DEF Result
<1>9. CASE /\ worker' = [worker EXCEPT !.pc = "dispatch", !.result = FailedResult(tracker, r)]
           /\ tracker' = FailedTracker(tracker, g)
  <2>1. FailedResult(tracker, r).frame = g
    BY <1>2, FailedResultOK
  <2>2. DOMAIN tracker'.requests = DOMAIN tracker.requests
    <3>1. DOMAIN tracker'.requests = DOMAIN tracker.requests \ {g}
      BY <1>2, <1>9, FailedTrackerIs
    <3> QED BY <1>5, <3>1
  <2> QED BY <1>7, <1>9, <2>1, <2>2
<1>10. CASE /\ tracker' = Start(tracker, g, OutputsOf(r))
            /\ worker' = [worker EXCEPT !.pc = "queue"]
  <2>1. DOMAIN tracker'.requests = DOMAIN tracker.requests \cup {g}
    BY <1>2, <1>3, <1>10, StartIs
  <2>2. worker'.pc = "queue" /\ worker'.result = None
    BY <1>2, <1>10 DEF WorkerOK
  <2> HIDE DEF g
  <2>3. \A f \in Frames : /\ Submitting(f)' = 0 /\ Dispatching(f)' = 0
                          /\ InFlight(f)' = IF f = g THEN 1 ELSE InFlight(f)
                          /\ f = g => InFlight(f) = 0
                          /\ InFlight(f) \in 0..1
    BY <1>5, <2>1, <2>2, FramesOK DEF Submitting, Dispatching, InFlight, None
  <2>4. \A f \in Frames : Submitting(f)' + InFlight(f)' + Dispatching(f)'
                            = Submitting(f) + InFlight(f) + Dispatching(f)
    BY <1>6, <2>3
  <2> QED BY <1>1, <2>4, TallyMoves
<1> QED BY <1>8, <1>9, <1>10 DEF SubmitCaptureRequest

\* The row of frame g leaves the table, and the result the worker has is g's.
LEMMA TallyAnswers ==
  ASSUME IInv, TallyInv, UNCHANGED <<frameworkVars, results, tasks, control>>,
         NEW g \in Frames, g \in DOMAIN tracker.requests,
         DOMAIN tracker'.requests = DOMAIN tracker.requests \ {g},
         worker.pc # "submit", worker.result = None,
         worker'.pc # "submit", worker'.result.frame = g
  PROVE  TallyInv'
<1>1. \A f \in Frames : /\ Submitting(f) = 0 /\ Dispatching(f) = 0
                        /\ InFlight(f) \in 0..1
                        /\ f = g => InFlight(f) = 1
  BY FramesOK DEF Submitting, Dispatching, InFlight, None
<1>2. \A f \in Frames : /\ Submitting(f)' = 0 /\ Dispatching(f)' = (IF f = g THEN 1 ELSE 0)
                        /\ InFlight(f)' = IF f = g THEN 0 ELSE InFlight(f)
  BY DEF Submitting, Dispatching, InFlight
<1>3. \A f \in Frames : Submitting(f)' + InFlight(f)' + Dispatching(f)'
                          = Submitting(f) + InFlight(f) + Dispatching(f)
  BY <1>1, <1>2
<1> QED BY <1>3, TallyMoves

\* A request whose output cannot be queued leaves its row for an answer.
LEMMA TallyQueueOutput ==
  ASSUME IInv, TallyInv, QueueOutput
  PROVE  TallyInv'
<1> DEFINE r == worker.request
           g == r.frame
           u == BindDriverOutput(tracker, driver.nextToken, Context(g, worker.index))
<1>1. /\ worker.pc = "queue"
      /\ UNCHANGED <<frameworkVars, results, tasks, control>>
  BY DEF QueueOutput, deliveryVars
<1>2. /\ r \in Requests /\ worker.result = None /\ TrackerOK(tracker) /\ WorkerOK(worker, driver)
      /\ g \in DOMAIN tracker.requests
  BY <1>1 DEF IInv, ThreadInv, Shape, QueueInv
<1>3. g \in Frames
  BY <1>2, RequestOK
<1>4. DOMAIN u.requests = DOMAIN tracker.requests
  BY <1>2 DEF BindDriverOutput, TrackerOK
<1>5. CASE tracker' = u /\ worker' = [worker EXCEPT !.index = @ + 1]
  <2>1. worker'.pc = "queue" /\ worker'.result = worker.result
    BY <1>1, <1>2, <1>5 DEF WorkerOK
  <2> QED BY <1>1, <1>4, <1>5, <2>1, TallyKept
<1>6. CASE tracker' = MarkQueuedToDriver(u, g) /\ worker' = IdleWorker
  <2> HIDE DEF u, g
  <2>1. DOMAIN tracker'.requests = DOMAIN u.requests
    <3>1. u \in [requests : {tracker.requests}, streaming : {tracker.streaming}, bound : {u.bound}]
      BY <1>2 DEF u, BindDriverOutput, TrackerOK
    <3> QED BY <1>6, <3>1 DEF MarkQueuedToDriver
  <2>2. worker'.pc = "idle" /\ worker'.result = worker.result
    BY <1>2, <1>6, IdleWorkerOK
  <2> QED BY <1>1, <1>4, <1>6, <2>1, <2>2, TallyKept
<1>7. CASE /\ tracker' = FailedTracker(tracker, g)
           /\ worker' = [worker EXCEPT !.pc = "dispatch", !.result = FailedResult(tracker, r)]
  <2>1. worker'.pc = "dispatch" /\ worker'.result.frame = g
    <3>1. worker'.pc = "dispatch" /\ worker'.result = FailedResult(tracker, r)
      BY <1>2, <1>7 DEF WorkerOK
    <3> QED BY <1>2, <3>1, FailedResultOK
  <2>2. DOMAIN tracker'.requests = DOMAIN tracker.requests \ {g}
    BY <1>2, <1>7, FailedTrackerIs
  <2> QED BY <1>1, <1>2, <1>3, <2>1, <2>2, TallyAnswers
<1> QED BY <1>5, <1>6, <1>7 DEF QueueOutput

\* A request leaves its row for an answer with its last output.
LEMMA TallyComplete ==
  ASSUME IInv, TallyInv, OnDriverBufferComplete
  PROVE  TallyInv'
<1> DEFINE x == worker.token
           f == tracker.bound[x].frame
           k == tracker.bound[x].index
           t == TakeDriverOutputContext(tracker, x)
<1>1. /\ worker.pc = "complete"
      /\ UNCHANGED <<frameworkVars, results, tasks, control>>
  BY DEF OnDriverBufferComplete, deliveryVars
<1>2. /\ worker.result = None /\ TrackerOK(tracker) /\ WorkerOK(worker, driver)
  BY <1>1 DEF IInv, ThreadInv, Shape
<1>3. TrackerOK(t) /\ t.requests = tracker.requests
  BY <1>2, TakeIs
<1>4. ASSUME worker'.pc \in {"ready", "callback"}, worker'.result = worker.result,
             DOMAIN tracker'.requests = DOMAIN tracker.requests
      PROVE  TallyInv'
  BY <1>1, <1>4, TallyKept
<1>5. CASE tracker' = t /\ worker' = [worker EXCEPT !.pc = "ready"]
  <2>1. worker'.pc = "ready" /\ worker'.result = worker.result
    BY <1>2, <1>5 DEF WorkerOK
  <2> QED BY <1>3, <1>4, <1>5, <2>1
<1>6. CASE tracker' = t /\ worker' = [worker EXCEPT !.pc = "callback", !.lease = PreviewLease(f)]
  <2>1. worker'.pc = "callback" /\ worker'.result = worker.result
    BY <1>2, <1>6 DEF WorkerOK
  <2> QED BY <1>3, <1>4, <1>6, <2>1
<1>7. CASE /\ Resolves(tracker, x) /\ k # Preview /\ tracker' = CompleteOutput(t, f, k)
           /\ worker' = IF LastOutput(tracker, f, k)
                        THEN [worker EXCEPT !.pc = "dispatch",
                                !.result = Result(f, BuffersOf(tracker.requests[f].outputs))]
                        ELSE [worker EXCEPT !.pc = "ready"]
  <2> DEFINE res == Result(f, BuffersOf(tracker.requests[f].outputs))
  <2>1. x \in DOMAIN tracker.bound /\ f \in DOMAIN tracker.requests /\ k \in Nat
    BY <1>2, <1>7 DEF Resolves, TrackerOK, ContextSet
  <2>2. f \in Frames /\ res.frame = f
    BY <1>2, <2>1 DEF TrackerOK, Result
  <2>3. LastOutput(t, f, k) <=> LastOutput(tracker, f, k)
    BY <1>3 DEF LastOutput
  <2> HIDE DEF f, k, t, res
  <2>4. Completes(t, tracker', f, k)
    BY <1>3, <1>7, <2>1, CompleteOutputIs
  <2>5. CASE LastOutput(tracker, f, k)
    <3>1. worker' = [worker EXCEPT !.pc = "dispatch", !.result = res]
      BY <1>7, <2>5 DEF res
    <3>2. worker'.pc = "dispatch" /\ worker'.result = res
      BY <1>2, <3>1 DEF WorkerOK
    <3>3. DOMAIN tracker'.requests = DOMAIN tracker.requests \ {f}
      BY <1>3, <2>3, <2>4, <2>5 DEF Completes
    <3> QED BY <1>1, <1>2, <2>1, <2>2, <3>2, <3>3, TallyAnswers
  <2>6. CASE ~LastOutput(tracker, f, k)
    <3>1. worker' = [worker EXCEPT !.pc = "ready"]
      BY <1>7, <2>6
    <3>2. worker'.pc = "ready" /\ worker'.result = worker.result
      BY <1>2, <3>1 DEF WorkerOK
    <3>3. DOMAIN tracker'.requests = DOMAIN tracker.requests
      BY <1>3, <2>3, <2>4, <2>6 DEF Completes
    <3> QED BY <1>4, <3>2, <3>3
  <2> QED BY <2>5, <2>6
<1> QED BY <1>5, <1>6, <1>7 DEF OnDriverBufferComplete

\* A result in delivery becomes a result delivered.
LEMMA TallyDispatch ==
  ASSUME IInv, TallyInv, DispatchResult
  PROVE  TallyInv'
<1>1. /\ worker.pc = "dispatch" /\ Deliver({worker.result})
      /\ UNCHANGED <<tracker, tasks, control, frameworkVars>>
      /\ worker' = IF IsReady(worker.request)
                   THEN [worker EXCEPT !.pc = "ready", !.result = None] ELSE IdleWorker
  BY DEF DispatchResult, sessionVars
<1>2. /\ WorkerOK(worker, driver) /\ worker.result \in ResultSet
      /\ results \in [Frames -> Nat] /\ held \subseteq Buffers
  BY <1>1 DEF IInv, Shape, ThreadInv
<1>3. worker'.pc # "submit" /\ worker'.result = None
  BY <1>1, <1>2, IdleWorkerOK DEF WorkerOK
<1>4. \A f \in Frames : results'[f] = results[f] + Dispatching(f)
  <2>1. {worker.result} \in SUBSET (ResultSet \cup {None}) /\ IsFiniteSet({worker.result})
        /\ \A x, y \in {worker.result} : x.frame = y.frame => x = y
    BY <1>2, FS_Singleton
  <2>2. \A f \in Frames : results'[f] = results[f]
                            + (IF \E x \in {worker.result} : x.frame = f THEN 1 ELSE 0)
    BY <1>1, <1>2, <2>1, DeliverOne
  <2> QED BY <2>2 DEF Dispatching
<1>5. ASSUME NEW f \in Frames PROVE Tally(f)' = Accepted(f)'
  <2>1. /\ Queued(f)' = Queued(f) /\ Flushing(f)' = Flushing(f) /\ InFlight(f)' = InFlight(f)
        /\ Accepted(f)' = Accepted(f)
    BY <1>1, PlacesKept DEF frameworkVars
  <2>2. Submitting(f)' = 0 /\ Submitting(f) = 0 /\ Dispatching(f)' = 0
    BY <1>1, <1>3, FramesOK DEF Submitting, Dispatching, None
  <2>3. /\ results[f] \in Nat
        /\ Queued(f) + Submitting(f) + InFlight(f) + Flushing(f) + Dispatching(f) + results[f]
             = Accepted(f)
        /\ Queued(f) \in 0..1 /\ Submitting(f) \in 0..1 /\ InFlight(f) \in 0..1
        /\ Flushing(f) \in 0..1 /\ Dispatching(f) \in 0..1
    BY TallyBounds
  <2> QED BY <1>4, <2>1, <2>2, <2>3 DEF Tally
<1> QED BY <1>1, <1>5 DEF TallyInv, frameworkVars

\* The results of a flush in delivery become results delivered.
LEMMA TallyDispatchFlushed ==
  ASSUME IInv, TallyInv, DispatchFlushed
  PROVE  TallyInv'
<1>1. /\ Deliver(control.results) /\ control' = IdleControl
      /\ UNCHANGED <<tracker, tasks, worker, frameworkVars>>
  BY DEF DispatchFlushed, sessionVars
<1>2. /\ ControlOK(control) /\ results \in [Frames -> Nat] /\ held \subseteq Buffers
  BY DEF IInv, Shape
<1>3. \A f \in Frames : results'[f] = results[f] + Flushing(f)
  <2>1. control.results \in SUBSET (ResultSet \cup {None}) /\ IsFiniteSet(control.results)
        /\ \A x, y \in control.results : x.frame = y.frame => x = y
    BY <1>2 DEF ControlOK, TallyInv
  <2>2. \A f \in Frames : results'[f] = results[f]
                            + (IF \E x \in control.results : x.frame = f THEN 1 ELSE 0)
    BY <1>1, <1>2, <2>1, DeliverOne
  <2> QED BY <2>2 DEF Flushing
<1>4. control'.results = {}
  BY <1>1, IdleControlOK
<1>5. ASSUME NEW f \in Frames PROVE Tally(f)' = Accepted(f)'
  <2>1. /\ Queued(f)' = Queued(f) /\ Flushing(f)' = 0 /\ InFlight(f)' = InFlight(f)
        /\ Accepted(f)' = Accepted(f) /\ Submitting(f)' = Submitting(f)
        /\ Dispatching(f)' = Dispatching(f)
    BY <1>1, <1>4 DEF frameworkVars, Queued, Flushing, InFlight, Accepted, Submitting, Dispatching
  <2>2. /\ results[f] \in Nat
        /\ Queued(f) + Submitting(f) + InFlight(f) + Flushing(f) + Dispatching(f) + results[f]
             = Accepted(f)
        /\ Queued(f) \in 0..1 /\ Submitting(f) \in 0..1 /\ InFlight(f) \in 0..1
        /\ Flushing(f) \in 0..1 /\ Dispatching(f) \in 0..1
    BY TallyBounds
  <2> QED BY <1>3, <2>1, <2>2 DEF Tally
<1> QED BY <1>1, <1>4, <1>5 DEF TallyInv, frameworkVars

\* Flush and close move every row of the table into the results of the control
\* thread, and no row is left behind.
LEMMA TallyFlush ==
  ASSUME IInv, TallyInv, control.pc = "idle",
         tracker' = ClearStreamingOutputs(FlushAll(tracker)),
         control'.results = Flushed,
         UNCHANGED <<tasks, worker, frameworkVars, results>>
  PROVE  TallyInv'
<1>1. TrackerOK(tracker) /\ control.results = {}
  BY DEF IInv, Shape, ThreadInv
<1>2. DOMAIN tracker'.requests = {}
  BY <1>1, FlushedTrackerIs
<1>3. /\ \A x \in Flushed : x.frame \in DOMAIN tracker.requests
                            /\ x = Result(x.frame, BuffersOf(tracker.requests[x.frame].outputs))
      /\ \A f \in DOMAIN tracker.requests : \E x \in Flushed : x.frame = f
  <2> DEFINE R(f) == Result(f, BuffersOf(tracker.requests[f].outputs))
  <2>1. \A f : R(f).frame = f
    BY DEF Result
  <2>2. Flushed = {R(f) : f \in DOMAIN tracker.requests}
    BY DEF Flushed
  <2> HIDE DEF R
  <2>3. \A x \in Flushed : x.frame \in DOMAIN tracker.requests /\ x = R(x.frame)
    BY <2>1, <2>2
  <2>4. \A f \in DOMAIN tracker.requests : R(f) \in Flushed
    BY <2>2
  <2> QED BY <2>1, <2>3, <2>4 DEF R
<1>4. ASSUME NEW f \in Frames PROVE Tally(f)' = Accepted(f)'
  <2>1. /\ Queued(f)' = Queued(f) /\ InFlight(f)' = 0
        /\ Accepted(f)' = Accepted(f) /\ Submitting(f)' = Submitting(f)
        /\ Dispatching(f)' = Dispatching(f) /\ Flushing(f) = 0
    BY <1>1, <1>2 DEF frameworkVars, Queued, Flushing, InFlight, Accepted, Submitting, Dispatching
  <2>2. Flushing(f)' = InFlight(f)
    BY <1>3 DEF Flushing, InFlight
  <2>3. /\ results[f] \in Nat /\ results'[f] = results[f]
        /\ Queued(f) + Submitting(f) + InFlight(f) + Flushing(f) + Dispatching(f) + results[f]
             = Accepted(f)
        /\ Queued(f) \in 0..1 /\ Submitting(f) \in 0..1 /\ InFlight(f) \in 0..1
        /\ Flushing(f) \in 0..1 /\ Dispatching(f) \in 0..1
    BY TallyBounds
  <2> QED BY <2>1, <2>2, <2>3 DEF Tally
<1>5. \A x, y \in Flushed : x.frame = y.frame => x = y
  BY <1>3
<1> QED BY <1>4, <1>5 DEF TallyInv, frameworkVars

-----------------------------------------------------------------------------
\* The remaining steps of the control thread and of the worker move no request.
LEMMA TallyOthers ==
  ASSUME IInv, TallyInv,
         \/ ConfigureStreams \/ StartStreaming \/ QueuePreview \/ UnregisterSession
         \/ DequeueCompletion \/ StreamCallbackReturns \/ ReturnStreamBuffer \/ RearmFd
         \/ \E e \in Endpoints : \E i \in Index : DeviceFills(e, i)
  PROVE  TallyInv'
<1>1. TrackerOK(tracker) /\ WorkerOK(worker, driver) /\ ControlOK(control)
  BY DEF IInv, Shape
<1>2. CASE ConfigureStreams \/ \E e \in Endpoints : \E i \in Index : DeviceFills(e, i)
  BY <1>2, TallyKept DEF ConfigureStreams, DeviceFills, deliveryVars
<1>3. CASE StartStreaming
  <2>1. control'.results = control.results
    BY <1>1, <1>3 DEF StartStreaming, ControlOK
  <2> QED BY <1>3, <2>1, TallyKept DEF StartStreaming, deliveryVars
<1>4. CASE QueuePreview
  <2>1. control.pc = "preview" /\ UNCHANGED <<tasks, worker, frameworkVars, results>>
    BY <1>4 DEF QueuePreview, deliveryVars
  <2>2. control'.results = control.results
    <3>1. control.results = {}
      BY <2>1 DEF IInv, ThreadInv
    <3>2. CASE control' = IdleControl
      BY <3>1, <3>2, IdleControlOK
    <3>3. CASE control' # IdleControl
      <4>1. control' = [control EXCEPT !.tokens = Append(control.tokens, driver.nextToken)]
        BY <1>4, <3>3 DEF QueuePreview
      <4> QED BY <1>1, <4>1 DEF ControlOK
    <3> QED BY <3>2, <3>3
  <2>3. DOMAIN tracker'.requests = DOMAIN tracker.requests
    <3>1. CASE tracker' = tracker
      BY <3>1
    <3>2. CASE tracker' # tracker
      <4>1. tracker' = TrackPreviews(Append(control.tokens, driver.nextToken))
        BY <1>4, <3>2 DEF QueuePreview
      <4> QED BY <1>1, <4>1 DEF TrackPreviews, TrackerOK
    <3> QED BY <3>1, <3>2
  <2> QED BY <2>1, <2>2, <2>3, TallyKept
<1>5. CASE UnregisterSession
  <2>1. control'.results = control.results
    BY <1>1, <1>5 DEF UnregisterSession, ControlOK
  <2> QED BY <1>5, <2>1, TallyKept DEF UnregisterSession, sessionVars, deliveryVars
<1>6. CASE DequeueCompletion
  <2>1. worker.pc = "ready" /\ worker'.pc \in {"complete", "rearm"} /\ worker'.result = worker.result
    <3>1. worker' = [worker EXCEPT !.pc = "rearm"] \/
          \E x : worker' = [worker EXCEPT !.pc = "complete", !.token = x]
      BY <1>6 DEF DequeueCompletion
    <3>2. worker.pc = "ready"
      BY <1>6 DEF DequeueCompletion
    <3> QED BY <1>1, <3>1, <3>2 DEF WorkerOK
  <2> QED BY <1>6, <2>1, TallyKept DEF DequeueCompletion, deliveryVars
<1>7. CASE StreamCallbackReturns
  <2>1. worker.pc = "callback" /\ worker'.pc = "return" /\ worker'.result = worker.result
    BY <1>1, <1>7 DEF StreamCallbackReturns, WorkerOK
  <2> QED BY <1>7, <2>1, TallyKept DEF StreamCallbackReturns, sessionVars, deliveryVars
<1>8. CASE ReturnStreamBuffer
  <2>1. worker.pc = "return" /\ worker'.pc = "ready" /\ worker'.result = worker.result
    BY <1>1, <1>8 DEF ReturnStreamBuffer, WorkerOK
  <2>2. DOMAIN tracker'.requests = DOMAIN tracker.requests
    <3>1. CASE tracker' = tracker
      BY <3>1
    <3>2. CASE tracker' # tracker
      <4> DEFINE t == RegisterStreamingOutput(tracker, nextFrame, worker.lease)
      <4>1. tracker' = BindDriverOutput(t, ReturnedToken(driver, worker.lease),
                                        Context(nextFrame, Preview))
        BY <1>8, <3>2 DEF ReturnStreamBuffer
      <4>2. t \in [requests : {tracker.requests}, streaming : {t.streaming}, bound : {tracker.bound}]
        BY <1>1 DEF RegisterStreamingOutput, TrackerOK
      <4> HIDE DEF t
      <4> QED BY <4>1, <4>2 DEF BindDriverOutput
    <3> QED BY <3>1, <3>2
  <2> QED BY <1>8, <2>1, <2>2, TallyKept DEF ReturnStreamBuffer, deliveryVars
<1>9. CASE RearmFd
  <2>1. worker.pc = "rearm" /\ worker'.pc = "idle" /\ worker'.result = worker.result
    BY <1>9, IdleWorkerOK DEF RearmFd, IInv, ThreadInv
  <2> QED BY <1>9, <2>1, TallyKept DEF RearmFd, sessionVars, deliveryVars
<1> QED BY <1>2, <1>3, <1>4, <1>5, <1>6, <1>7, <1>8, <1>9

\* Every step of the session keeps the tally.
LEMMA TallyNext ==
  ASSUME DistinctFrames, IInv, TallyInv, [Next]_vars
  PROVE  TallyInv'
<1>1. CASE UNCHANGED vars
  BY <1>1, TallyKept DEF vars, frameworkVars
<1>2. CASE \E r \in Requests : ProcessCaptureRequest(r)
  BY <1>2, TallyProcess
<1>3. CASE PostRequest
  BY <1>3, TallyPost
<1>4. CASE Flush
  <2>1. control'.results = Flushed
    BY <1>4 DEF Flush, IInv, Shape, ControlOK
  <2> QED BY <1>4, <2>1, TallyFlush DEF Flush, deliveryVars
<1>5. CASE Close
  <2>1. control'.results = Flushed
    BY <1>5 DEF Close, IInv, Shape, ControlOK
  <2> QED BY <1>5, <2>1, TallyFlush DEF Close, deliveryVars
<1>6. CASE ConfigureStreams \/ StartStreaming
  BY <1>6, TallyOthers
<1>7. CASE ControlStep
  BY <1>7, TallyOthers, TallyDispatchFlushed DEF ControlStep
<1>8. CASE WorkerStep
  BY <1>8, TallyPop, TallySubmit, TallyQueueOutput, TallyComplete, TallyDispatch,
     TallyOthers DEF WorkerStep
<1>9. CASE \E e \in Endpoints : OnDriverFdReady(e) \/ \E i \in Index : DeviceFills(e, i)
  BY <1>9, TallyFdReady, TallyOthers
<1>10. CASE Sleep \/ Wake
  BY <1>10, TallyKept DEF Sleep, Wake, sessionVars, deliveryVars
<1> QED BY <1>1, <1>2, <1>3, <1>4, <1>5, <1>6, <1>7, <1>8, <1>9, <1>10 DEF Next

\* A set with at most one member.
LEMMA CardinalityOne ==
  ASSUME NEW S, \A x, y \in S : x = y
  PROVE  Cardinality(S) = IF S = {} THEN 0 ELSE 1
<1>1. CASE S = {}
  BY <1>1, FS_EmptySet
<1>2. CASE S # {}
  <2>1. PICK x \in S : TRUE
    BY <1>2
  <2>2. S = {x}
    BY <2>1
  <2> QED BY <1>2, <2>2, FS_Singleton
<1> QED BY <1>1, <1>2

\* The sum of indicators is the sum of cardinalities.
LEMMA TallyIsPlaces ==
  ASSUME DistinctFrames, IInv, TallyInv
  PROVE  RequestConserved
<1> SUFFICES ASSUME NEW f \in Frames
             PROVE  Places(f) = Cardinality({r \in accepted : r.frame = f})
  BY DEF RequestConserved
<1> DEFINE Q == {k \in DOMAIN tasks : tasks[k].frame = f}
           W == {x \in {worker} : x.pc = "submit" /\ x.request.frame = f}
           T == {f} \cap DOMAIN tracker.requests
           C == {x \in control.results \cup {worker.result} : x.frame = f}
           A == {r \in accepted : r.frame = f}
<1>1. f # 0
  BY FramesOK
<1>2. Cardinality(Q) = Queued(f)
  <2>1. \A x, y \in Q : x = y
    BY <1>1 DEF TallyInv
  <2>2. Cardinality(Q) = IF Q = {} THEN 0 ELSE 1
    BY <2>1, CardinalityOne
  <2> QED BY <2>2 DEF Queued
<1>3. Cardinality(W) = Submitting(f)
  <2>1. \A x, y \in W : x = y
    OBVIOUS
  <2>2. Cardinality(W) = IF W = {} THEN 0 ELSE 1
    BY <2>1, CardinalityOne
  <2> QED BY <2>2 DEF Submitting
<1>4. Cardinality(T) = InFlight(f)
  <2>1. \A x, y \in T : x = y
    OBVIOUS
  <2>2. Cardinality(T) = IF T = {} THEN 0 ELSE 1
    BY <2>1, CardinalityOne
  <2> QED BY <2>2 DEF InFlight
<1>5. Cardinality(A) = Accepted(f)
  <2>1. \A x, y \in A : x = y
    BY DEF DistinctFrames, IInv, Shape
  <2>2. Cardinality(A) = IF A = {} THEN 0 ELSE 1
    BY <2>1, CardinalityOne
  <2> QED BY <2>2 DEF Accepted
<1>6. /\ results[f] \in Nat
      /\ Queued(f) + Submitting(f) + InFlight(f) + Flushing(f) + Dispatching(f) + results[f]
           = Accepted(f)
      /\ Queued(f) \in 0..1 /\ Submitting(f) \in 0..1 /\ InFlight(f) \in 0..1
      /\ Flushing(f) \in 0..1 /\ Dispatching(f) \in 0..1 /\ Accepted(f) \in 0..1
  BY TallyBounds
<1>7. Cardinality(C) = Flushing(f) + Dispatching(f)
  <2>1. ~(Flushing(f) = 1 /\ Dispatching(f) = 1)
    BY <1>6
  <2>2. \A x, y \in C : x = y
    BY <2>1 DEF Flushing, Dispatching, TallyInv
  <2>3. Cardinality(C) = IF C = {} THEN 0 ELSE 1
    BY <2>2, CardinalityOne
  <2>4. C = {} <=> Flushing(f) = 0 /\ Dispatching(f) = 0
    BY DEF Flushing, Dispatching
  <2> HIDE DEF C
  <2> QED BY <1>6, <2>1, <2>3, <2>4
<1> HIDE DEF Q, W, T, C, A
<1>8. Cardinality(Q) + Cardinality(W) + Cardinality(T) + Cardinality(C) + results[f]
        = Cardinality(A)
  BY <1>2, <1>3, <1>4, <1>5, <1>6, <1>7
<1> QED BY <1>8 DEF Places, Q, W, T, C, A

\* interface/camera_device.h, camera_device_session.cpp: an accepted request is
\* in exactly one place, the shard queue, the worker, the table, a result on its
\* way or the framework's callback, whatever the order of submission,
\* completion, failure, flush and close; it is never lost or answered twice.
THEOREM RequestConservedAlways ==
  ASSUME DistinctFrames
  PROVE  Spec => []RequestConserved
<1>1. Init => IInv /\ TallyInv
  BY InitInv, TallyInit
<1>2. (IInv /\ TallyInv) /\ [Next]_vars => (IInv /\ TallyInv)'
  BY NextInv, TallyNext
<1>3. IInv /\ TallyInv => RequestConserved
  BY TallyIsPlaces
<1> QED BY <1>1, <1>2, <1>3, PTL DEF Spec
=============================================================================
