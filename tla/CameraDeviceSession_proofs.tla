---------------------- MODULE CameraDeviceSession_proofs ---------------------
(***************************************************************************)
(* The camera session, for every set of requests, buffers and backends and *)
(* all bounds.  The invariant is proved action by action from the lemmas   *)
(* of DriverAdapter_proofs about the driver and the ones below about the   *)
(* request tracker.                                                        *)
(***************************************************************************)
EXTENDS CameraDeviceSession, DriverAdapter_proofs, FiniteSetTheorems

DriverBuffers == Buffers \cup Previews \cup {NoBuffer}

\* The sets the fields of the tables, of the queue and of the threads range over.
OutputSet == Seq(Buffers \cup {NoBuffer}) \ {<<>>}
RowSet == [outputs : OutputSet, completed : SUBSET Nat,
           state : {"Submitted", "QueuedToDriver"}]
ContextSet == [frame : Nat, index : Nat]
ResultSet == [frame : Frames, buffers : SUBSET Buffers]
ReadySet(d) == {Ready(e) : e \in EventFds(d)}
NoRequest == [frame |-> 0, buffers |-> <<>>]

TrackerOK(t) ==
  /\ t \in [requests : {t.requests}, streaming : {t.streaming}, bound : {t.bound}]
  /\ t.requests \in [DOMAIN t.requests -> RowSet]
  /\ t.streaming \in [DOMAIN t.streaming -> Previews]
  /\ t.bound \in [DOMAIN t.bound -> ContextSet]
  /\ DOMAIN t.requests \subseteq Frames /\ IsFiniteSet(DOMAIN t.requests)
  /\ DOMAIN t.streaming \subseteq Nat /\ DOMAIN t.bound \subseteq Nat \ {0}

WorkerOK(w, d) ==
  w \in [pc : {"idle", "submit", "queue", "ready", "complete", "callback",
               "return", "dispatch", "rearm"},
         request : Requests \cup ReadySet(d) \cup {NoRequest},
         index : Nat \ {0}, token : Nat, lease : Previews \cup {NoBuffer},
         result : ResultSet \cup {None}]

ControlOK(c) ==
  /\ c \in [pc : {"idle", "preview", "unregister", "dispatch"}, tokens : Seq(Nat),
            results : SUBSET ResultSet]
  /\ IsFiniteSet(c.results)

\* What every component of the state ranges over.
Shape ==
  /\ state \in {"Created", "Configured", "Streaming", "Stopped", "Error"}
  /\ TrackerOK(tracker)
  /\ DriverOK(driver, DriverBuffers) /\ \E c \in Backends : SameConfig(c, driver)
  /\ lock \in {"free", "worker", "control"}
  /\ nextFrame \in Nat /\ StreamBase <= nextFrame
  /\ tasks \in Seq(Requests \cup ReadySet(driver)) /\ Len(tasks) <= QueueCapacity
  /\ asleep \in BOOLEAN /\ dropped \subseteq [fd : Endpoints, full : BOOLEAN]
  /\ armed \subseteq EventFds(driver)
  /\ sub \in Requests \cup {None}
  /\ ControlOK(control) /\ WorkerOK(worker, driver)
  /\ unsent \subseteq Requests /\ accepted \subseteq Requests
  /\ results \in [Frames -> Nat] /\ held \subseteq Buffers
  /\ starts \in 0..MaxStarts /\ fills \in 0..MaxPreviews

\* What the threads carry at each point of their code, and who has the mutex.
ThreadInv ==
  /\ lock = "worker" <=> worker.pc = "queue"
  /\ lock = "control" <=> control.pc = "preview"
  /\ worker.pc \in {"submit", "queue"} => worker.request \in Requests
  /\ worker.pc \in {"ready", "complete", "callback", "return", "rearm"} =>
       worker.request \in ReadySet(driver)
  /\ worker.pc = "dispatch" => worker.request # NoRequest
  /\ worker.pc = "submit" => worker.index = 1
  /\ worker.pc = "complete" => worker.token # 0
  /\ worker.pc \in {"callback", "return"} => worker.lease \in Previews
  /\ worker.pc # "dispatch" => worker.result = None
  /\ worker.pc = "dispatch" => worker.result \in ResultSet
  /\ control.pc \in {"idle", "preview"} => control.results = {}
  /\ control.pc # "preview" => control.tokens = <<>>
  /\ control.pc = "preview" => state = "Configured" /\ PreviewBuffers # <<>>

\* Tokens and preview frame numbers in the tables were drawn before, and no two
\* tokens are bound to the same output.
BindInv ==
  /\ DOMAIN tracker.bound \subseteq 1..(driver.nextToken - 1)
  /\ DOMAIN tracker.streaming \subseteq StreamBase..(nextFrame - 1)
  /\ \A x, y \in DOMAIN tracker.bound : tracker.bound[x] = tracker.bound[y] => x = y

\* Output k of frame f, with buffer b, has a token that is owed.
Backed(f, k, b) ==
  \E x \in DOMAIN tracker.bound : tracker.bound[x] = Context(f, k) /\ Owed(x, b)

\* While the worker queues the outputs of a request, its row is as start left
\* it, and the outputs before worker.index, and no others, are bound.
QueueInv ==
  worker.pc = "queue" =>
    LET f == worker.request.frame
        outputs == OutputsOf(worker.request) IN
    /\ f \in DOMAIN tracker.requests
    /\ tracker.requests[f].outputs = outputs
    /\ tracker.requests[f].completed = {}
    /\ tracker.requests[f].state = "Submitted"
    /\ worker.index <= Len(outputs)
    /\ \A x \in DOMAIN tracker.bound :
         tracker.bound[x].frame = f => tracker.bound[x].index < worker.index
    /\ \A k \in 1..(worker.index - 1) : Backed(f, k, outputs[k])

\* While the control thread queues preview buffers, their tokens are fresh.
PreviewInv ==
  control.pc = "preview" =>
    /\ Len(control.tokens) < Len(PreviewBuffers)
    /\ \A k \in DOMAIN control.tokens :
         /\ control.tokens[k] \in 1..(driver.nextToken - 1)
         /\ control.tokens[k] \notin DOMAIN tracker.bound
         /\ Owes(driver, control.tokens[k], PreviewBuffers[k])
    /\ \A j, k \in DOMAIN control.tokens :
         control.tokens[j] = control.tokens[k] => j = k

\* The node of the preview is in continuous mode while the session streams.
ContinuousInv ==
  (~IsMock(driver) /\ PreviewBuffers # <<>>
     /\ (state = "Streaming" \/ control.pc = "preview"))
  => Continuous(driver, driver.route[PreviewBuffers[1]])

\* Owed, as an operator of the driver and the worker.
OwedBy(d, w, x, b) == Owes(d, x, b) \/ (w.pc = "complete" /\ w.token = x)

IInv == /\ Shape /\ ThreadInv /\ BindInv /\ BindingsResolve
        /\ QueueInv /\ PreviewInv /\ ContinuousInv /\ RowsBacked

-----------------------------------------------------------------------------
\* The tables of the tracker.

\* A table after an insertion.
LEMMA PutIs ==
  ASSUME NEW m, NEW k, NEW v
  PROVE  /\ DOMAIN Put(m, k, v) = DOMAIN m \cup {k}
         /\ Put(m, k, v)[k] = v
         /\ \A x \in DOMAIN m : x # k => Put(m, k, v)[x] = m[x]
  BY DEF Put

\* An insertion keeps the type of a table.
LEMMA PutType ==
  ASSUME NEW S, NEW m, m \in [DOMAIN m -> S], NEW k, NEW v \in S
  PROVE  Put(m, k, v) \in [DOMAIN m \cup {k} -> S]
  BY DEF Put

\* A table after an erasure.
LEMMA WithoutIs ==
  ASSUME NEW m, NEW K
  PROVE  /\ DOMAIN Without(m, K) = DOMAIN m \ K
         /\ \A x \in DOMAIN m \ K : Without(m, K)[x] = m[x]
  BY DEF Without, Restrict

\* An erasure keeps the type of a table.
LEMMA WithoutType ==
  ASSUME NEW S, NEW m, m \in [DOMAIN m -> S], NEW K
  PROVE  Without(m, K) \in [DOMAIN m \ K -> S]
  BY DEF Without, Restrict

\* The empty table has every type.
LEMMA EmptyTable ==
  DOMAIN <<>> = {} /\ \A S : <<>> \in [{} -> S]
<1>1. \A S : <<>> \in Seq(S) /\ Len(<<>>) = 0
  OBVIOUS
<1>2. DOMAIN <<>> = {}
  BY <1>1
<1>3. <<>> = [x \in {} |-> 0]
  BY <1>2
<1> QED BY <1>2, <1>3

\* A new tracker is well formed.
LEMMA EmptyTrackerOK == TrackerOK(EmptyTracker)
  BY EmptyTable, FS_EmptySet DEF EmptyTracker, TrackerOK

\* start adds a row without completed outputs.
LEMMA StartIs ==
  ASSUME NEW t, TrackerOK(t), NEW f \in Frames, NEW o \in OutputSet
  PROVE  LET u == Start(t, f, o) IN
         /\ TrackerOK(u) /\ u.streaming = t.streaming /\ u.bound = t.bound
         /\ DOMAIN u.requests = DOMAIN t.requests \cup {f}
         /\ u.requests[f].outputs = o /\ u.requests[f].completed = {}
         /\ u.requests[f].state = "Submitted"
         /\ \A g \in DOMAIN t.requests : g # f => u.requests[g] = t.requests[g]
<1> DEFINE row == [outputs |-> o, completed |-> {}, state |-> "Submitted"]
           u == Start(t, f, o)
           p == Put(t.requests, f, row)
<1>1. row \in RowSet /\ row.outputs = o /\ row.completed = {} /\ row.state = "Submitted"
  BY DEF RowSet
<1> HIDE DEF row
<1>2. /\ DOMAIN p = DOMAIN t.requests \cup {f} /\ p[f] = row
      /\ \A g \in DOMAIN t.requests : g # f => p[g] = t.requests[g]
      /\ p \in [DOMAIN t.requests \cup {f} -> RowSet]
  <2>1. t.requests \in [DOMAIN t.requests -> RowSet]
    BY DEF TrackerOK
  <2>2. p \in [DOMAIN t.requests \cup {f} -> RowSet]
    BY <1>1, <2>1, PutType, Zenon
  <2>3. /\ DOMAIN p = DOMAIN t.requests \cup {f} /\ p[f] = row
        /\ \A g \in DOMAIN t.requests : g # f => p[g] = t.requests[g]
    BY DEF Put
  <2> QED BY <2>2, <2>3
<1>3. u = [t EXCEPT !.requests = p]
  BY DEF Start, row, TrackerOK
<1> HIDE DEF p, u
<1>4. u.requests = p /\ u.streaming = t.streaming /\ u.bound = t.bound
      /\ u \in [requests : {p}, streaming : {t.streaming}, bound : {t.bound}]
  BY <1>3 DEF TrackerOK
<1>5. IsFiniteSet(DOMAIN p)
  BY <1>2, FS_AddElement DEF TrackerOK
<1>6. TrackerOK(u)
  BY <1>2, <1>4, <1>5 DEF TrackerOK
<1> QED BY <1>1, <1>2, <1>4, <1>6 DEF u

\* mark_queued_to_driver changes the state of one row.
LEMMA MarkQueuedIs ==
  ASSUME NEW t, TrackerOK(t), NEW f \in DOMAIN t.requests
  PROVE  LET u == MarkQueuedToDriver(t, f) IN
         /\ TrackerOK(u) /\ u.streaming = t.streaming /\ u.bound = t.bound
         /\ DOMAIN u.requests = DOMAIN t.requests
         /\ u.requests[f].outputs = t.requests[f].outputs
         /\ u.requests[f].completed = t.requests[f].completed
         /\ u.requests[f].state = "QueuedToDriver"
         /\ \A g \in DOMAIN t.requests : g # f => u.requests[g] = t.requests[g]
<1> DEFINE row == [t.requests[f] EXCEPT !.state = "QueuedToDriver"]
           u == MarkQueuedToDriver(t, f)
           p == [t.requests EXCEPT ![f] = row]
<1>1. t.requests[f] \in RowSet /\ t.requests \in [DOMAIN t.requests -> RowSet]
  BY DEF TrackerOK
<1>2. /\ row \in RowSet /\ row.outputs = t.requests[f].outputs
      /\ row.completed = t.requests[f].completed /\ row.state = "QueuedToDriver"
  BY <1>1 DEF RowSet
<1>3. u = [t EXCEPT !.requests = p]
  BY DEF MarkQueuedToDriver, TrackerOK
<1> HIDE DEF row
<1>4. /\ DOMAIN p = DOMAIN t.requests /\ p[f] = row
      /\ \A g \in DOMAIN t.requests : g # f => p[g] = t.requests[g]
      /\ p \in [DOMAIN t.requests -> RowSet]
  BY <1>1, <1>2
<1> HIDE DEF p, u
<1>5. u.requests = p /\ u.streaming = t.streaming /\ u.bound = t.bound
      /\ u \in [requests : {p}, streaming : {t.streaming}, bound : {t.bound}]
  BY <1>3 DEF TrackerOK
<1>6. TrackerOK(u)
  BY <1>4, <1>5 DEF TrackerOK
<1> QED BY <1>2, <1>4, <1>5, <1>6 DEF u

\* Tracker u is t after output k of frame f has completed.
Completes(t, u, f, k) ==
  /\ TrackerOK(u) /\ u.streaming = t.streaming /\ u.bound = t.bound
  /\ DOMAIN u.requests = IF LastOutput(t, f, k) THEN DOMAIN t.requests \ {f}
                         ELSE DOMAIN t.requests
  /\ ~LastOutput(t, f, k) =>
       /\ u.requests[f].outputs = t.requests[f].outputs
       /\ u.requests[f].completed = t.requests[f].completed \cup {k}
       /\ u.requests[f].state = t.requests[f].state
  /\ \A g \in DOMAIN t.requests : g # f => u.requests[g] = t.requests[g]

\* complete_output removes the row with the last output, or records the output.
LEMMA CompleteOutputIs ==
  ASSUME NEW t, TrackerOK(t), NEW f \in DOMAIN t.requests, NEW k \in Nat
  PROVE  Completes(t, CompleteOutput(t, f, k), f, k)
<1> DEFINE row == [t.requests[f] EXCEPT !.completed = @ \cup {k}]
           u == CompleteOutput(t, f, k)
           p == IF LastOutput(t, f, k) THEN Without(t.requests, {f})
                ELSE [t.requests EXCEPT ![f] = row]
<1>1. t.requests[f] \in RowSet /\ t.requests \in [DOMAIN t.requests -> RowSet]
  BY DEF TrackerOK
<1>2. /\ row \in RowSet /\ row.outputs = t.requests[f].outputs
      /\ row.completed = t.requests[f].completed \cup {k} /\ row.state = t.requests[f].state
  BY <1>1 DEF RowSet
<1>3. u = [t EXCEPT !.requests = p]
  BY DEF CompleteOutput, TrackerOK
<1> HIDE DEF row
<1>4. /\ DOMAIN p = IF LastOutput(t, f, k) THEN DOMAIN t.requests \ {f} ELSE DOMAIN t.requests
      /\ ~LastOutput(t, f, k) => p[f] = row
      /\ \A g \in DOMAIN t.requests : g # f => p[g] = t.requests[g]
      /\ p \in [DOMAIN p -> RowSet]
  <2>1. CASE LastOutput(t, f, k)
    <3>1. p = Without(t.requests, {f})
      BY <2>1
    <3> HIDE DEF p
    <3>2. p \in [DOMAIN t.requests \ {f} -> RowSet]
      BY <1>1, <3>1, WithoutType, Zenon
    <3>3. /\ DOMAIN p = DOMAIN t.requests \ {f}
          /\ \A g \in DOMAIN t.requests \ {f} : p[g] = t.requests[g]
      BY <3>1, WithoutIs, Zenon
    <3> QED BY <2>1, <3>2, <3>3
  <2>2. CASE ~LastOutput(t, f, k)
    BY <1>1, <1>2, <2>2
  <2> QED BY <2>1, <2>2
<1> HIDE DEF p, u
<1>5. u.requests = p /\ u.streaming = t.streaming /\ u.bound = t.bound
      /\ u \in [requests : {p}, streaming : {t.streaming}, bound : {t.bound}]
  BY <1>3 DEF TrackerOK
<1>6. IsFiniteSet(DOMAIN p) /\ DOMAIN p \subseteq Frames
  <2>1. DOMAIN p \subseteq DOMAIN t.requests
    BY <1>4
  <2> QED BY <2>1, FS_Subset DEF TrackerOK
<1>7. TrackerOK(u)
  BY <1>4, <1>5, <1>6 DEF TrackerOK
<1>8. Completes(t, u, f, k)
  BY <1>2, <1>4, <1>5, <1>7 DEF Completes
<1> QED BY <1>8 DEF u

\* A tracker of well-formed tables is well formed.
LEMMA TablesOK ==
  ASSUME NEW p, p \in [DOMAIN p -> RowSet], DOMAIN p \subseteq Frames,
         IsFiniteSet(DOMAIN p),
         NEW q, q \in [DOMAIN q -> Previews], DOMAIN q \subseteq Nat,
         NEW b, b \in [DOMAIN b -> ContextSet], DOMAIN b \subseteq Nat \ {0},
         NEW u, u = [requests |-> p, streaming |-> q, bound |-> b]
  PROVE  /\ TrackerOK(u) /\ u.requests = p /\ u.streaming = q /\ u.bound = b
<1>1. u.requests = p /\ u.streaming = q /\ u.bound = b
  OBVIOUS
<1>2. u \in [requests : {p}, streaming : {q}, bound : {b}]
  OBVIOUS
<1> QED BY <1>1, <1>2 DEF TrackerOK

\* The fields of a well-formed tracker.
LEMMA TrackerTables ==
  ASSUME NEW t, TrackerOK(t)
  PROVE  /\ t.requests \in [DOMAIN t.requests -> RowSet]
         /\ DOMAIN t.requests \subseteq Frames /\ IsFiniteSet(DOMAIN t.requests)
         /\ t.streaming \in [DOMAIN t.streaming -> Previews] /\ DOMAIN t.streaming \subseteq Nat
         /\ t.bound \in [DOMAIN t.bound -> ContextSet] /\ DOMAIN t.bound \subseteq Nat \ {0}
  BY DEF TrackerOK

\* register_streaming_output adds a row under a fresh preview frame number.
LEMMA RegisterStreamingIs ==
  ASSUME NEW t, TrackerOK(t), NEW f \in Nat, f \notin DOMAIN t.streaming, NEW v \in Previews
  PROVE  LET u == RegisterStreamingOutput(t, f, v) IN
         /\ TrackerOK(u) /\ u.requests = t.requests /\ u.bound = t.bound
         /\ DOMAIN u.streaming = DOMAIN t.streaming \cup {f}
         /\ u.streaming[f] = v
         /\ \A g \in DOMAIN t.streaming : u.streaming[g] = t.streaming[g]
<1> DEFINE u == RegisterStreamingOutput(t, f, v)
           q == Put(t.streaming, f, v)
<1>1. /\ t.streaming \in [DOMAIN t.streaming -> Previews] /\ DOMAIN t.streaming \subseteq Nat
  BY TrackerTables
<1>2. q \in [DOMAIN t.streaming \cup {f} -> Previews]
  BY <1>1, PutType, Zenon
<1>3. /\ DOMAIN q = DOMAIN t.streaming \cup {f} /\ q[f] = v
      /\ \A g \in DOMAIN t.streaming : q[g] = t.streaming[g]
  BY DEF Put
<1>4. u = [requests |-> t.requests, streaming |-> q, bound |-> t.bound]
  <2> HIDE DEF q
  <2> QED BY DEF RegisterStreamingOutput, TrackerOK, q
<1> HIDE DEF q, u
<1>5. TrackerOK(u) /\ u.requests = t.requests /\ u.streaming = q /\ u.bound = t.bound
  BY <1>1, <1>2, <1>3, <1>4, TablesOK, TrackerTables
<1> QED BY <1>3, <1>5 DEF u

\* bind_driver_output with a token that is free to use.
LEMMA BindIs ==
  ASSUME NEW t, TrackerOK(t), NEW x \in Nat \ {0}, x \notin DOMAIN t.bound,
         NEW c \in ContextSet
  PROVE  LET u == BindDriverOutput(t, x, c) IN
         /\ TrackerOK(u) /\ u.requests = t.requests /\ u.streaming = t.streaming
         /\ DOMAIN u.bound = DOMAIN t.bound \cup {x}
         /\ u.bound[x] = c
         /\ \A y \in DOMAIN t.bound : u.bound[y] = t.bound[y]
<1> DEFINE u == BindDriverOutput(t, x, c)
           q == Put(t.bound, x, c)
<1>1. /\ t.bound \in [DOMAIN t.bound -> ContextSet] /\ DOMAIN t.bound \subseteq Nat \ {0}
  BY TrackerTables
<1>2. q \in [DOMAIN t.bound \cup {x} -> ContextSet]
  BY <1>1, PutType, Zenon
<1>3. /\ DOMAIN q = DOMAIN t.bound \cup {x} /\ q[x] = c
      /\ \A y \in DOMAIN t.bound : q[y] = t.bound[y]
  BY DEF Put
<1>4. u = [requests |-> t.requests, streaming |-> t.streaming, bound |-> q]
  <2> HIDE DEF q
  <2> QED BY DEF BindDriverOutput, CanBind, TrackerOK, q
<1> HIDE DEF q, u
<1>5. TrackerOK(u) /\ u.requests = t.requests /\ u.streaming = t.streaming /\ u.bound = q
  BY <1>1, <1>2, <1>3, <1>4, TablesOK, TrackerTables
<1> QED BY <1>3, <1>5 DEF u

\* bind_driver_output refuses token 0.
LEMMA BindNothing ==
  ASSUME NEW t, NEW c
  PROVE  BindDriverOutput(t, 0, c) = t
  BY DEF BindDriverOutput, CanBind

\* take_driver_output_context consumes the binding and, with it, a preview row.
LEMMA TakeIs ==
  ASSUME NEW t, TrackerOK(t), NEW x
  PROVE  LET u == TakeDriverOutputContext(t, x)
             preview == x \in DOMAIN t.bound /\ t.bound[x].index = Preview IN
         /\ TrackerOK(u) /\ u.requests = t.requests
         /\ DOMAIN u.bound = DOMAIN t.bound \ {x}
         /\ \A y \in DOMAIN t.bound \ {x} : u.bound[y] = t.bound[y]
         /\ DOMAIN u.streaming = IF preview THEN DOMAIN t.streaming \ {t.bound[x].frame}
                                 ELSE DOMAIN t.streaming
         /\ \A g \in DOMAIN u.streaming : u.streaming[g] = t.streaming[g]
<1> DEFINE u == TakeDriverOutputContext(t, x)
           preview == x \in DOMAIN t.bound /\ t.bound[x].index = Preview
           b == Without(t.bound, {x})
           q == IF preview THEN Without(t.streaming, {t.bound[x].frame}) ELSE t.streaming
<1>1. /\ t.bound \in [DOMAIN t.bound -> ContextSet] /\ DOMAIN t.bound \subseteq Nat \ {0}
      /\ t.streaming \in [DOMAIN t.streaming -> Previews] /\ DOMAIN t.streaming \subseteq Nat
  BY TrackerTables
<1>2. /\ b \in [DOMAIN t.bound \ {x} -> ContextSet]
      /\ Without(t.streaming, {t.bound[x].frame})
           \in [DOMAIN t.streaming \ {t.bound[x].frame} -> Previews]
  BY <1>1, WithoutType, Zenon
<1>3. /\ DOMAIN b = DOMAIN t.bound \ {x}
      /\ \A y \in DOMAIN t.bound \ {x} : b[y] = t.bound[y]
  BY DEF Without, Restrict
<1>4. /\ DOMAIN q = IF preview THEN DOMAIN t.streaming \ {t.bound[x].frame}
                    ELSE DOMAIN t.streaming
      /\ \A g \in DOMAIN q : q[g] = t.streaming[g]
  BY DEF Without, Restrict
<1>5. q \in [DOMAIN q -> Previews] /\ DOMAIN q \subseteq Nat
  <2> HIDE DEF preview
  <2>1. CASE preview
    BY <1>1, <1>2, <1>4, <2>1
  <2>2. CASE ~preview
    BY <1>1, <2>2
  <2> QED BY <2>1, <2>2
<1>6. u = [requests |-> t.requests, streaming |-> q, bound |-> b]
  <2> DEFINE s == Without(t.streaming, {t.bound[x].frame})
  <2>1. u = IF preview THEN [[t EXCEPT !.bound = b] EXCEPT !.streaming = s]
                       ELSE [t EXCEPT !.bound = b]
    BY DEF TakeDriverOutputContext
  <2> HIDE DEF s, b, preview
  <2> DEFINE r == [t EXCEPT !.bound = b]
  <2>2. r = [requests |-> t.requests, streaming |-> t.streaming, bound |-> b]
    BY DEF TrackerOK
  <2> HIDE DEF r
  <2>3. [r EXCEPT !.streaming = s] = [requests |-> t.requests, streaming |-> s, bound |-> b]
    BY <2>2
  <2> QED BY <2>1, <2>2, <2>3 DEF s, r
<1> HIDE DEF q, u, b, preview
<1>7. TrackerOK(u) /\ u.requests = t.requests /\ u.streaming = q /\ u.bound = b
  <2>1. b \in [DOMAIN b -> ContextSet] /\ DOMAIN b \subseteq Nat \ {0}
    BY <1>1, <1>2, <1>3
  <2> QED BY <2>1, <1>5, <1>6, TablesOK, TrackerTables
<1> QED BY <1>3, <1>4, <1>7 DEF u, preview

\* The tracker after fill_failed_result_locked has neither the row of the frame
\* nor a token of it.
LEMMA FailedTrackerIs ==
  ASSUME NEW t, TrackerOK(t), NEW f
  PROVE  LET u == FailedTracker(t, f) IN
         /\ TrackerOK(u) /\ u.streaming = t.streaming
         /\ DOMAIN u.requests = DOMAIN t.requests \ {f}
         /\ \A g \in DOMAIN t.requests \ {f} : u.requests[g] = t.requests[g]
         /\ DOMAIN u.bound = {x \in DOMAIN t.bound : t.bound[x].frame # f}
         /\ \A x \in DOMAIN u.bound : u.bound[x] = t.bound[x]
<1> DEFINE u == FailedTracker(t, f)
           p == Without(t.requests, {f})
           K == {x \in DOMAIN t.bound : t.bound[x].frame = f}
           b == Without(t.bound, K)
<1>1. /\ t.bound \in [DOMAIN t.bound -> ContextSet] /\ DOMAIN t.bound \subseteq Nat \ {0}
      /\ t.requests \in [DOMAIN t.requests -> RowSet] /\ DOMAIN t.requests \subseteq Frames
      /\ IsFiniteSet(DOMAIN t.requests)
  BY TrackerTables
<1>2. u = [requests |-> p, streaming |-> t.streaming, bound |-> b]
  <2>1. Fail(t, f) = [requests |-> p, streaming |-> t.streaming, bound |-> t.bound]
    <3> HIDE DEF p
    <3> QED BY DEF Fail, TrackerOK, p
  <2> HIDE DEF p
  <2> DEFINE t2 == Fail(t, f)
  <2>2. t2.bound = t.bound /\ t2.streaming = t.streaming /\ t2.requests = p
        /\ t2 \in [requests : {p}, streaming : {t.streaming}, bound : {t.bound}]
    BY <2>1
  <2> HIDE DEF t2
  <2>3. u = [t2 EXCEPT !.bound = b]
    BY <2>2 DEF FailedTracker, ClearDriverOutputsForFrame, t2
  <2> HIDE DEF b, u
  <2> QED BY <2>2, <2>3
<1>3. p \in [DOMAIN t.requests \ {f} -> RowSet] /\ b \in [DOMAIN t.bound \ K -> ContextSet]
  <2> HIDE DEF K
  <2> QED BY <1>1, WithoutType, Zenon
<1>4. /\ DOMAIN p = DOMAIN t.requests \ {f}
      /\ \A g \in DOMAIN t.requests \ {f} : p[g] = t.requests[g]
      /\ DOMAIN b = DOMAIN t.bound \ K
      /\ \A x \in DOMAIN t.bound \ K : b[x] = t.bound[x]
  <2> HIDE DEF K
  <2> QED BY DEF Without, Restrict
<1>5. DOMAIN t.bound \ K = {x \in DOMAIN t.bound : t.bound[x].frame # f}
  OBVIOUS
<1> HIDE DEF u, p, K, b
<1>6. IsFiniteSet(DOMAIN p)
  BY <1>1, <1>4, FS_RemoveElement
<1>7. TrackerOK(u) /\ u.requests = p /\ u.streaming = t.streaming /\ u.bound = b
  <2>1. /\ p \in [DOMAIN p -> RowSet] /\ DOMAIN p \subseteq Frames
        /\ b \in [DOMAIN b -> ContextSet] /\ DOMAIN b \subseteq Nat \ {0}
    BY <1>1, <1>3, <1>4
  <2> QED BY <2>1, <1>2, <1>6, TablesOK, TrackerTables
<1> QED BY <1>4, <1>5, <1>7 DEF u

\* flush_all and clear_streaming_outputs leave the three tables empty.
LEMMA FlushedTrackerIs ==
  ASSUME NEW t, TrackerOK(t)
  PROVE  LET u == ClearStreamingOutputs(FlushAll(t)) IN
         /\ TrackerOK(u) /\ DOMAIN u.requests = {} /\ DOMAIN u.streaming = {}
         /\ DOMAIN u.bound = {}
<1>1. ClearStreamingOutputs(FlushAll(t)) = EmptyTracker
  <2>1. FlushAll(t) = [requests |-> <<>>, streaming |-> t.streaming, bound |-> <<>>]
    <3> DEFINE none == <<>>
    <3> HIDE DEF none
    <3>1. FlushAll(t) = [t EXCEPT !.requests = none, !.bound = none]
      BY DEF FlushAll, none
    <3>2. FlushAll(t) = [requests |-> none, streaming |-> t.streaming, bound |-> none]
      BY <3>1 DEF TrackerOK
    <3> QED BY <3>2 DEF none
  <2> QED BY <2>1 DEF ClearStreamingOutputs, EmptyTracker
<1> QED BY <1>1, EmptyTrackerOK, EmptyTable DEF EmptyTracker

\* The preview buffers are routed, and to the endpoint of the first one.
LEMMA PreviewsOK ==
  /\ PreviewBuffers \in Seq(Previews) /\ Len(PreviewBuffers) \in Nat
  /\ \A k \in 1..Len(PreviewBuffers) : PreviewBuffers[k] \in Previews
  /\ PreviewBuffers # <<>> => PreviewBuffers[1] \in Previews
<1>1. PreviewBuffers \in Seq(Previews)
  BY SessionAssumption
<1>2. Len(PreviewBuffers) \in Nat /\ \A k \in 1..Len(PreviewBuffers) : PreviewBuffers[k] \in Previews
  BY <1>1
<1>3. PreviewBuffers # <<>> => 1 \in 1..Len(PreviewBuffers)
  BY <1>1
<1> QED BY <1>1, <1>2, <1>3

\* The preview rows and tokens that start_streaming registers.
LEMMA TrackPreviewsIs ==
  ASSUME TrackerOK(tracker), nextFrame \in Nat,
         \A f \in DOMAIN tracker.streaming : f < nextFrame,
         NEW tokens \in Seq(Nat), Len(tokens) = Len(PreviewBuffers),
         \A k \in 1..Len(tokens) : tokens[k] # 0 /\ tokens[k] \notin DOMAIN tracker.bound,
         \A j, k \in 1..Len(tokens) : tokens[j] = tokens[k] => j = k
  PROVE  LET u == TrackPreviews(tokens)
             n == Len(tokens) IN
         /\ TrackerOK(u) /\ u.requests = tracker.requests
         /\ DOMAIN u.streaming = DOMAIN tracker.streaming \cup {nextFrame + k - 1 : k \in 1..n}
         /\ \A k \in 1..n : u.streaming[nextFrame + k - 1] = PreviewBuffers[k]
         /\ \A f \in DOMAIN tracker.streaming : u.streaming[f] = tracker.streaming[f]
         /\ DOMAIN u.bound = DOMAIN tracker.bound \cup {tokens[k] : k \in 1..n}
         /\ \A k \in 1..n : u.bound[tokens[k]] = Context(nextFrame + k - 1, Preview)
         /\ \A x \in DOMAIN tracker.bound : u.bound[x] = tracker.bound[x]
<1> DEFINE u == TrackPreviews(tokens)
           n == Len(tokens)
           s == tracker.streaming
           b == tracker.bound
           F == {nextFrame + k - 1 : k \in 1..n}
           X == {tokens[k] : k \in 1..n}
           at(x) == CHOOSE k \in 1..n : tokens[k] = x
           q == [f \in DOMAIN s \cup F |-> IF f >= nextFrame
                                           THEN PreviewBuffers[f - nextFrame + 1] ELSE s[f]]
           c == [x \in DOMAIN b \cup X |-> IF x \in DOMAIN b THEN b[x]
                                           ELSE Context(nextFrame + at(x) - 1, Preview)]
<1>1. /\ s \in [DOMAIN s -> Previews] /\ DOMAIN s \subseteq Nat
      /\ b \in [DOMAIN b -> ContextSet] /\ DOMAIN b \subseteq Nat \ {0}
  BY TrackerTables
<1>2. n \in Nat /\ \A k \in 1..n : tokens[k] \in Nat \ {0}
  OBVIOUS
<1>3. u = [requests |-> tracker.requests, streaming |-> q, bound |-> c]
  <2>1. u = [tracker EXCEPT !.streaming = q, !.bound = c]
    BY DEF TrackPreviews, TrackerOK
  <2> HIDE DEF u, q, c
  <2> QED BY <2>1 DEF TrackerOK
<1>4. ASSUME NEW k \in 1..n PROVE at(tokens[k]) = k
  OBVIOUS
<1> HIDE DEF at
<1>5. \A k \in 1..n : q[nextFrame + k - 1] = PreviewBuffers[k]
  BY <1>2
<1>6. DOMAIN q = DOMAIN s \cup F /\ \A f \in DOMAIN s : q[f] = s[f]
  <2>1. \A f \in DOMAIN s : ~(f >= nextFrame)
    BY <1>1
  <2> QED BY <2>1
<1>7. /\ DOMAIN c = DOMAIN b \cup X
      /\ \A x \in DOMAIN b : c[x] = b[x]
      /\ \A k \in 1..n : c[tokens[k]] = Context(nextFrame + k - 1, Preview)
  <2>1. DOMAIN c = DOMAIN b \cup X /\ \A x \in DOMAIN b : c[x] = b[x]
    OBVIOUS
  <2>2. ASSUME NEW k \in 1..n PROVE c[tokens[k]] = Context(nextFrame + k - 1, Preview)
    <3>1. tokens[k] \in X /\ tokens[k] \notin DOMAIN b /\ at(tokens[k]) = k
      BY <1>4
    <3> HIDE DEF X, b
    <3> QED BY <3>1
  <2> QED BY <2>1, <2>2
<1> HIDE DEF q, c, u
<1>8. DOMAIN q \subseteq Nat /\ DOMAIN c \subseteq Nat \ {0}
  <2>1. DOMAIN q \subseteq Nat
    BY <1>1, <1>2, <1>6
  <2>2. X \subseteq Nat \ {0}
    BY <1>2
  <2> QED BY <1>1, <1>7, <2>1, <2>2
<1>9. ASSUME NEW f \in DOMAIN q PROVE q[f] \in Previews
  <2>1. CASE f \in DOMAIN s
    BY <1>1, <1>6, <2>1
  <2>2. CASE f \in F
    <3>1. PICK k \in 1..n : f = nextFrame + k - 1
      BY <2>2
    <3> QED BY <1>5, <3>1, PreviewsOK
  <2> QED BY <1>6, <1>9, <2>1, <2>2
<1>10. ASSUME NEW x \in DOMAIN c PROVE c[x] \in ContextSet
  <2>1. \A k \in 1..n : Context(nextFrame + k - 1, Preview) \in ContextSet
    BY <1>2 DEF Context, ContextSet, Preview
  <2>2. CASE x \in DOMAIN b
    BY <1>1, <1>7, <2>2
  <2>3. CASE x \in X
    <3>1. PICK k \in 1..n : x = tokens[k]
      BY <2>3
    <3> QED BY <1>7, <2>1, <3>1
  <2> QED BY <1>7, <1>10, <2>2, <2>3
<1>11. q \in [DOMAIN q -> Previews] /\ c \in [DOMAIN c -> ContextSet]
  <2>1. q = [f \in DOMAIN q |-> q[f]] /\ c = [x \in DOMAIN c |-> c[x]]
    BY DEF q, c
  <2>2. [f \in DOMAIN q |-> q[f]] \in [DOMAIN q -> Previews]
    BY <1>9
  <2>3. [x \in DOMAIN c |-> c[x]] \in [DOMAIN c -> ContextSet]
    BY <1>10
  <2> QED BY <2>1, <2>2, <2>3
<1>12. TrackerOK(u) /\ u.requests = tracker.requests /\ u.streaming = q /\ u.bound = c
  <2>1. /\ tracker.requests \in [DOMAIN tracker.requests -> RowSet]
        /\ DOMAIN tracker.requests \subseteq Frames /\ IsFiniteSet(DOMAIN tracker.requests)
    BY TrackerTables
  <2>2. u.requests = tracker.requests /\ u.streaming = q /\ u.bound = c
    BY <1>3
  <2>3. u \in [requests : {tracker.requests}, streaming : {q}, bound : {c}]
    BY <1>3
  <2> QED BY <1>8, <1>11, <2>1, <2>2, <2>3 DEF TrackerOK
<1> QED BY <1>5, <1>6, <1>7, <1>12 DEF u

-----------------------------------------------------------------------------
\* Requests, results and tasks.

\* The outputs of a request are buffers, or the target without dma-buf.
LEMMA OutputsIn ==
  ASSUME NEW o \in OutputSet
  PROVE  /\ Len(o) \in Nat \ {0} /\ DOMAIN o = 1..Len(o)
         /\ \A k \in 1..Len(o) : o[k] \in Buffers \cup {NoBuffer}
         /\ BuffersOf(o) \subseteq Buffers
<1>1. o \in Seq(Buffers \cup {NoBuffer}) /\ o # <<>>
  BY DEF OutputSet
<1>2. /\ Len(o) \in Nat \ {0} /\ DOMAIN o = 1..Len(o)
      /\ \A k \in 1..Len(o) : o[k] \in Buffers \cup {NoBuffer}
  BY <1>1
<1> QED BY <1>2 DEF BuffersOf

\* Frame numbers of requests are positive and below those of the preview.
LEMMA FramesOK ==
  /\ StreamBase \in Nat
  /\ \A f \in Frames : f \in Nat \ {0} /\ f < StreamBase
<1>1. StreamBase \in Nat
  BY SessionAssumption
<1>2. \A r \in Requests : r.frame \in 1..(StreamBase - 1)
  BY SessionAssumption
<1> QED BY <1>1, <1>2 DEF Frames

\* What the parts of a request range over.
LEMMA RequestOK ==
  ASSUME NEW r \in Requests
  PROVE  /\ r.frame \in Frames /\ r.frame \in Nat \ {0} /\ r.frame < StreamBase
         /\ r.buffers \in Seq(Buffers)
         /\ r # None /\ r # NoRequest /\ ~IsReady(r)
         /\ OutputsOf(r) \in OutputSet
         /\ BuffersOf(r.buffers) \subseteq Buffers
         /\ BuffersOf(OutputsOf(r)) = BuffersOf(r.buffers)
<1>1. r.frame \in 1..(StreamBase - 1) /\ r.buffers \in Seq(Buffers)
  BY SessionAssumption
<1>2. r.frame \in Frames
  BY DEF Frames
<1>3. r.frame \in Nat \ {0} /\ r.frame < StreamBase
  BY <1>1, SessionAssumption
<1>4. r # None /\ r # NoRequest /\ ~IsReady(r)
  BY <1>3 DEF None, NoRequest, IsReady
<1>5. OutputsOf(r) \in OutputSet
  <2>1. CASE r.buffers = <<>>
    <3>1. <<NoBuffer>> \in Seq(Buffers \cup {NoBuffer}) /\ <<NoBuffer>> # <<>>
      OBVIOUS
    <3> QED BY <2>1, <3>1 DEF OutputsOf, OutputSet
  <2>2. CASE r.buffers # <<>>
    <3>1. r.buffers \in Seq(Buffers \cup {NoBuffer})
      BY <1>1
    <3> QED BY <2>2, <3>1 DEF OutputsOf, OutputSet
  <2> QED BY <2>1, <2>2
<1>6. BuffersOf(r.buffers) \subseteq Buffers
  BY <1>1 DEF BuffersOf
<1>7. BuffersOf(OutputsOf(r)) = BuffersOf(r.buffers)
  <2>1. CASE r.buffers = <<>>
    <3>1. OutputsOf(r) = <<NoBuffer>>
      BY <2>1 DEF OutputsOf
    <3>2. BuffersOf(<<NoBuffer>>) = {}
      BY DEF BuffersOf
    <3>3. BuffersOf(<<>>) = {}
      BY DEF BuffersOf
    <3> QED BY <2>1, <3>1, <3>2, <3>3
  <2>2. CASE r.buffers # <<>>
    BY <2>2 DEF OutputsOf
  <2> QED BY <2>1, <2>2
<1> QED BY <1>1, <1>2, <1>3, <1>4, <1>5, <1>6, <1>7

\* A readiness task is told from a request by its frame number.
LEMMA ReadyOK ==
  ASSUME NEW d, NEW q \in ReadySet(d)
  PROVE  /\ q.frame = 0 /\ IsReady(q) /\ q # NoRequest
         /\ q.buffers[1] \in EventFds(d) /\ q = Ready(q.buffers[1])
<1>1. PICK e \in EventFds(d) : q = Ready(e)
  BY DEF ReadySet
<1>2. q.frame = 0 /\ q.buffers = <<e>>
  BY <1>1 DEF Ready
<1>3. q.buffers[1] = e /\ q.buffers # <<>>
  BY <1>2
<1>4. NoRequest.buffers = <<>>
  BY DEF NoRequest
<1> QED BY <1>1, <1>2, <1>3, <1>4 DEF IsReady

\* The result of a failed request returns buffers of requests only.
LEMMA FailedResultOK ==
  ASSUME TrackerOK(tracker), NEW r \in Requests
  PROVE  /\ FailedResult(tracker, r) \in ResultSet
         /\ FailedResult(tracker, r).frame = r.frame
<1> DEFINE o == IF r.frame \in DOMAIN tracker.requests
                THEN tracker.requests[r.frame].outputs ELSE OutputsOf(r)
<1>1. o \in OutputSet
  BY RequestOK DEF TrackerOK, RowSet
<1>2. FailedResult(tracker, r) = [frame |-> r.frame, buffers |-> BuffersOf(o)]
  BY DEF FailedResult, Result
<1> HIDE DEF o
<1> QED BY <1>1, <1>2, OutputsIn, RequestOK DEF ResultSet

\* The result made of a row is a result.
LEMMA RowResultOK ==
  ASSUME TrackerOK(tracker), NEW f \in DOMAIN tracker.requests
  PROVE  /\ Result(f, BuffersOf(tracker.requests[f].outputs)) \in ResultSet
         /\ Result(f, BuffersOf(tracker.requests[f].outputs)).frame = f
<1>1. tracker.requests[f].outputs \in OutputSet /\ f \in Frames
  BY DEF TrackerOK, RowSet
<1> QED BY <1>1, OutputsIn DEF Result, ResultSet

\* The results of a flush are a finite set of results.
LEMMA FlushedOK ==
  ASSUME TrackerOK(tracker)
  PROVE  Flushed \subseteq ResultSet /\ IsFiniteSet(Flushed)
<1>1. Flushed \subseteq ResultSet
  BY RowResultOK DEF Flushed
<1>2. IsFiniteSet(Flushed)
  <2>1. IsFiniteSet(DOMAIN tracker.requests)
    BY DEF TrackerOK
  <2> DEFINE S == DOMAIN tracker.requests
             g == [f \in S |-> Result(f, BuffersOf(tracker.requests[f].outputs))]
  <2>2. g \in Surjection(S, Flushed)
    BY DEF Flushed, Surjection
  <2> QED BY <2>1, <2>2, FS_Surjection
<1> QED BY <1>1, <1>2

\* Delivery adds to the count of each frame and gives buffers back.
LEMMA DeliverOK ==
  ASSUME NEW rs \in SUBSET (ResultSet \cup {None}), IsFiniteSet(rs), Deliver(rs),
         results \in [Frames -> Nat], held \subseteq Buffers
  PROVE  /\ results' \in [Frames -> Nat] /\ held' \subseteq Buffers
         /\ \A f \in Frames :
              results'[f] = results[f] + Cardinality({x \in rs : x.frame = f})
<1>1. ASSUME NEW f \in Frames PROVE Cardinality({x \in rs : x.frame = f}) \in Nat
  <2>1. IsFiniteSet({x \in rs : x.frame = f})
    BY FS_Subset
  <2> QED BY <2>1, FS_CardinalityType
<1>2. results' = [f \in Frames |-> results[f] + Cardinality({x \in rs : x.frame = f})]
  BY DEF Deliver
<1>3. \A x \in rs : x.buffers \subseteq Buffers
  BY DEF ResultSet, None
<1> QED BY <1>1, <1>2, <1>3 DEF Deliver

-----------------------------------------------------------------------------
\* A new session satisfies the invariant.
LEMMA InitInv == Init => IInv
<1> SUFFICES ASSUME Init PROVE IInv
  OBVIOUS
<1>1. PICK c \in Backends : driver = ClosedDriver(c)
  BY DEF Init
<1>2. /\ DriverOK(driver, DriverBuffers) /\ SameConfig(c, driver) /\ driver.nextToken = 1
      /\ ~IsMock(driver) => \A e \in EventFds(driver) : ~Continuous(driver, e)
  <2>1. NoBuffer \in DriverBuffers /\ DOMAIN c.route = DriverBuffers
    BY SessionAssumption DEF DriverBuffers
  <2> QED BY <1>1, <2>1, ClosedDriverOK
<1>3. /\ tracker = EmptyTracker /\ TrackerOK(tracker)
      /\ DOMAIN tracker.requests = {} /\ DOMAIN tracker.streaming = {}
      /\ DOMAIN tracker.bound = {}
  BY EmptyTrackerOK, EmptyTable DEF Init, EmptyTracker
<1>4. /\ worker.pc = "idle" /\ worker.request = NoRequest /\ worker.index = 1
      /\ worker.token = 0 /\ worker.lease = NoBuffer /\ worker.result = None
      /\ WorkerOK(worker, driver)
  BY DEF Init, IdleWorker, WorkerOK, NoRequest
<1>5. control.pc = "idle" /\ control.tokens = <<>> /\ control.results = {} /\ ControlOK(control)
  <2>1. <<>> \in Seq(Nat) /\ IsFiniteSet({})
    BY FS_EmptySet
  <2> QED BY <2>1 DEF Init, IdleControl, ControlOK
<1>6. Shape
  <2>1. tasks \in Seq(Requests \cup ReadySet(driver)) /\ Len(tasks) = 0
    BY DEF Init
  <2>2. asleep \in BOOLEAN /\ dropped \subseteq [fd : Endpoints, full : BOOLEAN]
    BY DEF Init
  <2> QED BY <1>2, <1>3, <1>4, <1>5, <2>1, <2>2, SessionAssumption DEF Init, Shape
<1>7. ThreadInv
  BY <1>4, <1>5 DEF Init, ThreadInv
<1>8. BindInv /\ BindingsResolve /\ RowsBacked
  BY <1>3 DEF BindInv, BindingsResolve, RowsBacked
<1>9. QueueInv /\ PreviewInv /\ ContinuousInv
  BY <1>4, <1>5 DEF QueueInv, PreviewInv, ContinuousInv, Init
<1> QED BY <1>6, <1>7, <1>8, <1>9 DEF IInv

-----------------------------------------------------------------------------
\* A step that leaves tracker and driver alone keeps what rests on them, if it
\* neither starts nor ends a completion of the worker.
LEMMA TablesKept ==
  ASSUME IInv, tracker' = tracker, driver' = driver, nextFrame' = nextFrame,
         worker' = worker \/ (worker.pc # "complete" /\ worker'.pc # "complete")
  PROVE  /\ BindInv' /\ BindingsResolve' /\ RowsBacked'
         /\ \A x, b : Owed(x, b)' <=> Owed(x, b)
<1>1. \A x, b : Owed(x, b)' <=> Owed(x, b)
  BY DEF Owed
<1>2. BindInv' /\ BindingsResolve'
  BY DEF IInv, BindInv, BindingsResolve
<1>3. RowsBacked'
  BY <1>1 DEF IInv, RowsBacked
<1> QED BY <1>1, <1>2, <1>3

\* Only threads outside the mutex have moved.
LEMMA CoreKept ==
  ASSUME IInv, UNCHANGED <<state, tracker, driver, lock, nextFrame, worker>>,
         control' = control \/ (control.pc # "preview" /\ control'.pc # "preview"),
         Shape', ThreadInv'
  PROVE  IInv'
<1>1. BindInv' /\ BindingsResolve' /\ RowsBacked' /\ \A x, b : Owed(x, b)' <=> Owed(x, b)
  BY TablesKept
<1>2. QueueInv'
  BY <1>1 DEF IInv, QueueInv, Backed
<1>3. PreviewInv' /\ ContinuousInv'
  BY DEF IInv, PreviewInv, ContinuousInv
<1> QED BY <1>1, <1>2, <1>3 DEF IInv

\* The worker has moved between two points where it neither queues outputs nor
\* holds a completion.
LEMMA WorkerMoves ==
  ASSUME IInv, UNCHANGED <<state, tracker, driver, lock, nextFrame, control>>,
         worker.pc \notin {"queue", "complete"}, worker'.pc \notin {"queue", "complete"},
         Shape', ThreadInv'
  PROVE  IInv'
<1>1. BindInv' /\ BindingsResolve' /\ RowsBacked'
  BY TablesKept
<1>2. QueueInv'
  BY DEF QueueInv
<1>3. PreviewInv' /\ ContinuousInv'
  BY DEF IInv, PreviewInv, ContinuousInv
<1> QED BY <1>1, <1>2, <1>3 DEF IInv

\* process_capture_request, its check of the state, keeps the invariant.
LEMMA ProcessCaptureRequestStep ==
  ASSUME IInv, NEW r \in Requests, ProcessCaptureRequest(r)
  PROVE  IInv'
<1>1. Shape' /\ ThreadInv'
  BY DEF IInv, Shape, ThreadInv, ProcessCaptureRequest, sessionVars, deliveryVars, boundVars
<1> QED BY <1>1, CoreKept DEF ProcessCaptureRequest, sessionVars

\* process_capture_request, its post to the shard, keeps the invariant.
LEMMA PostRequestStep ==
  ASSUME IInv, PostRequest
  PROVE  IInv'
<1>1. sub \in Requests
  BY DEF IInv, Shape, PostRequest
<1>2. tasks' \in Seq(Requests \cup ReadySet(driver)) /\ Len(tasks') <= QueueCapacity
  <2>1. tasks \in Seq(Requests \cup ReadySet(driver)) /\ Len(tasks) <= QueueCapacity
    BY DEF IInv, Shape
  <2>2. CASE CanPost /\ tasks' = Append(tasks, sub)
    BY <1>1, <2>1, <2>2, SessionAssumption DEF CanPost
  <2>3. CASE tasks' = tasks
    BY <2>1, <2>3
  <2> QED BY <2>2, <2>3 DEF PostRequest
<1>3. Shape' /\ ThreadInv'
  BY <1>1, <1>2 DEF IInv, Shape, ThreadInv, PostRequest, sessionVars, boundVars
<1> QED BY <1>3, CoreKept DEF PostRequest, sessionVars

\* The event loop keeps the invariant.
LEMMA OnDriverFdReadyStep ==
  ASSUME IInv, NEW e \in Endpoints, OnDriverFdReady(e)
  PROVE  IInv'
<1>1. Ready(e) \in ReadySet(driver)
  BY DEF IInv, Shape, OnDriverFdReady, FdReady, ReadySet
<1>2. tasks' \in Seq(Requests \cup ReadySet(driver)) /\ Len(tasks') <= QueueCapacity
  <2>1. tasks \in Seq(Requests \cup ReadySet(driver)) /\ Len(tasks) <= QueueCapacity
    BY DEF IInv, Shape
  <2>2. CASE CanPost /\ tasks' = Append(tasks, Ready(e))
    BY <1>1, <2>1, <2>2, SessionAssumption DEF CanPost
  <2>3. CASE tasks' = tasks
    BY <2>1, <2>3
  <2> QED BY <2>2, <2>3 DEF OnDriverFdReady
<1>3. dropped' \subseteq [fd : Endpoints, full : BOOLEAN]
  <2>1. dropped \subseteq [fd : Endpoints, full : BOOLEAN]
    BY DEF IInv, Shape
  <2>2. (~CanPost) \in BOOLEAN
    BY Zenon DEF CanPost
  <2>3. [fd |-> e, full |-> ~CanPost] \in [fd : Endpoints, full : BOOLEAN]
    BY <2>2, Zenon
  <2> QED BY <2>1, <2>3, Zenon DEF OnDriverFdReady
<1>4. Shape' /\ ThreadInv'
  BY <1>2, <1>3 DEF IInv, Shape, ThreadInv, OnDriverFdReady, sessionVars, frameworkVars,
     deliveryVars, boundVars
<1> QED BY <1>4, CoreKept DEF OnDriverFdReady, sessionVars

\* A worker that sleeps, or is woken, keeps the invariant.
LEMMA SleepStep ==
  ASSUME IInv, Sleep \/ Wake
  PROVE  IInv'
<1>1. /\ UNCHANGED <<sessionVars, tasks, dropped, armed, control, worker, frameworkVars,
                     deliveryVars, boundVars>>
      /\ asleep' \in BOOLEAN
  BY DEF Sleep, Wake
<1>2. Shape' /\ ThreadInv'
  BY <1>1 DEF IInv, Shape, ThreadInv, sessionVars, frameworkVars, deliveryVars, boundVars
<1> QED BY <1>1, <1>2, CoreKept DEF sessionVars

\* unregister_session keeps the invariant.
LEMMA UnregisterSessionStep ==
  ASSUME IInv, UnregisterSession
  PROVE  IInv'
<1>1. control' = [control EXCEPT !.pc = "dispatch"] /\ control.pc = "unregister"
  BY DEF UnregisterSession
<1>2. /\ ControlOK(control') /\ control'.pc = "dispatch"
      /\ control'.tokens = control.tokens /\ control'.results = control.results
  BY <1>1 DEF IInv, Shape, ControlOK
<1>3. Shape' /\ ThreadInv'
  BY <1>1, <1>2 DEF IInv, Shape, ThreadInv, UnregisterSession, UnregisterFds, sessionVars,
     frameworkVars, deliveryVars, boundVars
<1> QED BY <1>1, <1>2, <1>3, CoreKept DEF UnregisterSession, sessionVars

\* The idle control thread is well formed.
LEMMA IdleControlOK ==
  /\ ControlOK(IdleControl) /\ IdleControl.pc = "idle" /\ IdleControl.tokens = <<>>
  /\ IdleControl.results = {}
<1>1. <<>> \in Seq(Nat) /\ IsFiniteSet({})
  BY FS_EmptySet
<1> QED BY <1>1 DEF IdleControl, ControlOK

\* The idle worker is well formed.
LEMMA IdleWorkerOK ==
  ASSUME NEW d
  PROVE  /\ WorkerOK(IdleWorker, d) /\ IdleWorker.pc = "idle" /\ IdleWorker.result = None
         /\ IdleWorker.index = 1
  BY DEF WorkerOK, IdleWorker, NoRequest

\* The delivery of flushed results keeps the invariant.
LEMMA DispatchFlushedStep ==
  ASSUME IInv, DispatchFlushed
  PROVE  IInv'
<1>1. control' = IdleControl /\ control.pc = "dispatch" /\ Deliver(control.results)
  BY DEF DispatchFlushed
<1>2. results' \in [Frames -> Nat] /\ held' \subseteq Buffers
  <2>1. control.results \in SUBSET (ResultSet \cup {None}) /\ IsFiniteSet(control.results)
    BY DEF IInv, Shape, ControlOK
  <2> QED BY <1>1, <2>1, DeliverOK DEF IInv, Shape
<1>3. Shape' /\ ThreadInv'
  BY <1>1, <1>2, IdleControlOK DEF IInv, Shape, ThreadInv, DispatchFlushed, sessionVars,
     frameworkVars, boundVars
<1> QED BY <1>1, <1>3, CoreKept, IdleControlOK DEF DispatchFlushed, sessionVars

-----------------------------------------------------------------------------
\* The worker taking a task keeps the invariant.
LEMMA PopTaskStep ==
  ASSUME IInv, PopTask
  PROVE  IInv'
<1> DEFINE task == Head(tasks)
           T == Requests \cup ReadySet(driver)
<1>1. /\ tasks \in Seq(T) /\ tasks # <<>> /\ Len(tasks) <= QueueCapacity
  BY DEF IInv, Shape, PopTask
<1>2. /\ task \in T /\ Tail(tasks) \in Seq(T) /\ Len(Tail(tasks)) <= QueueCapacity
  BY <1>1, SessionAssumption
<1>3. /\ worker' = [IdleWorker EXCEPT !.pc = IF IsReady(task) THEN "ready" ELSE "submit",
                                      !.request = task]
      /\ tasks' = Tail(tasks) /\ worker.pc = "idle"
  BY DEF PopTask
<1> DEFINE p == IF IsReady(task) THEN "ready" ELSE "submit"
<1>4. /\ worker'.pc = p /\ worker'.request = task /\ worker'.index = 1
      /\ worker'.result = None /\ WorkerOK(worker', driver)
  <2>1. p \in {"ready", "submit"}
    OBVIOUS
  <2> HIDE DEF p, task
  <2>2. worker' = [pc |-> p, request |-> task, index |-> 1, token |-> 0,
                   lease |-> NoBuffer, result |-> None]
    BY <1>3 DEF IdleWorker, p
  <2> QED BY <1>2, <2>1, <2>2 DEF WorkerOK
<1> HIDE DEF task, T
<1>5. (task \in Requests => ~IsReady(task)) /\ (task \in ReadySet(driver) => IsReady(task))
  BY RequestOK, ReadyOK
<1>6. Shape'
  BY <1>2, <1>3, <1>4 DEF IInv, Shape, PopTask, sessionVars, frameworkVars, deliveryVars,
     boundVars, T
<1>7. ThreadInv'
  BY <1>2, <1>3, <1>4, <1>5 DEF IInv, ThreadInv, PopTask, sessionVars, T
<1> QED BY <1>3, <1>4, <1>6, <1>7, WorkerMoves DEF PopTask, sessionVars

\* The return of the preview callback keeps the invariant.
LEMMA StreamCallbackReturnsStep ==
  ASSUME IInv, StreamCallbackReturns
  PROVE  IInv'
<1>1. worker' = [worker EXCEPT !.pc = "return"] /\ worker.pc = "callback"
  BY DEF StreamCallbackReturns
<1>2. /\ WorkerOK(worker', driver) /\ worker'.pc = "return"
      /\ worker'.request = worker.request /\ worker'.lease = worker.lease
      /\ worker'.result = worker.result
  BY <1>1 DEF IInv, Shape, WorkerOK
<1>3. Shape' /\ ThreadInv'
  BY <1>1, <1>2 DEF IInv, Shape, ThreadInv, StreamCallbackReturns, sessionVars,
     frameworkVars, deliveryVars, boundVars
<1> QED BY <1>1, <1>2, <1>3, WorkerMoves DEF StreamCallbackReturns, sessionVars

\* The delivery of one result keeps the invariant.
LEMMA DispatchResultStep ==
  ASSUME IInv, DispatchResult
  PROVE  IInv'
<1>1. /\ worker.pc = "dispatch" /\ Deliver({worker.result})
      /\ worker' = IF IsReady(worker.request)
                   THEN [worker EXCEPT !.pc = "ready", !.result = None] ELSE IdleWorker
  BY DEF DispatchResult
<1>2. results' \in [Frames -> Nat] /\ held' \subseteq Buffers
  <2>1. {worker.result} \in SUBSET (ResultSet \cup {None}) /\ IsFiniteSet({worker.result})
    BY FS_Singleton DEF IInv, Shape, WorkerOK
  <2> QED BY <1>1, <2>1, DeliverOK DEF IInv, Shape
<1>3. /\ WorkerOK(worker', driver) /\ worker'.pc \in {"ready", "idle"} /\ worker'.result = None
      /\ worker'.pc = "ready" => worker'.request \in ReadySet(driver)
  <2>1. CASE IsReady(worker.request)
    <3>1. worker' = [worker EXCEPT !.pc = "ready", !.result = None]
      BY <1>1, <2>1
    <3>2. worker.request \in ReadySet(driver)
      BY <1>1, <2>1, RequestOK DEF IInv, Shape, WorkerOK, ThreadInv
    <3> QED BY <3>1, <3>2 DEF IInv, Shape, WorkerOK
  <2>2. CASE ~IsReady(worker.request)
    BY <1>1, <2>2, IdleWorkerOK
  <2> QED BY <2>1, <2>2
<1>4. Shape' /\ ThreadInv'
  BY <1>1, <1>2, <1>3 DEF IInv, Shape, ThreadInv, DispatchResult, sessionVars,
     frameworkVars, boundVars
<1> QED BY <1>1, <1>3, <1>4, WorkerMoves DEF DispatchResult, sessionVars

\* Re-arming the fd keeps the invariant.
LEMMA RearmFdStep ==
  ASSUME IInv, RearmFd
  PROVE  IInv'
<1>1. worker.pc = "rearm" /\ worker' = IdleWorker
  BY DEF RearmFd
<1>2. ReadyEndpoint \in EventFds(driver)
  BY <1>1, ReadyOK DEF IInv, ThreadInv, ReadyEndpoint
<1>3. Shape' /\ ThreadInv'
  BY <1>1, <1>2, IdleWorkerOK DEF IInv, Shape, ThreadInv, RearmFd, sessionVars,
     frameworkVars, deliveryVars, boundVars
<1> QED BY <1>1, <1>3, WorkerMoves, IdleWorkerOK DEF RearmFd, sessionVars

-----------------------------------------------------------------------------
\* A driver call with the tables as they are: what was owed is still owed.
LEMMA DriverKept ==
  ASSUME IInv, DriverOK(driver', DriverBuffers), SameConfig(driver, driver'),
         driver.nextToken <= driver'.nextToken, KeepsOwed(driver, driver'),
         tracker' = tracker,
         worker' = worker \/ (worker.pc \notin {"queue", "complete"}
                                /\ worker'.pc \notin {"queue", "complete"}),
         nextFrame' = nextFrame \/ (nextFrame' \in Nat /\ nextFrame <= nextFrame')
  PROVE  /\ BindInv' /\ BindingsResolve' /\ RowsBacked' /\ QueueInv'
         /\ EventFds(driver') = EventFds(driver) /\ ReadySet(driver') = ReadySet(driver)
         /\ \E c \in Backends : SameConfig(c, driver')
<1>1. EventFds(driver') = EventFds(driver) /\ ReadySet(driver') = ReadySet(driver)
  BY DEF SameConfig, EventFds, ReadySet
<1>2. \E c \in Backends : SameConfig(c, driver')
  BY DEF IInv, Shape, SameConfig
<1>3. driver.nextToken \in Nat /\ driver'.nextToken \in Nat
  BY DEF IInv, Shape, DriverOK, MockOK, V4L2OK
<1>4. \A x \in Nat \ {0} : \A b : Owed(x, b) => Owed(x, b)'
  BY DEF Owed, KeepsOwed
<1>5. DOMAIN tracker.bound \subseteq Nat \ {0}
  BY DEF IInv, Shape, TrackerOK
<1>6. BindInv'
  BY <1>3, FramesOK DEF IInv, BindInv, Shape
<1>7. BindingsResolve'
  BY DEF IInv, BindingsResolve
<1>8. RowsBacked'
  BY <1>4, <1>5 DEF IInv, RowsBacked, SameConfig
<1>9. QueueInv'
  BY <1>4, <1>5 DEF IInv, QueueInv, Backed
<1> QED BY <1>1, <1>2, <1>6, <1>7, <1>8, <1>9

\* The device filling a buffer keeps the invariant.
LEMMA DeviceFillsStep ==
  ASSUME IInv, NEW e \in Endpoints, NEW i \in Index, DeviceFills(e, i)
  PROVE  IInv'
<1>1. /\ e \in EventFds(driver) /\ driver' = Fill(driver, e, i) /\ CanFill(driver, e, i)
      /\ UNCHANGED <<state, tracker, lock, nextFrame, tasks, asleep, dropped, armed,
                     control, worker, frameworkVars, deliveryVars, starts>>
  BY DEF DeviceFills
<1>2. Quiet(driver, driver', DriverBuffers)
  BY <1>1, FillQuiet DEF IInv, Shape
<1>3. /\ BindInv' /\ BindingsResolve' /\ RowsBacked' /\ QueueInv'
      /\ EventFds(driver') = EventFds(driver) /\ ReadySet(driver') = ReadySet(driver)
      /\ \E c \in Backends : SameConfig(c, driver')
  <2>1. driver.nextToken <= driver'.nextToken
    BY <1>2 DEF Quiet, DriverOK, MockOK, V4L2OK, IInv, Shape
  <2> QED BY <1>1, <1>2, <2>1, DriverKept DEF Quiet
<1>4. fills' \in 0..MaxPreviews
  BY SessionAssumption DEF IInv, Shape, DeviceFills
<1>5. Shape'
  BY <1>1, <1>2, <1>3, <1>4 DEF IInv, Shape, Quiet, frameworkVars, deliveryVars, WorkerOK
<1>6. ThreadInv'
  BY <1>1, <1>3 DEF IInv, ThreadInv
<1>7. PreviewInv'
  BY <1>1, <1>2 DEF IInv, PreviewInv, Quiet, KeepsOwed
<1>8. ContinuousInv'
  <2>1. driver.route[PreviewBuffers[1]] \in EventFds(driver) \/ PreviewBuffers = <<>>
    BY PreviewsOK DEF IInv, Shape, DriverOK, EventFds, DriverBuffers
  <2> QED BY <1>1, <1>2, <2>1 DEF IInv, ContinuousInv, Quiet, SameFlags, SameConfig
<1> QED BY <1>3, <1>5, <1>6, <1>7, <1>8 DEF IInv

\* The routes of a driver are those of its backend.
LEMMA ConfigKept ==
  ASSUME Shape, SameConfig(driver, driver')
  PROVE  /\ EventFds(driver') = EventFds(driver) /\ ReadySet(driver') = ReadySet(driver)
         /\ \E c \in Backends : SameConfig(c, driver')
         /\ PreviewBuffers # <<>> => driver.route[PreviewBuffers[1]] \in EventFds(driver)
<1>1. EventFds(driver') = EventFds(driver) /\ ReadySet(driver') = ReadySet(driver)
  BY DEF SameConfig, EventFds, ReadySet
<1>2. \E c \in Backends : SameConfig(c, driver')
  BY DEF Shape, SameConfig
<1>3. PreviewBuffers # <<>> => driver.route[PreviewBuffers[1]] \in EventFds(driver)
  BY PreviewsOK DEF Shape, DriverOK, EventFds, DriverBuffers
<1> QED BY <1>1, <1>2, <1>3

\* A quiet driver call is a driver call.
LEMMA QuietKept ==
  ASSUME IInv, Quiet(driver, driver', DriverBuffers),
         UNCHANGED <<tracker, worker, nextFrame>>
  PROVE  BindInv' /\ BindingsResolve' /\ RowsBacked' /\ QueueInv'
<1>1. driver.nextToken <= driver'.nextToken
  BY DEF Quiet, DriverOK, MockOK, V4L2OK, IInv, Shape
<1> QED BY <1>1, DriverKept DEF Quiet

\* configure_streams keeps the invariant.
LEMMA ConfigureStreamsStep ==
  ASSUME IInv, ConfigureStreams
  PROVE  IInv'
<1>1. driver' \in {driver, OpenDriver(driver)}
  BY DEF ConfigureStreams
<1>2. Quiet(driver, driver', DriverBuffers)
  <2>1. Quiet(driver, driver, DriverBuffers)
    BY DEF Quiet, SameConfig, KeepsOwed, SameEntries, SameFlags, IInv, Shape, IsMock
  <2> QED BY <1>1, <2>1, OpenDriverQuiet DEF IInv, Shape
<1>3. BindInv' /\ BindingsResolve' /\ RowsBacked' /\ QueueInv'
  BY <1>2, QuietKept DEF ConfigureStreams
<1>4. /\ EventFds(driver') = EventFds(driver) /\ ReadySet(driver') = ReadySet(driver)
      /\ \E c \in Backends : SameConfig(c, driver')
  BY <1>2, ConfigKept DEF IInv, Quiet
<1>5. armed' \subseteq EventFds(driver) /\ state' \in {"Configured", "Error"}
  BY DEF ConfigureStreams, RegisterSession
<1>6. Shape'
  BY <1>2, <1>4, <1>5 DEF IInv, Shape, Quiet, ConfigureStreams, WorkerOK, frameworkVars,
     deliveryVars, boundVars
<1>7. ThreadInv' /\ PreviewInv' /\ ContinuousInv'
  BY <1>4, <1>5 DEF IInv, ThreadInv, PreviewInv, ContinuousInv, ConfigureStreams
<1> QED BY <1>3, <1>6, <1>7 DEF IInv

\* start_streaming, up to its first preview buffer, keeps the invariant.
LEMMA StartStreamingStep ==
  ASSUME IInv, StartStreaming
  PROVE  IInv'
<1> DEFINE d == StartDriver(driver)
           P == PreviewBuffers # <<>>
<1>1. Quiet(driver, d, DriverBuffers)
  BY StartDriverQuiet DEF IInv, Shape
<1>2. /\ control.pc = "idle" /\ state = "Configured" /\ lock = "free"
      /\ ~P => driver' = d /\ state' = "Streaming" /\ UNCHANGED <<lock, control>>
      /\ P => /\ driver' = SetContinuous(d, PreviewBuffers[1], TRUE)
              /\ control' = [control EXCEPT !.pc = "preview"]
              /\ lock' = "control" /\ UNCHANGED state
  BY DEF StartStreaming
<1>3. UNCHANGED <<tracker, nextFrame, tasks, asleep, dropped, armed, worker,
                  frameworkVars, deliveryVars, fills>>
  BY DEF StartStreaming
<1>4. starts' \in 0..MaxStarts
  BY SessionAssumption DEF StartStreaming, IInv, Shape
<1> HIDE DEF d
<1>5. /\ DriverOK(driver', DriverBuffers) /\ SameConfig(driver, driver')
      /\ driver'.nextToken = driver.nextToken /\ KeepsOwed(driver, driver')
      /\ ~IsMock(driver) /\ P => Continuous(driver', driver.route[PreviewBuffers[1]])
  <2>1. CASE ~P
    BY <1>1, <1>2, <2>1 DEF Quiet
  <2>2. CASE P
    <3> DEFINE b == PreviewBuffers[1]
               on == TRUE
               e == SetContinuous(d, b, on)
    <3>1. b \in DriverBuffers /\ on \in BOOLEAN /\ DriverOK(d, DriverBuffers)
      BY <1>1, <2>2, PreviewsOK DEF DriverBuffers, Quiet
    <3> HIDE DEF b, on
    <3>2. /\ DriverOK(e, DriverBuffers) /\ SameConfig(d, e) /\ e.nextToken = d.nextToken
          /\ KeepsOwed(d, e)
          /\ ~IsMock(d) => \A a \in EventFds(d) :
               Continuous(e, a) = IF a = d.route[b] THEN on ELSE Continuous(d, a)
      BY <3>1, SetContinuousSets
    <3>3. driver' = e
      BY <1>2, <2>2 DEF b, on
    <3> HIDE DEF e
    <3>4. d.route[b] \in EventFds(d)
      BY <3>1 DEF DriverOK, EventFds
    <3>5. SameConfig(driver, e)
      BY <1>1, <3>2 DEF Quiet, SameConfig
    <3>6. KeepsOwed(driver, e)
      BY <1>1, <3>2 DEF Quiet, KeepsOwed
    <3>7. ~IsMock(driver) => Continuous(e, driver.route[b])
      BY <1>1, <3>2, <3>4 DEF Quiet, SameConfig, on
    <3> QED BY <1>1, <3>2, <3>3, <3>5, <3>6, <3>7 DEF Quiet, b
  <2> QED BY <2>1, <2>2
<1>6. /\ BindInv' /\ BindingsResolve' /\ RowsBacked' /\ QueueInv'
      /\ EventFds(driver') = EventFds(driver) /\ ReadySet(driver') = ReadySet(driver)
      /\ \E c \in Backends : SameConfig(c, driver')
  <2>1. driver.nextToken <= driver'.nextToken
    BY <1>5 DEF DriverOK, MockOK, V4L2OK, IInv, Shape
  <2> QED BY <1>3, <1>5, <2>1, DriverKept
<1>7. /\ ControlOK(control') /\ control'.tokens = <<>> /\ control'.results = {}
      /\ control'.pc = IF P THEN "preview" ELSE "idle"
  BY <1>2 DEF IInv, Shape, ThreadInv, ControlOK
<1>8. Shape'
  BY <1>2, <1>3, <1>4, <1>5, <1>6, <1>7 DEF IInv, Shape, WorkerOK, frameworkVars, deliveryVars
<1>9. ThreadInv'
  BY <1>2, <1>3, <1>6, <1>7 DEF IInv, ThreadInv
<1>10. PreviewInv'
  BY <1>7, PreviewsOK DEF PreviewInv
<1>11. ContinuousInv'
  BY <1>2, <1>5, <1>7 DEF ContinuousInv, SameConfig
<1> QED BY <1>6, <1>8, <1>9, <1>10, <1>11 DEF IInv

\* Flush and close empty the tables and stop the driver.
LEMMA FlushStep ==
  ASSUME IInv, control.pc = "idle", lock = "free",
         Stopped(driver, driver', DriverBuffers),
         tracker' = ClearStreamingOutputs(FlushAll(tracker)),
         state' \in {"Configured", "Stopped"},
         NEW p \in {"dispatch", "unregister"},
         control' = [control EXCEPT !.pc = p, !.results = Flushed],
         UNCHANGED <<lock, nextFrame, tasks, asleep, dropped, armed, worker,
                     frameworkVars, deliveryVars, boundVars>>
  PROVE  IInv'
<1>1. /\ TrackerOK(tracker') /\ DOMAIN tracker'.requests = {}
      /\ DOMAIN tracker'.streaming = {} /\ DOMAIN tracker'.bound = {}
  BY FlushedTrackerIs DEF IInv, Shape
<1>2. /\ EventFds(driver') = EventFds(driver) /\ ReadySet(driver') = ReadySet(driver)
      /\ \E c \in Backends : SameConfig(c, driver')
  BY ConfigKept DEF IInv, Stopped
<1>3. /\ ControlOK(control') /\ control'.tokens = <<>> /\ control'.pc = p
  BY FlushedOK DEF IInv, Shape, ThreadInv, ControlOK
<1>4. Shape'
  BY <1>1, <1>2, <1>3 DEF IInv, Shape, WorkerOK, Stopped, frameworkVars, deliveryVars, boundVars
<1>5. ThreadInv'
  BY <1>2, <1>3 DEF IInv, ThreadInv
<1>6. worker'.pc # "queue"
  BY DEF IInv, ThreadInv
<1>7. BindInv' /\ BindingsResolve' /\ QueueInv' /\ PreviewInv' /\ RowsBacked'
  BY <1>1, <1>3, <1>6 DEF BindInv, BindingsResolve, QueueInv, PreviewInv, RowsBacked
<1>8. ContinuousInv'
  BY <1>3 DEF ContinuousInv
<1> QED BY <1>4, <1>5, <1>7, <1>8 DEF IInv

\* flush keeps the invariant.
LEMMA FlushKeeps == IInv /\ Flush => IInv'
<1> SUFFICES ASSUME IInv, Flush PROVE IInv'
  OBVIOUS
<1>1. Stopped(driver, driver', DriverBuffers)
  BY StopDriverStops DEF Flush, IInv, Shape
<1> QED BY <1>1, FlushStep DEF Flush

\* close keeps the invariant.
LEMMA CloseStep == IInv /\ Close => IInv'
<1> SUFFICES ASSUME IInv, Close PROVE IInv'
  OBVIOUS
<1>1. Stopped(driver, driver', DriverBuffers)
  BY CloseDriverStops DEF Close, IInv, Shape
<1> QED BY <1>1, FlushStep DEF Close

-----------------------------------------------------------------------------
\* The driver has taken one more preview buffer, and not yet the last.
LEMMA PreviewQueued ==
  ASSUME IInv, control.pc = "preview",
         NEW k, k = Len(control.tokens) + 1, k < Len(PreviewBuffers),
         Loads(driver, driver', PreviewBuffers[k], DriverBuffers),
         control' = [control EXCEPT !.tokens = Append(control.tokens, driver.nextToken)],
         UNCHANGED <<state, tracker, lock, nextFrame, tasks, asleep, dropped, armed,
                     worker, frameworkVars, deliveryVars, boundVars>>
  PROVE  IInv'
<1> DEFINE n == driver.nextToken
           s == control.tokens
<1>1. n \in Nat \ {0} /\ driver'.nextToken = n + 1 /\ s \in Seq(Nat)
  BY DEF IInv, Shape, DriverOK, MockOK, V4L2OK, Loads, ControlOK
<1>2. /\ control'.tokens = Append(s, n) /\ control'.pc = control.pc
      /\ control'.results = control.results /\ ControlOK(control')
  <2>1. Append(s, n) \in Seq(Nat)
    BY <1>1
  <2> QED BY <2>1 DEF IInv, Shape, ControlOK
<1>3. /\ BindInv' /\ BindingsResolve' /\ RowsBacked' /\ QueueInv'
      /\ EventFds(driver') = EventFds(driver) /\ ReadySet(driver') = ReadySet(driver)
      /\ \E c \in Backends : SameConfig(c, driver')
      /\ PreviewBuffers # <<>> => driver.route[PreviewBuffers[1]] \in EventFds(driver)
  BY <1>1, DriverKept, ConfigKept DEF Loads, IInv
<1>4. Shape'
  BY <1>2, <1>3 DEF IInv, Shape, WorkerOK, Loads, frameworkVars, deliveryVars, boundVars
<1>5. ThreadInv'
  BY <1>2, <1>3 DEF IInv, ThreadInv
<1>6. PreviewInv'
  <2>1. /\ Len(control'.tokens) = k /\ DOMAIN control'.tokens = 1..k /\ k \in Nat
        /\ control'.tokens[k] = n /\ DOMAIN s = 1..(k - 1)
        /\ \A j \in 1..(k - 1) : control'.tokens[j] = s[j] /\ s[j] \in Nat
    BY <1>1, <1>2
  <2>2. \A j \in 1..(k - 1) : s[j] \in 1..(n - 1) /\ s[j] \notin DOMAIN tracker.bound
                              /\ Owes(driver, s[j], PreviewBuffers[j])
    BY <2>1 DEF IInv, PreviewInv
  <2>3. \A i, j \in 1..(k - 1) : s[i] = s[j] => i = j
    BY <2>1 DEF IInv, PreviewInv
  <2>4. n \notin DOMAIN tracker.bound
    BY <1>1 DEF IInv, BindInv
  <2>5. Owes(driver', n, PreviewBuffers[k]) /\ KeepsOwed(driver, driver')
    BY DEF Loads
  <2> HIDE DEF n, s
  <2>6. \A j \in 1..k : /\ control'.tokens[j] \in 1..n
                        /\ control'.tokens[j] \notin DOMAIN tracker.bound
                        /\ Owes(driver', control'.tokens[j], PreviewBuffers[j])
    <3> TAKE j \in 1..k
    <3>1. CASE j = k
      BY <1>1, <2>1, <2>4, <2>5, <3>1
    <3>2. CASE j # k
      <4>1. j \in 1..(k - 1)
        BY <2>1, <3>2
      <4>2. s[j] \in Nat \ {0} /\ s[j] \in 1..n
        BY <1>1, <2>1, <2>2, <4>1
      <4> QED BY <2>1, <2>2, <2>5, <4>1, <4>2 DEF KeepsOwed
    <3> QED BY <3>1, <3>2
  <2>7. \A i, j \in 1..k : control'.tokens[i] = control'.tokens[j] => i = j
    <3>1. \A j \in 1..k : j = k \/ (j \in 1..(k - 1) /\ s[j] # n)
      BY <1>1, <2>1, <2>2
    <3> QED BY <2>1, <2>3, <3>1
  <2>8. driver'.nextToken - 1 = n
    BY <1>1
  <2> QED BY <2>1, <2>6, <2>7, <2>8 DEF PreviewInv
<1>7. ContinuousInv'
  BY <1>2, <1>3 DEF IInv, ContinuousInv, Loads, SameConfig
<1> QED BY <1>3, <1>4, <1>5, <1>6, <1>7 DEF IInv

\* The driver has taken the last preview buffer: all are registered.
LEMMA PreviewsStarted ==
  ASSUME IInv, control.pc = "preview",
         NEW k, k = Len(control.tokens) + 1, k = Len(PreviewBuffers),
         Loads(driver, driver', PreviewBuffers[k], DriverBuffers),
         tracker' = TrackPreviews(Append(control.tokens, driver.nextToken)),
         nextFrame' = nextFrame + k, state' = "Streaming", lock' = "free",
         control' = IdleControl,
         UNCHANGED <<tasks, asleep, dropped, armed, worker, frameworkVars,
                     deliveryVars, boundVars>>
  PROVE  IInv'
<1> DEFINE n == driver.nextToken
           s == control.tokens
           tokens == Append(s, n)
           m == nextFrame
<1>1. /\ n \in Nat \ {0} /\ driver'.nextToken = n + 1 /\ s \in Seq(Nat)
      /\ m \in Nat /\ StreamBase <= m /\ k \in Nat \ {0}
  BY PreviewsOK DEF IInv, Shape, DriverOK, MockOK, V4L2OK, Loads, ControlOK
<1>2. /\ tokens \in Seq(Nat) /\ Len(tokens) = k /\ tokens[k] = n /\ DOMAIN s = 1..(k - 1)
      /\ \A j \in 1..(k - 1) : tokens[j] = s[j]
  BY <1>1
<1>3. \A j \in 1..(k - 1) : s[j] \in 1..(n - 1) /\ s[j] \notin DOMAIN tracker.bound
                              /\ Owes(driver, s[j], PreviewBuffers[j])
  BY <1>2 DEF IInv, PreviewInv
<1>4. \A i, j \in 1..(k - 1) : s[i] = s[j] => i = j
  BY <1>2 DEF IInv, PreviewInv
<1>5. /\ \A x \in DOMAIN tracker.bound : x \in Nat \ {0} /\ x < n
      /\ \A f \in DOMAIN tracker.streaming : f \in Nat /\ StreamBase <= f /\ f < m
      /\ n \notin DOMAIN tracker.bound
  BY <1>1, FramesOK DEF IInv, BindInv, Shape, TrackerOK
<1>6. Owes(driver', n, PreviewBuffers[k]) /\ KeepsOwed(driver, driver')
  BY DEF Loads
<1>7. worker.pc # "queue"
  BY DEF IInv, ThreadInv
<1> HIDE DEF n, s, tokens, m
<1>8. \A j \in 1..k : /\ tokens[j] \in 1..n /\ tokens[j] # 0
                      /\ tokens[j] \notin DOMAIN tracker.bound
                      /\ Owes(driver', tokens[j], PreviewBuffers[j])
  <3> TAKE j \in 1..k
  <3>1. CASE j = k
    BY <1>1, <1>2, <1>5, <1>6, <3>1
  <3>2. CASE j # k
    <4>1. j \in 1..(k - 1)
      BY <1>1, <3>2
    <4>2. s[j] \in Nat \ {0} /\ s[j] \in 1..n
      BY <1>1, <1>3, <4>1
    <4> QED BY <1>2, <1>3, <1>6, <4>1, <4>2 DEF KeepsOwed
  <3> QED BY <3>1, <3>2
<1>9. \A i, j \in 1..k : tokens[i] = tokens[j] => i = j
  <2>1. \A j \in 1..k : j = k \/ (j \in 1..(k - 1) /\ s[j] # n)
    BY <1>1, <1>3
  <2> QED BY <1>2, <1>4, <2>1
<1>10. /\ TrackerOK(tracker') /\ tracker'.requests = tracker.requests
       /\ DOMAIN tracker'.streaming = DOMAIN tracker.streaming \cup {m + j - 1 : j \in 1..k}
       /\ \A j \in 1..k : tracker'.streaming[m + j - 1] = PreviewBuffers[j]
       /\ \A f \in DOMAIN tracker.streaming : tracker'.streaming[f] = tracker.streaming[f]
       /\ DOMAIN tracker'.bound = DOMAIN tracker.bound \cup {tokens[j] : j \in 1..k}
       /\ \A j \in 1..k : tracker'.bound[tokens[j]] = Context(m + j - 1, Preview)
       /\ \A x \in DOMAIN tracker.bound : tracker'.bound[x] = tracker.bound[x]
  <2>1. tracker' = TrackPreviews(tokens)
    BY DEF tokens, s, n
  <2>2. TrackerOK(tracker) /\ nextFrame \in Nat /\ \A f \in DOMAIN tracker.streaming : f < nextFrame
    BY <1>1, <1>5 DEF IInv, Shape, m
  <2>3. /\ \A j \in 1..Len(tokens) : tokens[j] # 0 /\ tokens[j] \notin DOMAIN tracker.bound
        /\ \A i, j \in 1..Len(tokens) : tokens[i] = tokens[j] => i = j
    BY <1>2, <1>8, <1>9
  <2> DEFINE u == TrackPreviews(tokens)
  <2>4. /\ TrackerOK(u) /\ u.requests = tracker.requests
        /\ DOMAIN u.streaming =
             DOMAIN tracker.streaming \cup {nextFrame + j - 1 : j \in 1..Len(tokens)}
        /\ \A j \in 1..Len(tokens) : u.streaming[nextFrame + j - 1] = PreviewBuffers[j]
        /\ \A f \in DOMAIN tracker.streaming : u.streaming[f] = tracker.streaming[f]
        /\ DOMAIN u.bound = DOMAIN tracker.bound \cup {tokens[j] : j \in 1..Len(tokens)}
        /\ \A j \in 1..Len(tokens) :
             u.bound[tokens[j]] = Context(nextFrame + j - 1, Preview)
        /\ \A x \in DOMAIN tracker.bound : u.bound[x] = tracker.bound[x]
    BY <1>2, <2>2, <2>3, TrackPreviewsIs
  <2> HIDE DEF u
  <2>5. tracker' = u
    BY <2>1 DEF u
  <2> QED BY <1>2, <2>4, <2>5 DEF m
<1>11. /\ EventFds(driver') = EventFds(driver) /\ ReadySet(driver') = ReadySet(driver)
       /\ \E c \in Backends : SameConfig(c, driver')
       /\ PreviewBuffers # <<>> => driver.route[PreviewBuffers[1]] \in EventFds(driver)
  BY ConfigKept DEF Loads, IInv
<1>12. \A j \in 1..k : (m + j - 1) \in Nat /\ StreamBase <= m + j - 1 /\ m + j - 1 < m + k
                       /\ m <= m + j - 1
  BY <1>1, FramesOK
<1>13. Shape'
  <2>1. nextFrame' \in Nat /\ StreamBase <= nextFrame'
    BY <1>1, FramesOK DEF m
  <2> QED BY <1>10, <1>11, <2>1, IdleControlOK DEF IInv, Shape, WorkerOK, Loads, frameworkVars,
          deliveryVars, boundVars
<1>14. ThreadInv'
  BY <1>7, <1>11, IdleControlOK DEF IInv, ThreadInv
<1>15. BindInv'
  <2>1. DOMAIN tracker'.bound \subseteq 1..(driver'.nextToken - 1)
    BY <1>1, <1>5, <1>8, <1>10
  <2>2. DOMAIN tracker'.streaming \subseteq StreamBase..(nextFrame' - 1)
    BY <1>1, <1>5, <1>10, <1>12, FramesOK DEF m
  <2>3. ASSUME NEW x \in DOMAIN tracker'.bound, NEW y \in DOMAIN tracker'.bound,
               tracker'.bound[x] = tracker'.bound[y]
        PROVE  x = y
    <3>1. CASE x \in DOMAIN tracker.bound /\ y \in DOMAIN tracker.bound
      BY <1>10, <2>3, <3>1 DEF IInv, BindInv
    <3>2. \A j \in 1..k : \A z \in DOMAIN tracker.bound :
            tracker.bound[z] # Context(m + j - 1, Preview)
      <4> TAKE j \in 1..k
      <4> TAKE z \in DOMAIN tracker.bound
      <4>1. Resolves(tracker, z)
        BY DEF IInv, BindingsResolve
      <4>2. tracker.bound[z].index = Preview => tracker.bound[z].frame < m
        BY <1>5, <4>1 DEF Resolves
      <4>3. Context(m + j - 1, Preview).index = Preview
            /\ Context(m + j - 1, Preview).frame = m + j - 1
        BY DEF Context
      <4> QED BY <1>1, <1>12, <4>2, <4>3
    <3>3. CASE x \notin DOMAIN tracker.bound /\ y \notin DOMAIN tracker.bound
      <4>1. PICK i \in 1..k : x = tokens[i]
        BY <1>10, <3>3
      <4>2. PICK j \in 1..k : y = tokens[j]
        BY <1>10, <3>3
      <4>3. Context(m + i - 1, Preview) = Context(m + j - 1, Preview)
        BY <1>10, <2>3, <4>1, <4>2
      <4>4. m + i - 1 = m + j - 1
        BY <4>3 DEF Context
      <4> QED BY <1>1, <4>1, <4>2, <4>4
    <3> QED BY <1>10, <2>3, <3>1, <3>2, <3>3
  <2> QED BY <2>1, <2>2, <2>3 DEF BindInv
<1>16. BindingsResolve'
  <2> SUFFICES ASSUME NEW x \in DOMAIN tracker'.bound
               PROVE  /\ Resolves(tracker', x)
                      /\ tracker'.bound[x].index # Preview =>
                           tracker'.bound[x].index
                             \notin tracker'.requests[tracker'.bound[x].frame].completed
    BY DEF BindingsResolve
  <2>1. CASE x \in DOMAIN tracker.bound
    BY <1>10, <2>1 DEF IInv, BindingsResolve, Resolves
  <2>2. CASE x \notin DOMAIN tracker.bound
    <3>1. PICK j \in 1..k : x = tokens[j]
      BY <1>10, <2>2
    <3>2. tracker'.bound[x].index = Preview /\ tracker'.bound[x].frame = m + j - 1
      <4>1. tracker'.bound[x] = Context(m + j - 1, Preview)
        BY <1>10, <3>1
      <4> QED BY <4>1 DEF Context
    <3>3. m + j - 1 \in DOMAIN tracker'.streaming
      BY <1>10
    <3> QED BY <3>2, <3>3 DEF Resolves
  <2> QED BY <2>1, <2>2
<1>17. \A x \in Nat \ {0} : \A b : OwedBy(driver, worker, x, b) => OwedBy(driver', worker', x, b)
  BY <1>6 DEF OwedBy, KeepsOwed
<1>18. RowsBacked'
  <2>1. ASSUME NEW f \in DOMAIN tracker'.requests, tracker'.requests[f].state = "QueuedToDriver",
               NEW i \in DOMAIN tracker'.requests[f].outputs \ tracker'.requests[f].completed
        PROVE  \E x \in DOMAIN tracker'.bound :
                 /\ tracker'.bound[x] = Context(f, i)
                 /\ OwedBy(driver', worker', x, tracker'.requests[f].outputs[i])
    <3>1. PICK x \in DOMAIN tracker.bound :
            /\ tracker.bound[x] = Context(f, i)
            /\ OwedBy(driver, worker, x, tracker.requests[f].outputs[i])
      BY <1>10, <2>1 DEF IInv, RowsBacked, Owed, OwedBy
    <3> QED BY <1>5, <1>10, <1>17, <3>1
  <2>2. ASSUME ~IsMock(driver'), NEW f \in DOMAIN tracker'.streaming
        PROVE  \E x \in DOMAIN tracker'.bound :
                 /\ tracker'.bound[x] = Context(f, Preview)
                 /\ OwedBy(driver', worker', x, tracker'.streaming[f])
    <3>1. CASE f \in DOMAIN tracker.streaming
      <4>1. ~IsMock(driver)
        BY <2>2 DEF Loads, SameConfig
      <4>2. PICK x \in DOMAIN tracker.bound :
              /\ tracker.bound[x] = Context(f, Preview)
              /\ OwedBy(driver, worker, x, tracker.streaming[f])
        BY <3>1, <4>1 DEF IInv, RowsBacked, Owed, OwedBy
      <4> QED BY <1>5, <1>10, <1>17, <3>1, <4>2
    <3>2. CASE f \notin DOMAIN tracker.streaming
      <4>1. PICK j \in 1..k : f = m + j - 1
        BY <1>10, <3>2
      <4>2. /\ tracker'.streaming[f] = PreviewBuffers[j]
            /\ Owes(driver', tokens[j], PreviewBuffers[j])
        BY <1>8, <1>10, <4>1
      <4>3. OwedBy(driver', worker', tokens[j], tracker'.streaming[f])
        BY <4>2 DEF OwedBy
      <4> QED BY <1>10, <4>1, <4>3
    <3> QED BY <3>1, <3>2
  <2> QED BY <2>1, <2>2 DEF RowsBacked, Owed, OwedBy
<1>19. QueueInv' /\ PreviewInv'
  BY <1>7, IdleControlOK DEF QueueInv, PreviewInv
<1>20. ContinuousInv'
  BY <1>11 DEF IInv, ContinuousInv, Loads, SameConfig
<1> QED BY <1>13, <1>14, <1>15, <1>16, <1>18, <1>19, <1>20 DEF IInv

\* A preview buffer could not be queued: the session is in Error.
LEMMA PreviewFailed ==
  ASSUME IInv, control.pc = "preview", NEW v \in Previews, NEW d,
         LoadFails(driver, d, v, DriverBuffers),
         DriverOK(driver', DriverBuffers), SameConfig(d, driver'),
         driver'.nextToken = d.nextToken, KeepsOwed(d, driver'),
         nextFrame' = nextFrame + Len(PreviewBuffers),
         state' = "Error", lock' = "free", control' = IdleControl,
         UNCHANGED <<tracker, tasks, asleep, dropped, armed, worker, frameworkVars,
                     deliveryVars, boundVars>>
  PROVE  IInv'
<1>1. SameConfig(driver, driver') /\ KeepsOwed(driver, driver')
  BY DEF LoadFails, SameConfig, KeepsOwed
<1>2. driver.nextToken <= driver'.nextToken
  <2>1. driver.nextToken \in Nat
    BY DEF IInv, Shape, DriverOK, MockOK, V4L2OK
  <2>2. d.nextToken \in {driver.nextToken, driver.nextToken + 1}
    BY DEF LoadFails
  <2> QED BY <2>1, <2>2
<1>3. nextFrame' \in Nat /\ nextFrame <= nextFrame' /\ StreamBase <= nextFrame'
  BY PreviewsOK, FramesOK DEF IInv, Shape
<1>4. /\ BindInv' /\ BindingsResolve' /\ RowsBacked' /\ QueueInv'
      /\ EventFds(driver') = EventFds(driver) /\ ReadySet(driver') = ReadySet(driver)
      /\ \E c \in Backends : SameConfig(c, driver')
  BY <1>1, <1>2, <1>3, DriverKept
<1>5. Shape'
  BY <1>3, <1>4, IdleControlOK DEF IInv, Shape, WorkerOK, frameworkVars,
     deliveryVars, boundVars
<1>6. ThreadInv' /\ PreviewInv' /\ ContinuousInv'
  BY <1>4, IdleControlOK DEF IInv, ThreadInv, PreviewInv, ContinuousInv
<1> QED BY <1>4, <1>5, <1>6 DEF IInv

\* start_continuous_stream, one preview buffer, keeps the invariant.
LEMMA QueuePreviewStep ==
  ASSUME IInv, QueuePreview
  PROVE  IInv'
<1> DEFINE k == Len(control.tokens) + 1
           b == PreviewBuffers[k]
<1>1. /\ control.pc = "preview"
      /\ UNCHANGED <<tasks, asleep, dropped, armed, worker, frameworkVars,
                     deliveryVars, boundVars>>
  BY DEF QueuePreview
<1>2. k \in 1..Len(PreviewBuffers) /\ b \in Previews /\ b \in DriverBuffers
  BY <1>1, PreviewsOK DEF IInv, PreviewInv, Shape, ControlOK, DriverBuffers
<1>3. DriverOK(driver, DriverBuffers)
  BY DEF IInv, Shape
<1>4. CASE \E d \in QueueFailures(driver, b) :
             /\ driver' = SetContinuous(d, PreviewBuffers[1], FALSE)
             /\ nextFrame' = nextFrame + Len(PreviewBuffers)
             /\ state' = "Error" /\ lock' = "free" /\ control' = IdleControl
             /\ UNCHANGED tracker
  <2> DEFINE v == PreviewBuffers[1]
             off == FALSE
  <2>0. v \in DriverBuffers /\ off \in BOOLEAN
    BY <1>1, PreviewsOK DEF DriverBuffers, IInv, ThreadInv
  <2> HIDE DEF b, v, off
  <2>1. PICK d \in QueueFailures(driver, b) :
             /\ driver' = SetContinuous(d, v, off)
             /\ nextFrame' = nextFrame + Len(PreviewBuffers)
             /\ state' = "Error" /\ lock' = "free" /\ control' = IdleControl
             /\ UNCHANGED tracker
    BY <1>4 DEF v, off
  <2>2. LoadFails(driver, d, b, DriverBuffers)
    BY <1>2, <1>3, QueueFails
  <2> DEFINE e == SetContinuous(d, v, off)
  <2>3. /\ DriverOK(e, DriverBuffers) /\ SameConfig(d, e)
        /\ e.nextToken = d.nextToken /\ KeepsOwed(d, e)
    BY <2>0, <2>2, SetContinuousSets DEF LoadFails
  <2>4. driver' = e
    BY <2>1
  <2> HIDE DEF e
  <2> QED BY <1>1, <1>2, <2>1, <2>2, <2>3, <2>4, PreviewFailed
<1>5. CASE /\ CanQueue(driver, b) /\ driver' = Queue(driver, b) /\ k < Len(PreviewBuffers)
           /\ control' = [control EXCEPT !.tokens = Append(control.tokens, driver.nextToken)]
           /\ UNCHANGED <<state, tracker, lock, nextFrame>>
  <2>1. Loads(driver, driver', b, DriverBuffers)
    <3> HIDE DEF b
    <3> QED BY <1>2, <1>3, <1>5, QueueLoads
  <2> QED BY <1>1, <1>5, <2>1, PreviewQueued
<1>6. CASE /\ CanQueue(driver, b) /\ driver' = Queue(driver, b) /\ ~(k < Len(PreviewBuffers))
           /\ tracker' = TrackPreviews(Append(control.tokens, driver.nextToken))
           /\ nextFrame' = nextFrame + k
           /\ state' = "Streaming" /\ lock' = "free" /\ control' = IdleControl
  <2>1. Loads(driver, driver', b, DriverBuffers)
    <3> HIDE DEF b
    <3> QED BY <1>2, <1>3, <1>6, QueueLoads
  <2>2. k = Len(PreviewBuffers)
    BY <1>2, <1>6, PreviewsOK
  <2> QED BY <1>1, <1>6, <2>1, <2>2, PreviewsStarted
<1> QED BY <1>4, <1>5, <1>6 DEF QueuePreview

-----------------------------------------------------------------------------
\* A token bound to an output of a request is bound to a row of the request
\* table; preview rows have frame numbers no request has.
LEMMA BoundFrame ==
  ASSUME IInv, NEW x \in DOMAIN tracker.bound
  PROVE  LET c == tracker.bound[x] IN
         /\ x \in Nat \ {0} /\ x < driver.nextToken /\ c \in ContextSet
         /\ c = Context(c.frame, c.index)
         /\ c.index = Preview => c.frame \in DOMAIN tracker.streaming /\ StreamBase <= c.frame
         /\ c.index # Preview => /\ c.frame \in DOMAIN tracker.requests
                                 /\ c.frame \in Frames /\ c.frame < StreamBase
                                 /\ c.index \in DOMAIN tracker.requests[c.frame].outputs
                                 /\ c.index \notin tracker.requests[c.frame].completed
<1>1. Resolves(tracker, x) /\ TrackerOK(tracker)
  BY DEF IInv, BindingsResolve, Shape
<1>2. driver.nextToken \in Nat
  BY DEF IInv, Shape, DriverOK, MockOK, V4L2OK
<1>3. x \in Nat \ {0} /\ x < driver.nextToken
  BY <1>2 DEF IInv, BindInv
<1>4. tracker.bound[x] \in ContextSet
  BY <1>1 DEF TrackerOK
<1>5. tracker.bound[x] = Context(tracker.bound[x].frame, tracker.bound[x].index)
  BY <1>4 DEF ContextSet, Context
<1>6. \A f \in DOMAIN tracker.streaming : StreamBase <= f
  BY FramesOK DEF IInv, BindInv, Shape
<1> QED BY <1>1, <1>3, <1>4, <1>5, <1>6, FramesOK DEF Resolves, TrackerOK, IInv, BindingsResolve

\* Failing a request takes its row and its bindings, and no others.
LEMMA FailedKeeps ==
  ASSUME IInv, NEW f \in Frames, tracker' = FailedTracker(tracker, f),
         nextFrame' = nextFrame, worker.pc # "complete",
         driver'.nextToken \in Nat, driver.nextToken <= driver'.nextToken,
         SameConfig(driver, driver'), KeepsOwed(driver, driver')
  PROVE  TrackerOK(tracker') /\ BindInv' /\ BindingsResolve' /\ RowsBacked'
<1>1. /\ TrackerOK(tracker') /\ tracker'.streaming = tracker.streaming
      /\ DOMAIN tracker'.requests = DOMAIN tracker.requests \ {f}
      /\ \A g \in DOMAIN tracker.requests \ {f} : tracker'.requests[g] = tracker.requests[g]
      /\ DOMAIN tracker'.bound = {x \in DOMAIN tracker.bound : tracker.bound[x].frame # f}
      /\ \A x \in DOMAIN tracker'.bound : tracker'.bound[x] = tracker.bound[x]
  BY FailedTrackerIs DEF IInv, Shape
<1>2. driver.nextToken \in Nat /\ DOMAIN tracker.bound \subseteq Nat \ {0}
  BY DEF IInv, Shape, DriverOK, MockOK, V4L2OK, TrackerOK
<1>3. BindInv'
  BY <1>1, <1>2 DEF IInv, BindInv
<1>4. BindingsResolve'
  BY <1>1 DEF IInv, BindingsResolve, Resolves
<1>5. \A x \in Nat \ {0} : \A b : OwedBy(driver, worker, x, b) => OwedBy(driver', worker', x, b)
  BY DEF OwedBy, KeepsOwed
<1>6. RowsBacked'
  <2>1. ASSUME NEW g \in DOMAIN tracker'.requests, tracker'.requests[g].state = "QueuedToDriver",
               NEW i \in DOMAIN tracker'.requests[g].outputs \ tracker'.requests[g].completed
        PROVE  \E x \in DOMAIN tracker'.bound :
                 /\ tracker'.bound[x] = Context(g, i)
                 /\ OwedBy(driver', worker', x, tracker'.requests[g].outputs[i])
    <3>1. PICK x \in DOMAIN tracker.bound :
            /\ tracker.bound[x] = Context(g, i)
            /\ OwedBy(driver, worker, x, tracker.requests[g].outputs[i])
      BY <1>1, <2>1 DEF IInv, RowsBacked, Owed, OwedBy
    <3>2. x \in DOMAIN tracker'.bound
      BY <1>1, <3>1 DEF Context
    <3> QED BY <1>1, <1>2, <1>5, <3>1, <3>2
  <2>2. ASSUME ~IsMock(driver'), NEW g \in DOMAIN tracker'.streaming
        PROVE  \E x \in DOMAIN tracker'.bound :
                 /\ tracker'.bound[x] = Context(g, Preview)
                 /\ OwedBy(driver', worker', x, tracker'.streaming[g])
    <3>1. ~IsMock(driver) /\ g \in DOMAIN tracker.streaming
      BY <1>1, <2>2 DEF SameConfig
    <3>2. PICK x \in DOMAIN tracker.bound :
            /\ tracker.bound[x] = Context(g, Preview)
            /\ OwedBy(driver, worker, x, tracker.streaming[g])
      BY <3>1 DEF IInv, RowsBacked, Owed, OwedBy
    <3>3. g # f
      BY <3>1, FramesOK DEF IInv, BindInv, Shape
    <3>4. x \in DOMAIN tracker'.bound
      BY <1>1, <3>2, <3>3 DEF Context
    <3> QED BY <1>1, <1>2, <1>5, <3>2, <3>4
  <2> QED BY <2>1, <2>2 DEF RowsBacked, Owed, OwedBy
<1> QED BY <1>1, <1>3, <1>4, <1>6

\* submit_capture_request keeps the invariant.
LEMMA SubmitCaptureRequestStep ==
  ASSUME IInv, SubmitCaptureRequest
  PROVE  IInv'
<1> DEFINE r == worker.request
           f == r.frame
<1>1. /\ worker.pc = "submit" /\ lock = "free"
      /\ UNCHANGED <<state, driver, nextFrame, tasks, asleep, dropped, armed,
                     control, frameworkVars, deliveryVars, boundVars>>
  BY DEF SubmitCaptureRequest
<1>2. r \in Requests /\ TrackerOK(tracker) /\ control.pc # "preview" /\ worker.index = 1
  BY <1>1 DEF IInv, Shape, ThreadInv
<1>3. f \in Frames /\ f \in Nat /\ f < StreamBase /\ OutputsOf(r) \in OutputSet /\ ~IsReady(r)
      /\ r # NoRequest
  BY <1>2, RequestOK
<1>4. ASSUME NEW res \in ResultSet,
             worker' = [worker EXCEPT !.pc = "dispatch", !.result = res], lock' = lock
      PROVE  /\ WorkerOK(worker', driver) /\ ThreadInv' /\ worker'.pc = "dispatch"
             /\ TrackerOK(tracker') => Shape'
  <2>1. /\ WorkerOK(worker', driver) /\ worker'.pc = "dispatch" /\ worker'.result = res
        /\ worker'.request = r
    BY <1>4 DEF IInv, Shape, WorkerOK
  <2>2. ThreadInv'
    BY <1>1, <1>2, <1>3, <1>4, <2>1 DEF IInv, ThreadInv
  <2>3. TrackerOK(tracker') => Shape'
    BY <1>1, <1>4, <2>1 DEF IInv, Shape, frameworkVars, deliveryVars, boundVars
  <2> QED BY <2>1, <2>2, <2>3
<1>5. CASE /\ worker' = [worker EXCEPT !.pc = "dispatch", !.result = Result(f, {})]
           /\ tracker' = tracker /\ UNCHANGED lock
  <2>1. Result(f, {}) \in ResultSet
    BY <1>3 DEF Result, ResultSet
  <2>2. Shape' /\ ThreadInv' /\ worker'.pc = "dispatch"
    BY <1>2, <1>4, <1>5, <2>1
  <2> QED BY <1>1, <1>5, <2>2, WorkerMoves
<1>6. CASE /\ worker' = [worker EXCEPT !.pc = "dispatch", !.result = FailedResult(tracker, r)]
           /\ tracker' = FailedTracker(tracker, f) /\ UNCHANGED lock
  <2>1. FailedResult(tracker, r) \in ResultSet
    BY <1>2, FailedResultOK
  <2>2. /\ SameConfig(driver, driver') /\ KeepsOwed(driver, driver')
        /\ driver'.nextToken \in Nat /\ driver.nextToken <= driver'.nextToken
    BY <1>1 DEF SameConfig, KeepsOwed, IInv, Shape, DriverOK, MockOK, V4L2OK
  <2>3. TrackerOK(tracker') /\ BindInv' /\ BindingsResolve' /\ RowsBacked'
    BY <1>1, <1>3, <1>6, <2>2, FailedKeeps
  <2>4. Shape' /\ ThreadInv' /\ worker'.pc = "dispatch"
    BY <1>4, <1>6, <2>1, <2>3
  <2>5. QueueInv' /\ PreviewInv' /\ ContinuousInv'
    BY <1>1, <1>2, <2>4 DEF QueueInv, PreviewInv, IInv, ContinuousInv
  <2> QED BY <2>3, <2>4, <2>5 DEF IInv
<1>7. CASE /\ CanStart(tracker, f, OutputsOf(r)) /\ tracker' = Start(tracker, f, OutputsOf(r))
           /\ lock' = "worker" /\ worker' = [worker EXCEPT !.pc = "queue"]
  <2> DEFINE o == OutputsOf(r)
  <2>1. f \notin DOMAIN tracker.requests
    BY <1>7 DEF CanStart
  <2>2. /\ TrackerOK(tracker') /\ tracker'.streaming = tracker.streaming
        /\ tracker'.bound = tracker.bound
        /\ DOMAIN tracker'.requests = DOMAIN tracker.requests \cup {f}
        /\ tracker'.requests[f].outputs = o /\ tracker'.requests[f].completed = {}
        /\ tracker'.requests[f].state = "Submitted"
        /\ \A g \in DOMAIN tracker.requests : g # f => tracker'.requests[g] = tracker.requests[g]
    BY <1>2, <1>3, <1>7, StartIs
  <2>3. /\ WorkerOK(worker', driver) /\ worker'.pc = "queue" /\ worker'.request = r
        /\ worker'.index = 1 /\ worker'.result = None
    BY <1>1, <1>2, <1>7 DEF IInv, Shape, WorkerOK, ThreadInv
  <2>4. \A x \in DOMAIN tracker.bound : tracker.bound[x].frame # f
    <3> TAKE x \in DOMAIN tracker.bound
    <3> DEFINE c == tracker.bound[x]
    <3>1. /\ c.index = Preview => c.frame \in DOMAIN tracker.streaming /\ StreamBase <= c.frame
          /\ c.index # Preview => c.frame \in DOMAIN tracker.requests
      BY BoundFrame
    <3> QED BY <1>3, <2>1, <3>1, FramesOK
  <2> HIDE DEF r, o
  <2>5. Shape' /\ ThreadInv'
    BY <1>1, <1>2, <1>7, <2>2, <2>3 DEF IInv, Shape, ThreadInv, frameworkVars, deliveryVars, boundVars
  <2>6. BindInv'
    BY <1>1, <2>2 DEF IInv, BindInv
  <2>7. BindingsResolve'
    BY <2>1, <2>2, <2>4 DEF IInv, BindingsResolve, Resolves
  <2>8. \A x, b : Owed(x, b) => Owed(x, b)'
    BY <1>1 DEF Owed
  <2>9. RowsBacked'
    BY <1>1, <2>2, <2>8 DEF IInv, RowsBacked
  <2>10. QueueInv'
    <3>1. Len(o) \in Nat \ {0}
      BY <1>3, OutputsIn DEF o
    <3> QED BY <2>2, <2>3, <2>4, <3>1 DEF QueueInv, o
  <2>11. PreviewInv' /\ ContinuousInv'
    BY <1>1, <1>2 DEF PreviewInv, IInv, ContinuousInv
  <2> QED BY <2>5, <2>6, <2>7, <2>9, <2>10, <2>11 DEF IInv
<1> QED BY <1>5, <1>6, <1>7 DEF SubmitCaptureRequest

-----------------------------------------------------------------------------
\* A new binding, for a token the driver has just drawn.
LEMMA Bound ==
  ASSUME IInv, NEW u, TrackerOK(u), u.requests = tracker.requests,
         NEW c \in ContextSet,
         NEW x, x = driver.nextToken,
         DOMAIN u.bound = DOMAIN tracker.bound \cup {x}, u.bound[x] = c,
         \A y \in DOMAIN tracker.bound : u.bound[y] = tracker.bound[y],
         \A y \in DOMAIN tracker.bound : tracker.bound[y] # c
  PROVE  /\ DOMAIN u.bound \subseteq 1..x
         /\ \A y, z \in DOMAIN u.bound : u.bound[y] = u.bound[z] => y = z
         /\ x \notin DOMAIN tracker.bound
<1>1. x \in Nat \ {0} /\ DOMAIN tracker.bound \subseteq 1..(x - 1)
  BY DEF IInv, Shape, DriverOK, MockOK, V4L2OK, BindInv
<1>2. x \notin DOMAIN tracker.bound
  BY <1>1
<1>3. DOMAIN u.bound \subseteq 1..x
  BY <1>1
<1>4. \A y, z \in DOMAIN u.bound : u.bound[y] = u.bound[z] => y = z
  BY <1>2 DEF IInv, BindInv
<1> QED BY <1>2, <1>3, <1>4

\* The worker has queued an output and bound its token.
LEMMA OutputQueued ==
  ASSUME IInv, worker.pc = "queue",
         NEW r, r = worker.request, NEW o, o = OutputsOf(r),
         NEW k, k = worker.index, NEW x, x = driver.nextToken,
         Loads(driver, driver', o[k], DriverBuffers),
         NEW u, u = BindDriverOutput(tracker, x, Context(r.frame, k)),
         \/ /\ k < Len(o) /\ tracker' = u
            /\ worker' = [worker EXCEPT !.index = @ + 1] /\ lock' = lock
         \/ /\ ~(k < Len(o)) /\ tracker' = MarkQueuedToDriver(u, r.frame)
            /\ worker' = IdleWorker /\ lock' = "free",
         UNCHANGED <<state, nextFrame, tasks, asleep, dropped, armed, control,
                     frameworkVars, deliveryVars, boundVars>>
  PROVE  IInv'
<1> DEFINE f == r.frame
           c == Context(f, k)
<1>1. r \in Requests /\ TrackerOK(tracker) /\ control.pc # "preview"
  BY DEF IInv, Shape, ThreadInv
<1>2. f \in Frames /\ f \in Nat /\ f < StreamBase /\ o \in OutputSet /\ f # 0
  BY <1>1, RequestOK
<1>3. Len(o) \in Nat \ {0} /\ DOMAIN o = 1..Len(o)
  BY <1>2, OutputsIn
<1>4. /\ f \in DOMAIN tracker.requests
      /\ tracker.requests[f].outputs = o /\ tracker.requests[f].completed = {}
      /\ tracker.requests[f].state = "Submitted"
      /\ k <= Len(o) /\ k \in Nat \ {0} /\ k \in DOMAIN o
      /\ \A y \in DOMAIN tracker.bound : tracker.bound[y].frame = f => tracker.bound[y].index < k
      /\ \A j \in 1..(k - 1) : \E y \in DOMAIN tracker.bound :
           tracker.bound[y] = Context(f, j) /\ OwedBy(driver, worker, y, o[j])
  BY <1>3 DEF IInv, QueueInv, Shape, WorkerOK, Backed, Owed, OwedBy
<1>5. x \in Nat \ {0} /\ driver'.nextToken = x + 1 /\ x \notin DOMAIN tracker.bound
      /\ DOMAIN tracker.bound \subseteq Nat \ {0}
  BY DEF IInv, Shape, DriverOK, MockOK, V4L2OK, BindInv, Loads, TrackerOK
<1>6. c \in ContextSet /\ c.frame = f /\ c.index = k /\ k # Preview
  BY <1>2, <1>4 DEF Context, ContextSet, Preview
<1>7. \A y \in DOMAIN tracker.bound : tracker.bound[y] # c
  BY <1>4, <1>6
<1> HIDE DEF f, c
<1>8. /\ TrackerOK(u) /\ u.requests = tracker.requests /\ u.streaming = tracker.streaming
      /\ DOMAIN u.bound = DOMAIN tracker.bound \cup {x} /\ u.bound[x] = c
      /\ \A y \in DOMAIN tracker.bound : u.bound[y] = tracker.bound[y]
  <2>1. u = BindDriverOutput(tracker, x, c)
    BY DEF c, f
  <2> QED BY <1>1, <1>5, <1>6, <2>1, BindIs
<1>9. /\ DOMAIN u.bound \subseteq 1..x
      /\ \A y, z \in DOMAIN u.bound : u.bound[y] = u.bound[z] => y = z
  BY <1>6, <1>7, <1>8, Bound
<1>10. \A y \in Nat \ {0} : \A b : OwedBy(driver, worker, y, b) => OwedBy(driver', worker', y, b)
  BY DEF OwedBy, Loads, KeepsOwed
<1>11. OwedBy(driver', worker', x, o[k])
  BY DEF OwedBy, Loads
<1>12. /\ EventFds(driver') = EventFds(driver) /\ ReadySet(driver') = ReadySet(driver)
       /\ \E a \in Backends : SameConfig(a, driver')
       /\ PreviewBuffers # <<>> => driver.route[PreviewBuffers[1]] \in EventFds(driver)
  BY ConfigKept DEF Loads, IInv
\* the row afterwards
<1>13. /\ TrackerOK(tracker') /\ tracker'.streaming = tracker.streaming /\ tracker'.bound = u.bound
       /\ DOMAIN tracker'.requests = DOMAIN tracker.requests
       /\ tracker'.requests[f].outputs = o /\ tracker'.requests[f].completed = {}
       /\ tracker'.requests[f].state = IF k < Len(o) THEN "Submitted" ELSE "QueuedToDriver"
       /\ \A g \in DOMAIN tracker.requests : g # f => tracker'.requests[g] = tracker.requests[g]
  <2>1. CASE k < Len(o)
    BY <1>4, <1>8, <2>1
  <2>2. CASE ~(k < Len(o))
    <3>1. tracker' = MarkQueuedToDriver(u, f) /\ f \in DOMAIN u.requests
      BY <1>4, <1>8, <2>2 DEF f
    <3> QED BY <1>4, <1>8, <2>2, <3>1, MarkQueuedIs
  <2> QED BY <2>1, <2>2
<1>14. /\ WorkerOK(worker', driver) /\ worker'.result = None
       /\ worker'.pc = IF k < Len(o) THEN "queue" ELSE "idle"
       /\ k < Len(o) => worker'.index = k + 1 /\ worker'.request = r
       /\ lock' = IF k < Len(o) THEN "worker" ELSE "free"
  <2>1. CASE k < Len(o)
    <3>1. k + 1 \in Nat \ {0} /\ worker' = [worker EXCEPT !.index = k + 1] /\ lock' = lock
      BY <1>4, <2>1
    <3>2. WorkerOK(worker, driver)
      BY DEF IInv, Shape
    <3>3. /\ WorkerOK(worker', driver) /\ worker'.index = k + 1 /\ worker'.pc = worker.pc
          /\ worker'.request = worker.request /\ worker'.result = worker.result
      BY <3>1, <3>2 DEF WorkerOK
    <3> QED BY <2>1, <3>1, <3>3 DEF IInv, ThreadInv
  <2>2. CASE ~(k < Len(o))
    BY <2>2, IdleWorkerOK
  <2> QED BY <2>1, <2>2
<1>15. Shape'
  BY <1>12, <1>13, <1>14 DEF IInv, Shape, WorkerOK, Loads, frameworkVars, deliveryVars, boundVars
<1>16. ThreadInv'
  BY <1>1, <1>14 DEF IInv, ThreadInv
<1>17. BindInv'
  <2>1. driver'.nextToken - 1 = x
    BY <1>5
  <2> QED BY <1>9, <1>13, <2>1 DEF IInv, BindInv
<1>18. BindingsResolve'
  <2> SUFFICES ASSUME NEW y \in DOMAIN tracker'.bound
               PROVE  /\ Resolves(tracker', y)
                      /\ tracker'.bound[y].index # Preview =>
                           tracker'.bound[y].index
                             \notin tracker'.requests[tracker'.bound[y].frame].completed
    BY DEF BindingsResolve
  <2>1. CASE y = x
    <3>1. /\ tracker'.bound[y] = c /\ f \in DOMAIN tracker'.requests
          /\ k \in DOMAIN tracker'.requests[f].outputs
          /\ tracker'.requests[f].completed = {}
      BY <1>4, <1>8, <1>13, <2>1
    <3> QED BY <1>6, <3>1 DEF Resolves
  <2>2. CASE y # x
    BY <1>4, <1>8, <1>13, <2>2 DEF IInv, BindingsResolve, Resolves
  <2> QED BY <2>1, <2>2
<1>19. ASSUME NEW j \in 1..k
       PROVE  \E y \in DOMAIN tracker'.bound :
                tracker'.bound[y] = Context(f, j) /\ OwedBy(driver', worker', y, o[j])
  <2>1. CASE j = k
    BY <1>8, <1>11, <1>13, <2>1 DEF c
  <2>2. CASE j # k
    <3>1. j \in 1..(k - 1)
      BY <1>4, <2>2
    <3> QED BY <1>4, <1>5, <1>8, <1>10, <1>13, <3>1
  <2> QED BY <2>1, <2>2
<1>20. RowsBacked'
  <2>1. ASSUME NEW g \in DOMAIN tracker'.requests, tracker'.requests[g].state = "QueuedToDriver",
               NEW i \in DOMAIN tracker'.requests[g].outputs \ tracker'.requests[g].completed
        PROVE  \E y \in DOMAIN tracker'.bound :
                 /\ tracker'.bound[y] = Context(g, i)
                 /\ OwedBy(driver', worker', y, tracker'.requests[g].outputs[i])
    <3>1. CASE g = f
      <4>1. k = Len(o) /\ i \in 1..k
        BY <1>3, <1>4, <1>13, <2>1, <3>1
      <4> QED BY <1>13, <1>19, <3>1, <4>1
    <3>2. CASE g # f
      <4>1. PICK y \in DOMAIN tracker.bound :
              /\ tracker.bound[y] = Context(g, i)
              /\ OwedBy(driver, worker, y, tracker.requests[g].outputs[i])
        BY <1>13, <2>1, <3>2 DEF IInv, RowsBacked, Owed, OwedBy
      <4> QED BY <1>5, <1>8, <1>10, <1>13, <3>2, <4>1
    <3> QED BY <3>1, <3>2
  <2>2. ASSUME ~IsMock(driver'), NEW g \in DOMAIN tracker'.streaming
        PROVE  \E y \in DOMAIN tracker'.bound :
                 /\ tracker'.bound[y] = Context(g, Preview)
                 /\ OwedBy(driver', worker', y, tracker'.streaming[g])
    <3>1. ~IsMock(driver) /\ g \in DOMAIN tracker.streaming
      BY <1>13, <2>2 DEF SameConfig, Loads
    <3>2. PICK y \in DOMAIN tracker.bound :
            /\ tracker.bound[y] = Context(g, Preview)
            /\ OwedBy(driver, worker, y, tracker.streaming[g])
      BY <3>1 DEF IInv, RowsBacked, Owed, OwedBy
    <3> QED BY <1>5, <1>8, <1>10, <1>13, <3>2
  <2> QED BY <2>1, <2>2 DEF RowsBacked, Owed, OwedBy
<1>21. QueueInv'
  <2>1. CASE k < Len(o)
    <3>1. /\ worker'.pc = "queue" /\ worker'.index = k + 1 /\ worker'.request = r
          /\ worker'.index <= Len(o) /\ worker'.index - 1 = k
      BY <1>3, <1>4, <1>14, <2>1
    <3>2. \A y \in DOMAIN tracker'.bound :
            tracker'.bound[y].frame = f => tracker'.bound[y].index < k + 1
      <4> TAKE y \in DOMAIN tracker'.bound
      <4>1. CASE y = x
        BY <1>4, <1>6, <1>8, <1>13, <4>1
      <4>2. CASE y # x
        <5>1. y \in DOMAIN tracker.bound /\ tracker'.bound[y] = tracker.bound[y]
          BY <1>8, <1>13, <4>2
        <5>2. tracker.bound[y].index \in Nat
          BY <1>1, <5>1 DEF TrackerOK, ContextSet
        <5> QED BY <1>4, <5>1, <5>2
      <4> QED BY <4>1, <4>2
    <3>3. \A j \in 1..k : \E y \in DOMAIN tracker'.bound :
            tracker'.bound[y] = Context(f, j) /\ OwedBy(driver', worker', y, o[j])
      BY <1>19
    <3>4. f \in DOMAIN tracker'.requests /\ tracker'.requests[f].state = "Submitted"
      BY <1>4, <1>13, <2>1
    <3>5. worker'.request.frame = f /\ OutputsOf(worker'.request) = o
      BY <3>1 DEF f
    <3> QED BY <1>13, <3>1, <3>2, <3>3, <3>4, <3>5 DEF QueueInv, Backed, Owed, OwedBy
  <2>2. CASE ~(k < Len(o))
    BY <1>14, <2>2 DEF QueueInv
  <2> QED BY <2>1, <2>2
<1>22. PreviewInv'
  BY <1>1 DEF PreviewInv
<1>23. ContinuousInv'
  BY <1>12 DEF IInv, ContinuousInv, Loads, SameConfig
<1> QED BY <1>15, <1>16, <1>17, <1>18, <1>20, <1>21, <1>22, <1>23 DEF IInv

\* submit_request_to_driver_locked, one output, keeps the invariant.
LEMMA QueueOutputStep ==
  ASSUME IInv, QueueOutput
  PROVE  IInv'
<1> DEFINE r == worker.request
           o == OutputsOf(r)
           b == o[worker.index]
<1>1. /\ worker.pc = "queue"
      /\ UNCHANGED <<state, nextFrame, tasks, asleep, dropped, armed, control,
                     frameworkVars, deliveryVars, boundVars>>
  BY DEF QueueOutput
<1>2. /\ r \in Requests /\ TrackerOK(tracker) /\ control.pc # "preview"
      /\ DriverOK(driver, DriverBuffers) /\ lock = "worker"
  BY <1>1 DEF IInv, Shape, ThreadInv
<1>3. r.frame \in Frames /\ o \in OutputSet /\ r # NoRequest
  BY <1>2, RequestOK
<1>4. b \in DriverBuffers
  <2>1. worker.index \in 1..Len(o)
    BY <1>1, <1>3, OutputsIn DEF IInv, QueueInv, Shape, WorkerOK
  <2> QED BY <1>3, <2>1, OutputsIn DEF DriverBuffers
<1>5. CASE /\ CanQueue(driver, b) /\ driver' = Queue(driver, b)
           /\ \/ /\ worker.index < Len(o)
                 /\ tracker' = BindDriverOutput(tracker, driver.nextToken,
                                                Context(r.frame, worker.index))
                 /\ worker' = [worker EXCEPT !.index = @ + 1] /\ lock' = lock
              \/ /\ ~(worker.index < Len(o))
                 /\ tracker' = MarkQueuedToDriver(
                                 BindDriverOutput(tracker, driver.nextToken,
                                                  Context(r.frame, worker.index)), r.frame)
                 /\ worker' = IdleWorker /\ lock' = "free"
  <2>1. Loads(driver, driver', b, DriverBuffers)
    <3> HIDE DEF b
    <3> QED BY <1>2, <1>4, <1>5, QueueLoads
  <2> QED BY <1>1, <1>5, <2>1, OutputQueued
<1>6. CASE \E d \in QueueFailures(driver, b) :
             /\ driver' = d /\ tracker' = FailedTracker(tracker, r.frame)
             /\ worker' = [worker EXCEPT !.pc = "dispatch", !.result = FailedResult(tracker, r)]
             /\ lock' = "free"
  <2> DEFINE res == FailedResult(tracker, r)
  <2>1. LoadFails(driver, driver', b, DriverBuffers)
    <3> HIDE DEF b
    <3> QED BY <1>2, <1>4, <1>6, QueueFails
  <2>2. res \in ResultSet
    BY <1>2, FailedResultOK
  <2>3. driver'.nextToken \in Nat /\ driver.nextToken <= driver'.nextToken
    <3>1. driver.nextToken \in Nat
      BY <1>2 DEF DriverOK, MockOK, V4L2OK
    <3>2. driver'.nextToken \in {driver.nextToken, driver.nextToken + 1}
      BY <2>1 DEF LoadFails
    <3> QED BY <3>1, <3>2
  <2>4. TrackerOK(tracker') /\ BindInv' /\ BindingsResolve' /\ RowsBacked'
    BY <1>1, <1>3, <1>6, <2>1, <2>3, FailedKeeps DEF LoadFails
  <2>5. /\ EventFds(driver') = EventFds(driver) /\ ReadySet(driver') = ReadySet(driver)
        /\ \E c \in Backends : SameConfig(c, driver')
        /\ PreviewBuffers # <<>> => driver.route[PreviewBuffers[1]] \in EventFds(driver)
    BY <2>1, ConfigKept DEF LoadFails, IInv
  <2> HIDE DEF res
  <2>6. /\ WorkerOK(worker', driver) /\ worker'.pc = "dispatch" /\ worker'.result = res
        /\ worker'.request = r /\ lock' = "free"
    BY <1>6, <2>2 DEF IInv, Shape, WorkerOK, res
  <2>7. Shape'
    BY <1>1, <2>1, <2>4, <2>5, <2>6 DEF IInv, Shape, LoadFails, WorkerOK, frameworkVars,
       deliveryVars, boundVars
  <2>8. ThreadInv'
    BY <1>1, <1>2, <1>3, <2>2, <2>6 DEF IInv, ThreadInv
  <2>9. QueueInv' /\ PreviewInv'
    BY <1>1, <1>2, <2>6 DEF QueueInv, PreviewInv
  <2>10. ContinuousInv'
    BY <1>1, <2>1, <2>5 DEF IInv, ContinuousInv, LoadFails, SameConfig, SameFlags
  <2> QED BY <2>4, <2>7, <2>8, <2>9, <2>10 DEF IInv
<1> QED BY <1>5, <1>6 DEF QueueOutput

\* One turn of on_driver_fd_ready keeps the invariant.
LEMMA DequeueCompletionStep ==
  ASSUME IInv, DequeueCompletion
  PROVE  IInv'
<1> DEFINE e == ReadyEndpoint
           x == DequeuedToken(driver, e)
<1>1. /\ worker.pc = "ready" /\ lock = "free"
      /\ UNCHANGED <<state, tracker, lock, nextFrame, tasks, asleep, dropped, armed,
                     control, frameworkVars, deliveryVars, boundVars>>
  BY DEF DequeueCompletion
<1>2. worker.request \in ReadySet(driver) /\ e \in EventFds(driver) /\ control.pc # "preview"
      /\ worker.result = None
  BY <1>1, ReadyOK DEF IInv, ThreadInv, ReadyEndpoint
<1>3. ASSUME worker' = [worker EXCEPT !.pc = "rearm"]
      PROVE  /\ WorkerOK(worker', driver) /\ worker'.pc = "rearm"
             /\ worker'.request = worker.request /\ worker'.result = None
  BY <1>2, <1>3 DEF IInv, Shape, WorkerOK
<1>4. CASE driver' = driver /\ worker' = [worker EXCEPT !.pc = "rearm"]
  <2>1. Shape' /\ ThreadInv'
    BY <1>1, <1>2, <1>3, <1>4 DEF IInv, Shape, ThreadInv, frameworkVars, deliveryVars, boundVars
  <2> QED BY <1>1, <1>3, <1>4, <2>1, WorkerMoves
<1>5. CASE /\ CanDequeue(driver, e) /\ driver' = Dequeue(driver, e)
           /\ worker' = IF x # 0 THEN [worker EXCEPT !.pc = "complete", !.token = x]
                        ELSE [worker EXCEPT !.pc = "rearm"]
  <2>1. Unloads(driver, driver', e, x, DriverBuffers)
    <3> HIDE DEF e
    <3> QED BY <1>2, <1>5, DequeueUnloads DEF IInv, Shape
  <2> HIDE DEF x, e
  <2>2. x \in Nat
    BY <2>1 DEF Unloads
  <2>3. /\ WorkerOK(worker', driver) /\ worker'.request = worker.request /\ worker'.result = None
        /\ x # 0 => worker'.pc = "complete" /\ worker'.token = x
        /\ x = 0 => worker'.pc = "rearm"
    BY <1>2, <1>3, <1>5, <2>2 DEF IInv, Shape, WorkerOK
  <2>4. /\ EventFds(driver') = EventFds(driver) /\ ReadySet(driver') = ReadySet(driver)
        /\ \E c \in Backends : SameConfig(c, driver')
        /\ PreviewBuffers # <<>> => driver.route[PreviewBuffers[1]] \in EventFds(driver)
    BY <2>1, ConfigKept DEF Unloads, IInv
  <2>5. Shape'
    BY <1>1, <2>1, <2>3, <2>4 DEF IInv, Shape, Unloads, WorkerOK, frameworkVars,
       deliveryVars, boundVars
  <2>6. ThreadInv'
    BY <1>1, <1>2, <2>3, <2>4 DEF IInv, ThreadInv
  <2>7. BindInv' /\ BindingsResolve'
    BY <1>1, <2>1 DEF IInv, BindInv, BindingsResolve, Unloads
  <2>8. \A y \in Nat \ {0} : \A b : Owed(y, b) => Owed(y, b)'
    BY <1>1, <2>1, <2>2, <2>3 DEF Owed, Unloads
  <2>9. DOMAIN tracker.bound \subseteq Nat \ {0} /\ (IsMock(driver') => IsMock(driver))
        /\ (IsMock(driver) => IsMock(driver'))
    BY <2>1 DEF IInv, Shape, TrackerOK, Unloads, SameConfig
  <2>10. RowsBacked'
    BY <1>1, <2>8, <2>9 DEF IInv, RowsBacked
  <2>11. QueueInv' /\ PreviewInv'
    BY <1>1, <1>2, <2>3 DEF QueueInv, PreviewInv
  <2>12. ContinuousInv'
    BY <1>1, <2>1, <2>4 DEF IInv, ContinuousInv, Unloads, SameConfig, SameFlags
  <2> QED BY <2>5, <2>6, <2>7, <2>10, <2>11, <2>12 DEF IInv
<1> QED BY <1>4, <1>5 DEF DequeueCompletion

-----------------------------------------------------------------------------
\* What is left of the tables once the worker has taken the binding of its token.
LEMMA Taken ==
  ASSUME IInv, worker.pc = "complete", worker'.pc \notin {"complete", "queue"},
         NEW x, x = worker.token,
         UNCHANGED <<driver, nextFrame>>,
         TrackerOK(tracker'), DOMAIN tracker'.bound = DOMAIN tracker.bound \ {x},
         \A y \in DOMAIN tracker.bound \ {x} : tracker'.bound[y] = tracker.bound[y],
         DOMAIN tracker'.streaming \subseteq DOMAIN tracker.streaming,
         \A g \in DOMAIN tracker'.streaming : tracker'.streaming[g] = tracker.streaming[g],
         DOMAIN tracker'.requests \subseteq DOMAIN tracker.requests,
         \A g \in DOMAIN tracker'.requests :
           /\ tracker'.requests[g].outputs = tracker.requests[g].outputs
           /\ tracker'.requests[g].state = tracker.requests[g].state
           /\ tracker.requests[g].completed \subseteq tracker'.requests[g].completed,
         \* the row of the binding is gone, or its output is completed
         x \in DOMAIN tracker.bound =>
           LET f == tracker.bound[x].frame
               k == tracker.bound[x].index IN
           IF k = Preview THEN f \notin DOMAIN tracker'.streaming
           ELSE f \in DOMAIN tracker'.requests => k \in tracker'.requests[f].completed,
         \* and the other bindings resolve
         BindingsResolve'
  PROVE  BindInv' /\ QueueInv' /\ RowsBacked'
<1>1. BindInv'
  BY DEF IInv, BindInv
<1>2. QueueInv'
  BY DEF QueueInv
<1>3. \A y \in DOMAIN tracker.bound : \A b :
        y # x /\ OwedBy(driver, worker, y, b) => OwedBy(driver', worker', y, b)
  BY DEF OwedBy
<1>4. RowsBacked'
  <2>1. ASSUME NEW g \in DOMAIN tracker'.requests, tracker'.requests[g].state = "QueuedToDriver",
               NEW i \in DOMAIN tracker'.requests[g].outputs \ tracker'.requests[g].completed
        PROVE  \E y \in DOMAIN tracker'.bound :
                 /\ tracker'.bound[y] = Context(g, i)
                 /\ OwedBy(driver', worker', y, tracker'.requests[g].outputs[i])
    <3>1. /\ g \in DOMAIN tracker.requests /\ tracker.requests[g].state = "QueuedToDriver"
          /\ tracker'.requests[g].outputs = tracker.requests[g].outputs
          /\ i \in DOMAIN tracker.requests[g].outputs \ tracker.requests[g].completed
      BY <2>1
    <3>2. PICK y \in DOMAIN tracker.bound :
            /\ tracker.bound[y] = Context(g, i)
            /\ OwedBy(driver, worker, y, tracker.requests[g].outputs[i])
      BY <3>1 DEF IInv, RowsBacked, Owed, OwedBy
    <3>3. i # Preview
      <4>1. tracker.requests[g].outputs \in OutputSet
        BY <3>1 DEF IInv, Shape, TrackerOK, RowSet
      <4> QED BY <3>1, <4>1, OutputsIn DEF Preview
    <3>4. y # x
      BY <2>1, <3>2, <3>3 DEF Context
    <3> QED BY <1>3, <3>1, <3>2, <3>4
  <2>2. ASSUME ~IsMock(driver'), NEW g \in DOMAIN tracker'.streaming
        PROVE  \E y \in DOMAIN tracker'.bound :
                 /\ tracker'.bound[y] = Context(g, Preview)
                 /\ OwedBy(driver', worker', y, tracker'.streaming[g])
    <3>1. PICK y \in DOMAIN tracker.bound :
            /\ tracker.bound[y] = Context(g, Preview)
            /\ OwedBy(driver, worker, y, tracker.streaming[g])
      BY <2>2 DEF IInv, RowsBacked, Owed, OwedBy
    <3>2. y # x
      BY <3>1 DEF Context
    <3> QED BY <1>3, <3>1, <3>2
  <2> QED BY <2>1, <2>2 DEF RowsBacked, Owed, OwedBy
<1> QED BY <1>1, <1>2, <1>4

\* on_driver_buffer_complete keeps the invariant.
LEMMA OnDriverBufferCompleteStep ==
  ASSUME IInv, OnDriverBufferComplete
  PROVE  IInv'
<1> DEFINE x == worker.token
           c == tracker.bound[x]
           f == c.frame
           k == c.index
           t == TakeDriverOutputContext(tracker, x)
<1>1. /\ worker.pc = "complete" /\ lock = "free"
      /\ UNCHANGED <<state, driver, lock, nextFrame, tasks, asleep, dropped, armed,
                     control, frameworkVars, deliveryVars, boundVars>>
  BY DEF OnDriverBufferComplete
<1>2. /\ worker.request \in ReadySet(driver) /\ worker.result = None /\ control.pc # "preview"
      /\ TrackerOK(tracker) /\ WorkerOK(worker, driver) /\ worker.request # NoRequest
  BY <1>1, ReadyOK DEF IInv, ThreadInv, Shape
<1>3. LET preview == x \in DOMAIN tracker.bound /\ tracker.bound[x].index = Preview IN
      /\ TrackerOK(t) /\ t.requests = tracker.requests
      /\ DOMAIN t.bound = DOMAIN tracker.bound \ {x}
      /\ \A y \in DOMAIN tracker.bound \ {x} : t.bound[y] = tracker.bound[y]
      /\ DOMAIN t.streaming = IF preview THEN DOMAIN tracker.streaming \ {tracker.bound[x].frame}
                              ELSE DOMAIN tracker.streaming
      /\ \A g \in DOMAIN t.streaming : t.streaming[g] = tracker.streaming[g]
  BY <1>2, TakeIs
<1>4. ASSUME TrackerOK(tracker'), WorkerOK(worker', driver),
             worker'.pc \in {"ready", "callback", "dispatch"},
             worker'.request = worker.request,
             worker'.pc = "callback" => worker'.lease \in Previews,
             worker'.pc # "dispatch" => worker'.result = None,
             worker'.pc = "dispatch" => worker'.result \in ResultSet
      PROVE  Shape' /\ ThreadInv' /\ PreviewInv' /\ ContinuousInv'
  <2>1. Shape'
    BY <1>1, <1>4 DEF IInv, Shape, frameworkVars, deliveryVars, boundVars
  <2>2. ThreadInv'
    BY <1>1, <1>2, <1>4 DEF IInv, ThreadInv
  <2>3. PreviewInv' /\ ContinuousInv'
    BY <1>1, <1>2 DEF IInv, PreviewInv, ContinuousInv
  <2> QED BY <2>1, <2>2, <2>3
<1>5. CASE /\ ~Resolves(tracker, x) /\ tracker' = t
           /\ worker' = [worker EXCEPT !.pc = "ready"]
  <2>1. x \notin DOMAIN tracker.bound
    BY <1>5 DEF IInv, BindingsResolve
  <2> HIDE DEF t, x
  <2>2. /\ WorkerOK(worker', driver) /\ worker'.pc = "ready" /\ worker'.result = None
        /\ worker'.request = worker.request
    BY <1>2, <1>5 DEF WorkerOK
  <2>3. Shape' /\ ThreadInv' /\ PreviewInv' /\ ContinuousInv'
    BY <1>3, <1>4, <1>5, <2>2
  <2>4. /\ DOMAIN tracker'.bound = DOMAIN tracker.bound
        /\ DOMAIN tracker'.streaming = DOMAIN tracker.streaming
        /\ tracker'.requests = tracker.requests
        /\ \A y \in DOMAIN tracker.bound : tracker'.bound[y] = tracker.bound[y]
    BY <1>3, <1>5, <2>1
  <2>5. BindingsResolve'
    BY <2>4 DEF IInv, BindingsResolve, Resolves
  <2>6. BindInv' /\ QueueInv' /\ RowsBacked'
    BY <1>1, <1>3, <1>5, <2>1, <2>2, <2>5, Taken DEF x
  <2> QED BY <2>3, <2>5, <2>6 DEF IInv
<1>6. CASE /\ Resolves(tracker, x) /\ k = Preview /\ tracker' = t
           /\ worker' = [worker EXCEPT !.pc = "callback", !.lease = PreviewLease(f)]
  <2>1. x \in DOMAIN tracker.bound /\ f \in DOMAIN tracker.streaming
    BY <1>6 DEF Resolves
  <2>2. PreviewLease(f) \in Previews
    BY <1>2, <2>1 DEF PreviewLease, TrackerOK
  <2>3. /\ WorkerOK(worker', driver) /\ worker'.pc = "callback" /\ worker'.result = None
        /\ worker'.request = worker.request /\ worker'.lease = PreviewLease(f)
    BY <1>2, <1>6, <2>2 DEF WorkerOK
  <2> HIDE DEF t, f, k, x, c
  <2>4. Shape' /\ ThreadInv' /\ PreviewInv' /\ ContinuousInv'
    BY <1>3, <1>4, <1>6, <2>2, <2>3
  <2>5. DOMAIN tracker'.streaming = DOMAIN tracker.streaming \ {f}
    BY <1>3, <1>6, <2>1 DEF f, k, c
  <2>6. ASSUME NEW y \in DOMAIN tracker.bound \ {x}, tracker.bound[y].index = Preview
        PROVE  tracker.bound[y].frame # f
    <3>1. /\ tracker.bound[y] = Context(tracker.bound[y].frame, tracker.bound[y].index)
          /\ tracker.bound[x] = Context(tracker.bound[x].frame, tracker.bound[x].index)
      BY <2>1, BoundFrame
    <3>2. tracker.bound[y] # tracker.bound[x]
      BY <2>1 DEF IInv, BindInv
    <3> QED BY <1>6, <2>6, <3>1, <3>2 DEF f, k, c
  <2>7. BindingsResolve'
    BY <1>3, <1>6, <2>5, <2>6 DEF IInv, BindingsResolve, Resolves
  <2>8. BindInv' /\ QueueInv' /\ RowsBacked'
    BY <1>1, <1>3, <1>6, <2>1, <2>3, <2>5, <2>7, Taken DEF f, k, c, x
  <2> QED BY <2>4, <2>7, <2>8 DEF IInv
<1>7. CASE /\ Resolves(tracker, x) /\ k # Preview /\ tracker' = CompleteOutput(t, f, k)
           /\ worker' = IF LastOutput(tracker, f, k)
                        THEN [worker EXCEPT !.pc = "dispatch",
                                !.result = Result(f, BuffersOf(tracker.requests[f].outputs))]
                        ELSE [worker EXCEPT !.pc = "ready"]
  <2> DEFINE last == LastOutput(tracker, f, k)
             res == Result(f, BuffersOf(tracker.requests[f].outputs))
             row == tracker.requests[f]
  <2>1. /\ x \in DOMAIN tracker.bound /\ f \in DOMAIN tracker.requests /\ k \in Nat
        /\ k \in DOMAIN row.outputs /\ k \notin row.completed
        /\ c = Context(f, k)
    BY <1>7, BoundFrame DEF Resolves, ContextSet
  <2>2. res \in ResultSet
    BY <1>2, <2>1, RowResultOK
  <2>3. LastOutput(t, f, k) <=> last
    BY <1>3 DEF LastOutput
  <2> HIDE DEF t, f, k, x, c, last, res, row
  <2>4. /\ TrackerOK(tracker') /\ tracker'.streaming = t.streaming /\ tracker'.bound = t.bound
        /\ DOMAIN tracker'.requests = IF last THEN DOMAIN tracker.requests \ {f}
                                      ELSE DOMAIN tracker.requests
        /\ ~last =>
             /\ tracker'.requests[f].outputs = row.outputs
             /\ tracker'.requests[f].completed = row.completed \cup {k}
             /\ tracker'.requests[f].state = row.state
        /\ \A g \in DOMAIN tracker.requests : g # f => tracker'.requests[g] = tracker.requests[g]
    <3>1. f \in DOMAIN t.requests /\ TrackerOK(t) /\ t.requests = tracker.requests
      BY <1>3, <2>1
    <3> DEFINE u == CompleteOutput(t, f, k)
    <3>2. /\ TrackerOK(u) /\ u.streaming = t.streaming /\ u.bound = t.bound
          /\ DOMAIN u.requests = IF LastOutput(t, f, k) THEN DOMAIN t.requests \ {f}
                                 ELSE DOMAIN t.requests
          /\ ~LastOutput(t, f, k) =>
              /\ u.requests[f].outputs = t.requests[f].outputs
              /\ u.requests[f].completed = t.requests[f].completed \cup {k}
              /\ u.requests[f].state = t.requests[f].state
          /\ \A g \in DOMAIN t.requests : g # f => u.requests[g] = t.requests[g]
      <4>1. k \in Nat /\ f \in DOMAIN t.requests /\ TrackerOK(t)
        BY <2>1, <3>1
      <4>2. Completes(t, u, f, k)
        BY <4>1, CompleteOutputIs
      <4> QED BY <4>2 DEF Completes
    <3>3. tracker' = u
      BY <1>7
    <3> HIDE DEF u
    <3> QED BY <2>3, <3>1, <3>2, <3>3 DEF row
  <2>5. /\ WorkerOK(worker', driver) /\ worker'.request = worker.request
        /\ last => worker'.pc = "dispatch" /\ worker'.result = res
        /\ ~last => worker'.pc = "ready" /\ worker'.result = None
    <3>1. CASE last
      <4>1. worker' = [worker EXCEPT !.pc = "dispatch", !.result = res]
        BY <1>7, <3>1 DEF last, res
      <4> QED BY <1>2, <2>2, <3>1, <4>1 DEF WorkerOK
    <3>2. CASE ~last
      <4>1. worker' = [worker EXCEPT !.pc = "ready"]
        BY <1>7, <3>2 DEF last
      <4> QED BY <1>2, <3>2, <4>1 DEF WorkerOK
    <3> QED BY <3>1, <3>2
  <2>6. Shape' /\ ThreadInv' /\ PreviewInv' /\ ContinuousInv'
    BY <1>4, <2>2, <2>4, <2>5
  <2>7. /\ DOMAIN tracker'.bound = DOMAIN tracker.bound \ {x}
        /\ \A y \in DOMAIN tracker.bound \ {x} : tracker'.bound[y] = tracker.bound[y]
        /\ DOMAIN tracker'.streaming = DOMAIN tracker.streaming
        /\ \A g \in DOMAIN tracker'.streaming : tracker'.streaming[g] = tracker.streaming[g]
    BY <1>3, <1>7, <2>4 DEF k, c
  <2>8. BindingsResolve'
    <3> SUFFICES ASSUME NEW y \in DOMAIN tracker'.bound
                 PROVE  /\ Resolves(tracker', y)
                        /\ tracker'.bound[y].index # Preview =>
                             tracker'.bound[y].index
                               \notin tracker'.requests[tracker'.bound[y].frame].completed
      BY DEF BindingsResolve
    <3> DEFINE g == tracker.bound[y].frame
               j == tracker.bound[y].index
    <3>1. y \in DOMAIN tracker.bound /\ y # x /\ tracker'.bound[y] = tracker.bound[y]
      BY <2>7
    <3>2. /\ tracker.bound[y] = Context(g, j)
          /\ j = Preview => g \in DOMAIN tracker.streaming
          /\ j # Preview => /\ g \in DOMAIN tracker.requests
                            /\ j \in DOMAIN tracker.requests[g].outputs
                            /\ j \notin tracker.requests[g].completed
      BY <3>1, BoundFrame
    <3>3. tracker.bound[y] # c
      BY <2>1, <3>1 DEF IInv, BindInv, c
    <3>4. g = f => j # k
      BY <2>1, <3>2, <3>3
    <3>5. tracker'.bound[y].frame = g /\ tracker'.bound[y].index = j
      BY <3>1
    <3> HIDE DEF g, j
    <3>6. CASE j = Preview
      BY <2>7, <3>1, <3>2, <3>5, <3>6 DEF Resolves
    <3>7. CASE j # Preview /\ g # f
      BY <2>4, <3>1, <3>2, <3>5, <3>7 DEF Resolves
    <3>8. CASE j # Preview /\ g = f
      <4>1. ~last
        BY <3>2, <3>4, <3>8 DEF last, LastOutput
      <4> QED BY <2>4, <3>1, <3>2, <3>4, <3>5, <3>8, <4>1 DEF Resolves, row
    <3> QED BY <3>6, <3>7, <3>8
  <2>9. \A g \in DOMAIN tracker'.requests :
          /\ tracker'.requests[g].outputs = tracker.requests[g].outputs
          /\ tracker'.requests[g].state = tracker.requests[g].state
          /\ tracker.requests[g].completed \subseteq tracker'.requests[g].completed
    BY <2>4 DEF row
  <2>10. BindInv' /\ QueueInv' /\ RowsBacked'
    <3>1. tracker.bound[x].frame = f /\ tracker.bound[x].index = k
      BY DEF f, k, c
    <3>2. f \in DOMAIN tracker'.requests => k \in tracker'.requests[f].completed
      BY <2>4
    <3>3. worker'.pc \notin {"complete", "queue"} /\ x = worker.token
      BY <2>5 DEF x
    <3>4. DOMAIN tracker'.requests \subseteq DOMAIN tracker.requests
      BY <2>4
    <3> QED BY <1>1, <1>7, <2>1, <2>4, <2>7, <2>8, <2>9, <3>1, <3>2, <3>3, <3>4, Taken
  <2> QED BY <2>6, <2>8, <2>10 DEF IInv
<1> QED BY <1>5, <1>6, <1>7 DEF OnDriverBufferComplete

-----------------------------------------------------------------------------
\* A returned preview buffer goes to the node in continuous mode: the driver
\* queues it under a new token.
LEMMA LeaseReturned ==
  ASSUME IInv, worker.pc = "return", state = "Streaming"
  PROVE  /\ worker.lease \in Previews /\ worker.lease \in DriverBuffers
         /\ ~IsMock(driver) =>
              /\ Continuous(driver, driver.route[worker.lease])
              /\ driver.route[worker.lease] = driver.route[PreviewBuffers[1]]
              /\ PreviewBuffers # <<>>
<1>1. worker.lease \in Previews /\ worker.lease \in DriverBuffers
  BY DEF IInv, ThreadInv, DriverBuffers
<1>2. PreviewBuffers # <<>> /\ PreviewBuffers[1] \in Previews
  <2>1. \E k \in DOMAIN PreviewBuffers : worker.lease = PreviewBuffers[k]
    BY <1>1 DEF Previews
  <2>2. PreviewBuffers # <<>>
    BY <2>1, PreviewsOK
  <2> QED BY <2>2, PreviewsOK
<1>3. driver.route[worker.lease] = driver.route[PreviewBuffers[1]]
  <2>1. PICK c \in Backends : SameConfig(c, driver)
    BY DEF IInv, Shape
  <2>2. c.route[worker.lease] = c.route[PreviewBuffers[1]]
    BY <1>1, <1>2, SessionAssumption
  <2> QED BY <2>1, <2>2 DEF SameConfig
<1> QED BY <1>1, <1>2, <1>3 DEF IInv, ContinuousInv

\* return_stream_buffer keeps the invariant.
LEMMA ReturnStreamBufferStep ==
  ASSUME IInv, ReturnStreamBuffer
  PROVE  IInv'
<1> DEFINE v == worker.lease
           x == driver.nextToken
           m == nextFrame
           c == Context(m, Preview)
<1>1. /\ worker.pc = "return" /\ lock = "free"
      /\ worker' = [worker EXCEPT !.pc = "ready", !.lease = NoBuffer]
      /\ UNCHANGED <<state, lock, tasks, asleep, dropped, armed, control,
                     frameworkVars, deliveryVars, boundVars>>
  BY DEF ReturnStreamBuffer
<1>2. /\ worker.request \in ReadySet(driver) /\ worker.result = None /\ control.pc # "preview"
      /\ TrackerOK(tracker) /\ DriverOK(driver, DriverBuffers) /\ m \in Nat /\ StreamBase <= m
      /\ x \in Nat \ {0}
  BY <1>1 DEF IInv, ThreadInv, Shape, DriverOK, MockOK, V4L2OK
<1>3. /\ WorkerOK(worker', driver) /\ worker'.pc = "ready" /\ worker'.result = None
      /\ worker'.request = worker.request
  BY <1>1, <1>2 DEF IInv, Shape, WorkerOK
<1>4. ASSUME TrackerOK(tracker'), DriverOK(driver', DriverBuffers), SameConfig(driver, driver'),
             nextFrame' \in Nat, StreamBase <= nextFrame',
             ~IsMock(driver) => \A e \in EventFds(driver) :
               Continuous(driver, e) => Continuous(driver', e)
      PROVE  Shape' /\ ThreadInv' /\ QueueInv' /\ PreviewInv' /\ ContinuousInv'
  <2>1. /\ EventFds(driver') = EventFds(driver) /\ ReadySet(driver') = ReadySet(driver)
        /\ \E a \in Backends : SameConfig(a, driver')
        /\ PreviewBuffers # <<>> => driver.route[PreviewBuffers[1]] \in EventFds(driver)
    BY <1>4, ConfigKept DEF IInv
  <2>2. Shape'
    BY <1>1, <1>3, <1>4, <2>1 DEF IInv, Shape, WorkerOK, frameworkVars, deliveryVars, boundVars
  <2>3. ThreadInv'
    BY <1>1, <1>2, <1>3, <2>1 DEF IInv, ThreadInv
  <2>4. QueueInv' /\ PreviewInv'
    BY <1>1, <1>2, <1>3 DEF QueueInv, PreviewInv
  <2>5. ContinuousInv'
    BY <1>1, <1>4, <2>1 DEF IInv, ContinuousInv, SameConfig
  <2> QED BY <2>2, <2>3, <2>4, <2>5
\* nothing is queued
<1>5. ASSUME LoadFails(driver, driver', v, DriverBuffers) \/ driver' = driver,
             UNCHANGED <<tracker, nextFrame>>
      PROVE  IInv'
  <2>1. /\ DriverOK(driver', DriverBuffers) /\ SameConfig(driver, driver')
        /\ KeepsOwed(driver, driver')
        /\ driver'.nextToken \in {driver.nextToken, driver.nextToken + 1}
        /\ ~IsMock(driver) => \A e \in EventFds(driver) :
               Continuous(driver, e) => Continuous(driver', e)
    BY <1>2, <1>5 DEF LoadFails, SameFlags, SameConfig, KeepsOwed
  <2>2. driver.nextToken <= driver'.nextToken
    BY <1>2, <2>1
  <2>3. BindInv' /\ BindingsResolve' /\ RowsBacked'
    BY <1>1, <1>3, <1>5, <2>1, <2>2, DriverKept
  <2>4. Shape' /\ ThreadInv' /\ QueueInv' /\ PreviewInv' /\ ContinuousInv'
    BY <1>2, <1>4, <1>5, <2>1
  <2> QED BY <2>3, <2>4 DEF IInv
\* the buffer is queued, or the mock has taken it, under token x
<1>6. ASSUME state = "Streaming", CanReturn(driver, v), driver' = Return(driver, v),
             tracker' = BindDriverOutput(RegisterStreamingOutput(tracker, m, v),
                                         ReturnedToken(driver, v), c),
             nextFrame' = m + 1
      PROVE  IInv'
  <2>1. /\ v \in Previews /\ v \in DriverBuffers
        /\ ~IsMock(driver) => Continuous(driver, driver.route[v])
    BY <1>1, <1>6, LeaseReturned
  <2> HIDE DEF v
  <2>2. /\ ReturnedToken(driver, v) = x /\ DriverOK(driver', DriverBuffers)
        /\ SameConfig(driver, driver') /\ driver'.nextToken = x + 1
        /\ KeepsOwed(driver, driver')
        /\ ~IsMock(driver) =>
             /\ Owes(driver', x, v)
             /\ \A e \in EventFds(driver) : Continuous(driver, e) => Continuous(driver', e)
    <3>1. CASE IsMock(driver)
      BY <1>2, <1>6, <2>1, <3>1, MockReturn
    <3>2. CASE ~IsMock(driver)
      <4>1. /\ ReturnedToken(driver, v) = x /\ CanQueue(driver, v)
            /\ Return(driver, v) = Queue(driver, v)
        BY <1>2, <1>6, <2>1, <3>2, ReturnCases
      <4>2. Loads(driver, driver', v, DriverBuffers)
        BY <1>2, <1>6, <2>1, <4>1, QueueLoads
      <4> QED BY <4>1, <4>2 DEF Loads
    <3> QED BY <3>1, <3>2
  <2> HIDE DEF x, m, c
  <2> DEFINE t == RegisterStreamingOutput(tracker, m, v)
  <2>3. m \notin DOMAIN tracker.streaming /\ \A f \in DOMAIN tracker.streaming : f < m
    BY <1>2, FramesOK DEF IInv, BindInv, m
  <2>4. /\ TrackerOK(t) /\ t.requests = tracker.requests /\ t.bound = tracker.bound
        /\ DOMAIN t.streaming = DOMAIN tracker.streaming \cup {m}
        /\ t.streaming[m] = v
        /\ \A g \in DOMAIN tracker.streaming : t.streaming[g] = tracker.streaming[g]
    BY <1>2, <2>1, <2>3, RegisterStreamingIs
  <2> HIDE DEF t
  <2>5. c \in ContextSet /\ c.index = Preview /\ c.frame = m
    BY <1>2 DEF c, Context, ContextSet, Preview
  <2>6. x \notin DOMAIN tracker.bound
    BY <1>2 DEF IInv, BindInv, x
  <2>7. \A y \in DOMAIN tracker.bound : tracker.bound[y] # c
    <3> TAKE y \in DOMAIN tracker.bound
    <3>1. tracker.bound[y].index = Preview => tracker.bound[y].frame \in DOMAIN tracker.streaming
      BY BoundFrame
    <3> QED BY <2>3, <2>5, <3>1
  <2>8. /\ TrackerOK(tracker') /\ tracker'.requests = tracker.requests
        /\ tracker'.streaming = t.streaming
        /\ DOMAIN tracker'.bound = DOMAIN tracker.bound \cup {x} /\ tracker'.bound[x] = c
        /\ \A y \in DOMAIN tracker.bound : tracker'.bound[y] = tracker.bound[y]
    <3> DEFINE u == BindDriverOutput(t, x, c)
    <3>1. /\ TrackerOK(u) /\ u.requests = t.requests /\ u.streaming = t.streaming
          /\ DOMAIN u.bound = DOMAIN t.bound \cup {x} /\ u.bound[x] = c
          /\ \A y \in DOMAIN t.bound : u.bound[y] = t.bound[y]
      <4>1. x \notin DOMAIN t.bound
        BY <2>4, <2>6
      <4> QED BY <1>2, <2>4, <2>5, <4>1, BindIs
    <3>2. tracker' = u
      BY <1>6, <2>2 DEF t
    <3> HIDE DEF u
    <3> QED BY <2>4, <3>1, <3>2
  <2>9. /\ DOMAIN tracker'.bound \subseteq 1..x
        /\ \A y, z \in DOMAIN tracker'.bound : tracker'.bound[y] = tracker'.bound[z] => y = z
    <3>1. x = driver.nextToken
      BY DEF x
    <3> QED BY <2>5, <2>7, <2>8, <3>1, Bound
  <2>10. Shape' /\ ThreadInv' /\ QueueInv' /\ PreviewInv' /\ ContinuousInv'
    <3>1. nextFrame' \in Nat /\ StreamBase <= nextFrame'
      BY <1>2, <1>6, FramesOK
    <3> QED BY <1>4, <2>2, <2>8, <3>1
  <2>11. BindInv'
    <3>1. driver'.nextToken - 1 = x
      BY <1>2, <2>2
    <3>2. DOMAIN tracker'.streaming \subseteq StreamBase..(nextFrame' - 1)
      <4>1. DOMAIN tracker.streaming \subseteq StreamBase..(m - 1)
        BY DEF IInv, BindInv, m
      <4>2. nextFrame' = m + 1
        BY <1>6
      <4> QED BY <1>2, <2>4, <2>8, <4>1, <4>2, FramesOK
    <3> QED BY <2>9, <3>1, <3>2 DEF BindInv
  <2>12. BindingsResolve'
    <3> SUFFICES ASSUME NEW y \in DOMAIN tracker'.bound
                 PROVE  /\ Resolves(tracker', y)
                        /\ tracker'.bound[y].index # Preview =>
                             tracker'.bound[y].index
                               \notin tracker'.requests[tracker'.bound[y].frame].completed
      BY DEF BindingsResolve
    <3>1. CASE y = x
      BY <2>4, <2>5, <2>8, <3>1 DEF Resolves
    <3>2. CASE y # x
      BY <2>4, <2>8, <3>2 DEF IInv, BindingsResolve, Resolves
    <3> QED BY <3>1, <3>2
  <2>13. \A y \in DOMAIN tracker.bound : \A b :
           OwedBy(driver, worker, y, b) => OwedBy(driver', worker', y, b)
    <3>1. DOMAIN tracker.bound \subseteq Nat \ {0}
      BY <1>2 DEF TrackerOK
    <3> QED BY <1>1, <2>2, <3>1 DEF OwedBy, KeepsOwed
  <2>14. RowsBacked'
    <3>1. ASSUME NEW g \in DOMAIN tracker'.requests, tracker'.requests[g].state = "QueuedToDriver",
                 NEW i \in DOMAIN tracker'.requests[g].outputs \ tracker'.requests[g].completed
          PROVE  \E y \in DOMAIN tracker'.bound :
                   /\ tracker'.bound[y] = Context(g, i)
                   /\ OwedBy(driver', worker', y, tracker'.requests[g].outputs[i])
      <4>1. PICK y \in DOMAIN tracker.bound :
              /\ tracker.bound[y] = Context(g, i)
              /\ OwedBy(driver, worker, y, tracker.requests[g].outputs[i])
        BY <2>8, <3>1 DEF IInv, RowsBacked, Owed, OwedBy
      <4> QED BY <2>8, <2>13, <4>1
    <3>2. ASSUME ~IsMock(driver'), NEW g \in DOMAIN tracker'.streaming
          PROVE  \E y \in DOMAIN tracker'.bound :
                   /\ tracker'.bound[y] = Context(g, Preview)
                   /\ OwedBy(driver', worker', y, tracker'.streaming[g])
      <4>0. ~IsMock(driver)
        BY <2>2, <3>2 DEF SameConfig
      <4>1. CASE g = m
        BY <2>2, <2>4, <2>8, <4>0, <4>1 DEF OwedBy, c
      <4>2. CASE g # m
        <5>1. g \in DOMAIN tracker.streaming /\ tracker'.streaming[g] = tracker.streaming[g]
          BY <2>4, <2>8, <4>2
        <5>2. PICK y \in DOMAIN tracker.bound :
                /\ tracker.bound[y] = Context(g, Preview)
                /\ OwedBy(driver, worker, y, tracker.streaming[g])
          BY <4>0, <5>1 DEF IInv, RowsBacked, Owed, OwedBy
        <5> QED BY <2>8, <2>13, <5>1, <5>2
      <4> QED BY <4>1, <4>2
    <3> QED BY <3>1, <3>2 DEF RowsBacked, Owed, OwedBy
  <2> QED BY <2>10, <2>11, <2>12, <2>14 DEF IInv
<1>7. ASSUME state = "Streaming", driver' \in ReturnFailures(driver, v)
      PROVE  LoadFails(driver, driver', v, DriverBuffers)
  <2>1. /\ v \in DriverBuffers
        /\ ~IsMock(driver) => Continuous(driver, driver.route[v])
    BY <1>1, <1>7, LeaseReturned
  <2> HIDE DEF v
  <2>2. driver' \in QueueFailures(driver, v)
    BY <1>2, <1>7, <2>1, ReturnCases, MockReturn
  <2> QED BY <1>2, <2>1, <2>2, QueueFails
<1>8. CASE state # "Streaming" /\ driver' = driver /\ UNCHANGED <<tracker, nextFrame>>
  BY <1>5, <1>8
<1>9. CASE /\ state = "Streaming" /\ driver' \in ReturnFailures(driver, v)
           /\ UNCHANGED <<tracker, nextFrame>>
  BY <1>5, <1>7, <1>9
<1> QED BY <1>6, <1>8, <1>9 DEF ReturnStreamBuffer

-----------------------------------------------------------------------------
\* Every step of the session keeps the invariant.
LEMMA NextInv == IInv /\ [Next]_vars => IInv'
<1> SUFFICES ASSUME IInv, [Next]_vars PROVE IInv'
  OBVIOUS
<1>1. CASE UNCHANGED vars
  <2>1. UNCHANGED <<state, tracker, driver, lock, nextFrame,
                    worker>> /\ control' = control
    BY <1>1 DEF vars
  <2>2. Shape' /\ ThreadInv'
    BY <1>1 DEF vars, IInv, Shape, ThreadInv
  <2> QED BY <2>1, <2>2, CoreKept
<1>2. CASE \E r \in Requests : ProcessCaptureRequest(r)
  BY <1>2, ProcessCaptureRequestStep
<1>3. CASE PostRequest
  BY <1>3, PostRequestStep
<1>4. CASE ConfigureStreams
  BY <1>4, ConfigureStreamsStep
<1>5. CASE StartStreaming
  BY <1>5, StartStreamingStep
<1>6. CASE Flush
  BY <1>6, FlushKeeps
<1>7. CASE Close
  BY <1>7, CloseStep
<1>8. CASE ControlStep
  BY <1>8, QueuePreviewStep, UnregisterSessionStep, DispatchFlushedStep DEF ControlStep
<1>9. CASE WorkerStep
  BY <1>9, PopTaskStep, SubmitCaptureRequestStep, QueueOutputStep, DequeueCompletionStep,
     OnDriverBufferCompleteStep, StreamCallbackReturnsStep, ReturnStreamBufferStep,
     DispatchResultStep, RearmFdStep DEF WorkerStep
<1>10. CASE \E e \in Endpoints : OnDriverFdReady(e) \/ \E i \in Index : DeviceFills(e, i)
  BY <1>10, OnDriverFdReadyStep, DeviceFillsStep
<1>11. CASE Sleep \/ Wake
  BY <1>11, SleepStep
<1> QED BY <1>1, <1>2, <1>3, <1>4, <1>5, <1>6, <1>7, <1>8, <1>9, <1>10, <1>11 DEF Next

\* The invariant of the session holds in every reachable state, whatever the
\* order of submission, completion, flush, close and failure.
THEOREM SessionCorrect == Spec => []IInv
<1>1. Init => IInv
  BY InitInv
<1>2. IInv /\ [Next]_vars => IInv'
  BY NextInv
<1> QED BY <1>1, <1>2, PTL DEF Spec

\* camera_device_session.{h,cpp}: every component of the session's state, the
\* tables of the tracker and the slots of the driver keep their types, and the
\* shard queue its bound.
THEOREM TypeCorrect == Spec => []TypeOK
<1>1. IInv => TypeOK
  <2> SUFFICES ASSUME IInv PROVE TypeOK
    OBVIOUS
  <2>1. /\ DOMAIN tracker.requests \subseteq Frames
        /\ DOMAIN tracker.bound \subseteq 1..(driver.nextToken - 1)
        /\ DOMAIN tracker.streaming \subseteq StreamBase..(nextFrame - 1)
    BY DEF IInv, Shape, TrackerOK, BindInv
  <2>2. ASSUME ~IsMock(driver), NEW e \in EventFds(driver)
        PROVE  /\ driver.node[e].slot \in [Index -> 0..(driver.nextToken - 1)]
               /\ driver.node[e].kernel \in [Index -> Buffers \cup Previews \cup {NoBuffer}]
    <3>1. V4L2OK(driver, DriverBuffers) /\ e \in V4L2!Endpoints(driver)
      BY <2>2 DEF IInv, Shape, DriverOK, EventFds, V4L2!Endpoints
    <3>2. /\ driver.nextToken \in Nat \ {0} /\ driver.node[e] \in NodeSet(DriverBuffers)
          /\ \A i \in Index : driver.node[e].slot[i] < driver.nextToken
      BY <3>1 DEF V4L2OK
    <3>3. /\ driver.node[e].slot \in [Index -> Nat]
          /\ driver.node[e].kernel \in [Index -> DriverBuffers]
      BY <3>2 DEF NodeSet
    <3>4. \A i \in Index : driver.node[e].slot[i] \in 0..(driver.nextToken - 1)
      BY <3>2, <3>3
    <3> QED BY <3>3, <3>4 DEF DriverBuffers
  <2>3. EventFds(driver) \subseteq Endpoints
    BY DEF IInv, Shape, SameConfig, EventFds, Endpoints
  <2>4. tasks \in Seq(Requests \cup {Ready(e) : e \in Endpoints})
    <3>1. Requests \cup ReadySet(driver) \subseteq Requests \cup {Ready(e) : e \in Endpoints}
      BY <2>3 DEF ReadySet
    <3> QED BY <3>1 DEF IInv, Shape
  <2>5. control.pc \in {"idle", "preview", "unregister", "dispatch"}
        /\ worker.pc \in {"idle", "submit", "queue", "ready", "complete", "callback",
                          "return", "dispatch", "rearm"}
    BY DEF IInv, Shape, ControlOK, WorkerOK
  <2> QED BY <2>1, <2>2, <2>4, <2>5 DEF TypeOK, IInv, Shape
<1> QED BY <1>1, SessionCorrect, PTL

\* in_flight_request_tracker.cpp, take_driver_output_context: a bound token
\* finds the row it was issued for, with that output still open.
THEOREM BindingsResolveAlways == Spec => []BindingsResolve
<1>1. IInv => BindingsResolve
  BY DEF IInv
<1> QED BY <1>1, SessionCorrect, PTL

\* camera_device_session.cpp, submit_request_to_driver_locked and
\* return_stream_buffer: every open output of a row that was handed to the
\* driver, and every preview row, has a token that will be completed.
THEOREM RowsBackedAlways == Spec => []RowsBacked
<1>1. IInv => RowsBacked
  BY DEF IInv
<1> QED BY <1>1, SessionCorrect, PTL
=============================================================================
