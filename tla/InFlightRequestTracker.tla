----------------------- MODULE InFlightRequestTracker ----------------------
(***************************************************************************)
(* hal/in_flight_request_tracker.{h,cpp}: the three tables a session keeps *)
(* under its mutex.  A tracker is a record                                 *)
(*   requests    frame number -> row of an in-flight request               *)
(*   streaming   frame number -> buffer of a queued preview frame          *)
(*   bound       driver token -> what the token was issued for             *)
(* and every method is an operator from trackers to trackers.  A row keeps *)
(* its output buffers, the indexes completed so far and whether the frame  *)
(* was handed to the driver.  Fences, metadata and timestamps are carried  *)
(* by the rows and decide nothing here; they are left out.                 *)
(***************************************************************************)
EXTENDS Naturals, Sequences, Functions

Preview == 0                  \* output_index -1: a standalone preview buffer

Put(m, k, v) == [x \in DOMAIN m \cup {k} |-> IF x = k THEN v ELSE m[x]]
Without(m, K) == Restrict(m, DOMAIN m \ K)

EmptyTracker == [requests |-> <<>>, streaming |-> <<>>, bound |-> <<>>]

Context(frame, index) == [frame |-> frame, index |-> index]

-----------------------------------------------------------------------------
\* start: refused for a frame number that is in flight, or without outputs
CanStart(t, frame, outputs) ==
  frame \notin DOMAIN t.requests /\ outputs # <<>>

Start(t, frame, outputs) ==
  [t EXCEPT !.requests = Put(@, frame,
     [outputs |-> outputs, completed |-> {}, state |-> "Submitted"])]

MarkQueuedToDriver(t, frame) ==
  [t EXCEPT !.requests[frame].state = "QueuedToDriver"]

\* mutant: the first completed output completes the request
FirstOutput(t, frame, index) == frame \in DOMAIN t.requests

\* mutant: the row of a complete request stays in the table
CompleteOutputKeepsRow(t, frame, index) ==
  [t EXCEPT !.requests[frame].completed = @ \cup {index}]

\* complete_output: the row leaves the table when its last output completes
LastOutput(t, frame, index) ==
  t.requests[frame].completed \cup {index} = DOMAIN t.requests[frame].outputs

CompleteOutput(t, frame, index) ==
  IF LastOutput(t, frame, index)
  THEN [t EXCEPT !.requests = Without(@, {frame})]
  ELSE [t EXCEPT !.requests[frame].completed = @ \cup {index}]

\* register_streaming_output: refused for a preview frame number in use
RegisterStreamingOutput(t, frame, buffer) ==
  IF frame \in DOMAIN t.streaming THEN t
  ELSE [t EXCEPT !.streaming = Put(@, frame, buffer)]

\* mutant: a flush forgets the preview rows
KeepStreamingOutputs(t) == t

ClearStreamingOutputs(t) == [t EXCEPT !.streaming = <<>>]

\* bind_driver_output: token 0 and a token in use are refused
CanBind(t, token) == token # 0 /\ token \notin DOMAIN t.bound

BindDriverOutput(t, token, context) ==
  IF CanBind(t, token) THEN [t EXCEPT !.bound = Put(@, token, context)] ELSE t

\* take_driver_output_context: the binding is consumed, and a preview row with
\* it; the token resolves only if the row it points to is still there.
Resolves(t, token) ==
  /\ token \in DOMAIN t.bound
  /\ LET c == t.bound[token] IN
       \/ c.index = Preview /\ c.frame \in DOMAIN t.streaming
       \/ /\ c.index # Preview /\ c.frame \in DOMAIN t.requests
          /\ c.index \in DOMAIN t.requests[c.frame].outputs

TakeDriverOutputContext(t, token) ==
  LET unbound == [t EXCEPT !.bound = Without(@, {token})]
  IN  IF token \in DOMAIN t.bound /\ t.bound[token].index = Preview
      THEN [unbound EXCEPT !.streaming = Without(@, {t.bound[token].frame})]
      ELSE unbound

ClearDriverOutputsForFrame(t, frame) ==
  [t EXCEPT !.bound = Without(@, {k \in DOMAIN @ : @[k].frame = frame})]

\* fail: the row of the frame, whoever started it, is removed
Fail(t, frame) == [t EXCEPT !.requests = Without(@, {frame})]

\* mutant: the driver tokens survive the flush
FlushRequestsOnly(t) == [t EXCEPT !.requests = <<>>]

\* flush_all empties the request table and the token table
FlushAll(t) == [t EXCEPT !.requests = <<>>, !.bound = <<>>]
=============================================================================
