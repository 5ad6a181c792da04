------------------------- MODULE MockDriverAdapter -------------------------
(***************************************************************************)
(* hal/mock_driver_adapter.cpp: a backend without a device, behind --mock. *)
(* A submission is its own completion, queued at once and announced by a   *)
(* byte in a pipe; the buffers are never touched.                          *)
(***************************************************************************)
EXTENDS Naturals, Sequences

Closed(c) ==
  [kind |-> "mock", route |-> c.route, faults |-> c.faults, nextToken |-> 1,
   open |-> FALSE, streaming |-> FALSE, completions |-> <<>>, bytes |-> 0]

Open(d) == [d EXCEPT !.open = TRUE]
Start(d) == [d EXCEPT !.streaming = TRUE]

\* what was completed before a stop is still there after the next start
Stop(d) == [d EXCEPT !.streaming = FALSE]
Close(d) == [d EXCEPT !.open = FALSE, !.streaming = FALSE, !.completions = <<>>,
                     !.bytes = 0]

CanQueue(d) == d.streaming

\* submit_capture, and one buffer of start_continuous_stream: the completion is
\* queued and a byte announces it
Complete(d) == [d EXCEPT !.completions = Append(@, d.nextToken), !.nextToken = @ + 1]
Queue(d) == [Complete(d) EXCEPT !.bytes = @ + 1]

\* fail_submit_; or the byte cannot be written and the completion stays
QueueFailures(d) ==
  {d : f \in {x \in {"submit"} : x \in d.faults \/ ~CanQueue(d)}}
    \cup {Complete(d) : f \in {x \in {"wake"} : x \in d.faults /\ CanQueue(d)}}

\* return_stream_buffer draws a token that will never complete
Return(d) == [d EXCEPT !.nextToken = @ + 1]

CanDequeue(d) == d.completions # <<>>
DequeuedToken(d) == Head(d.completions)
Dequeue(d) == [d EXCEPT !.completions = Tail(@), !.bytes = IF @ = 0 THEN 0 ELSE @ - 1]

Readable(d) == d.open /\ d.bytes > 0
Owes(d, token) == \E k \in DOMAIN d.completions : d.completions[k] = token
=============================================================================
