-------------------- MODULE V4L2MultiStreamDriverAdapter --------------------
(***************************************************************************)
(* The V4L2 backends of a session: V4L2MultiStreamDriverAdapter of         *)
(* hal/v4l2_driver_adapter.cpp, which routes every output to the node of   *)
(* its stream type, and the single V4L2DriverAdapter, as one node that     *)
(* takes every output.  A driver is a record                               *)
(*   kind       "v4l2"                                                     *)
(*   route      buffer -> endpoint that takes its stream type              *)
(*   faults     the calls of its nodes that may fail                       *)
(*   node       endpoint -> V4L2DriverAdapter                              *)
(*   nextToken  next_token_, shared by the nodes                           *)
(***************************************************************************)
EXTENDS Naturals, Sequences, FiniteSets

CONSTANTS Index, NoBuffer

Node == INSTANCE V4L2DriverAdapter

Endpoints(d) == {d.route[b] : b \in DOMAIN d.route}

Closed(c) ==
  [kind |-> "v4l2", route |-> c.route, faults |-> c.faults, nextToken |-> 1,
   node |-> [e \in Endpoints(c) |-> Node!ClosedDriver]]

OnEveryNode(d, Op(_)) == [d EXCEPT !.node = [e \in DOMAIN @ |-> Op(@[e])]]

Open(d) == OnEveryNode(d, Node!OpenDriver)
Start(d) == OnEveryNode(d, Node!StartDriver)
Stop(d) == OnEveryNode(d, Node!StopDriver)
Close(d) == OnEveryNode(d, Node!CloseDriver)

\* endpoint_for, endpoint_for_fd
NodeFor(d, buffer) == d.node[d.route[buffer]]

\* the outputs are checked node by node
CanSubmit(d, outputs) ==
  \A e \in Endpoints(d) :
    LET mine == SelectSeq(outputs, LAMBDA b : d.route[b] = e) IN
    mine # <<>> => Node!CanSubmit(d.node[e], mine)

CanQueue(d, buffer) == Node!CanQueue(NodeFor(d, buffer), buffer)

Queue(d, buffer) ==
  [d EXCEPT !.node[d.route[buffer]] = Node!Queue(@, buffer, d.nextToken),
            !.nextToken = @ + 1]

QueueFailures(d, buffer) ==
  {[d EXCEPT !.node[d.route[buffer]] = x.node, !.nextToken = @ + x.drawn] :
     x \in Node!QueueFailures(NodeFor(d, buffer), buffer, d.faults)}

SetContinuous(d, buffer, on) == [d EXCEPT !.node[d.route[buffer]].continuous = on]

CanReturn(d, buffer) == Node!CanReturn(NodeFor(d, buffer), buffer)
ReturnedToken(d, buffer) == IF NodeFor(d, buffer).continuous THEN d.nextToken ELSE 0
Return(d, buffer) ==
  [d EXCEPT !.node[d.route[buffer]] = Node!Return(@, buffer, d.nextToken),
            !.nextToken = IF NodeFor(d, buffer).continuous THEN @ + 1 ELSE @]
ReturnFailures(d, buffer) ==
  IF NodeFor(d, buffer).continuous THEN QueueFailures(d, buffer) ELSE {}

CanDequeue(d, e) == Node!CanDequeue(d.node[e])
DequeuedToken(d, e) == Node!DequeuedToken(d.node[e])
Dequeue(d, e) == [d EXCEPT !.node[e] = Node!Dequeue(@)]

\* Poll on a node that streams reports a filled buffer; on one that does not, an
\* error (external).
Readable(d, e) == d.node[e].open /\ (d.node[e].done # <<>> \/ ~d.node[e].device)

Held(d) == UNION {Node!Held(d.node[e]) : e \in Endpoints(d)}
Owes(d, token, buffer) ==
  \E e \in Endpoints(d) : \E i \in Index :
    d.node[e].slot[i] = token /\ d.node[e].kernel[i] = buffer

CanFill(d, e, i) == Node!CanFill(d.node[e], i)
Fill(d, e, i) == [d EXCEPT !.node[e] = Node!Fill(@, i)]
=============================================================================
