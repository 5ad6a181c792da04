--------------------------- MODULE DriverAdapter ---------------------------
(***************************************************************************)
(* hal/driver_adapter.h: the interface a session calls, over its backends. *)
(* A backend is given by its kind, the endpoint (fd) that serves each      *)
(* buffer's stream, and the calls of it that may fail: configure; of a     *)
(* V4L2 node fence, qbuf, streamon; of the mock preflight, submit, wake.   *)
(***************************************************************************)
EXTENDS Naturals, Sequences, FiniteSets

CONSTANTS
  Index,          \* indexes granted by VIDIOC_REQBUFS: 1..n
  NoBuffer        \* no dma-buf: buffer_fd is -1

ASSUME IndexAssumption == Index \subseteq Nat

V4L2 == INSTANCE V4L2MultiStreamDriverAdapter
Mock == INSTANCE MockDriverAdapter

IsMock(d) == d.kind = "mock"

ClosedDriver(c) == IF IsMock(c) THEN Mock!Closed(c) ELSE V4L2!Closed(c)

EventFds(d) == {d.route[b] : b \in DOMAIN d.route}

OpenDriver(d) == IF IsMock(d) THEN Mock!Open(d) ELSE V4L2!Open(d)
StartDriver(d) == IF IsMock(d) THEN Mock!Start(d) ELSE V4L2!Start(d)
StopDriver(d) == IF IsMock(d) THEN Mock!Stop(d) ELSE V4L2!Stop(d)
CloseDriver(d) == IF IsMock(d) THEN Mock!Close(d) ELSE V4L2!Close(d)

\* can_submit_capture_outputs; the mock's answer is a switch
MaySubmit(d, outputs) == IF IsMock(d) THEN TRUE ELSE V4L2!CanSubmit(d, outputs)
MayRefuse(d, outputs) ==
  IF IsMock(d) THEN "preflight" \in d.faults ELSE ~V4L2!CanSubmit(d, outputs)

CanQueue(d, b) == IF IsMock(d) THEN Mock!CanQueue(d) ELSE V4L2!CanQueue(d, b)
Queue(d, b) == IF IsMock(d) THEN Mock!Queue(d) ELSE V4L2!Queue(d, b)
QueueFailures(d, b) ==
  IF IsMock(d) THEN Mock!QueueFailures(d) ELSE V4L2!QueueFailures(d, b)

SetContinuous(d, b, on) == IF IsMock(d) THEN d ELSE V4L2!SetContinuous(d, b, on)

CanReturn(d, b) == IF IsMock(d) THEN d.streaming ELSE V4L2!CanReturn(d, b)
ReturnedToken(d, b) == IF IsMock(d) THEN d.nextToken ELSE V4L2!ReturnedToken(d, b)
Return(d, b) == IF IsMock(d) THEN Mock!Return(d) ELSE V4L2!Return(d, b)
ReturnFailures(d, b) == IF IsMock(d) THEN {} ELSE V4L2!ReturnFailures(d, b)

CanDequeue(d, e) == IF IsMock(d) THEN Mock!CanDequeue(d) ELSE V4L2!CanDequeue(d, e)
DequeuedToken(d, e) ==
  IF IsMock(d) THEN Mock!DequeuedToken(d) ELSE V4L2!DequeuedToken(d, e)
Dequeue(d, e) == IF IsMock(d) THEN Mock!Dequeue(d) ELSE V4L2!Dequeue(d, e)

IsOpen(d, e) == IF IsMock(d) THEN d.open ELSE d.node[e].open
Readable(d, e) == IF IsMock(d) THEN Mock!Readable(d) ELSE V4L2!Readable(d, e)

\* The buffers the device may write to; whether it will complete a token.
Held(d) == IF IsMock(d) THEN {} ELSE V4L2!Held(d)
Owes(d, token, b) == IF IsMock(d) THEN Mock!Owes(d, token) ELSE V4L2!Owes(d, token, b)

CanFill(d, e, i) == ~IsMock(d) /\ V4L2!CanFill(d, e, i)
Fill(d, e, i) == V4L2!Fill(d, e, i)
=============================================================================
