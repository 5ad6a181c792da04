------------------------- MODULE V4L2DriverAdapter -------------------------
(***************************************************************************)
(* hal/v4l2_driver_adapter.{h,cpp}: the adapter of one V4L2 node, called   *)
(* with the session's mutex held.  A node is a record                      *)
(*   open, streaming, device, continuous   fd_ >= 0 and the three flags    *)
(*   slot        V4L2 index -> token of the queued request, 0 if free      *)
(*   kernel      V4L2 index -> buffer the kernel owns, NoBuffer if none    *)
(*   done        indexes the device has filled, oldest first               *)
(* kernel and done stand for the V4L2 device itself (external): QBUF gives *)
(* a buffer to it, DQBUF and STREAMOFF, or closing the fd, take it back.   *)
(* Tokens come from the caller: the adapters of a session share a counter. *)
(***************************************************************************)
EXTENDS Naturals, Sequences, FiniteSets

CONSTANTS
  Index,          \* indexes granted by VIDIOC_REQBUFS: 1..n
  NoBuffer        \* no dma-buf: buffer_fd is -1

ClosedDriver ==
  [open |-> FALSE, streaming |-> FALSE, device |-> FALSE, continuous |-> FALSE,
   slot |-> [i \in Index |-> 0],
   kernel |-> [i \in Index |-> NoBuffer], done |-> <<>>]

OpenDriver(d) == [d EXCEPT !.open = TRUE]

StartDriver(d) == [d EXCEPT !.streaming = TRUE]

-----------------------------------------------------------------------------
FreeSlots(d) == {i \in Index : d.slot[i] = 0}

CanSubmit(d, outputs) ==
  /\ d.streaming /\ d.open
  /\ Len(outputs) <= Cardinality(FreeSlots(d))
  /\ \A k \in DOMAIN outputs : outputs[k] # NoBuffer

\* bind_free_queued_request takes the first free entry
FirstFree(d) == CHOOSE i \in FreeSlots(d) : \A j \in FreeSlots(d) : i <= j

Held(d) == {d.kernel[i] : i \in Index} \ {NoBuffer}

\* queue_capture_buffer on its way to success: the token is drawn, the first
\* free slot bound, QBUF gives the buffer to the kernel, STREAMON starts it.
CanQueue(d, buffer) ==
  /\ d.streaming /\ d.open /\ buffer # NoBuffer
  /\ FreeSlots(d) # {}
  /\ d.kernel[FirstFree(d)] = NoBuffer   \* else QBUF fails: index still queued

Queue(d, buffer, token) ==
  [d EXCEPT !.slot[FirstFree(d)] = token,
            !.kernel[FirstFree(d)] = buffer,
            !.device = TRUE]

\* queue_capture_buffer failing, in the ways faults allow: a failed fence wait
\* queues nothing; a full slot table or a failed QBUF queues nothing and has
\* drawn a token; a failed STREAMON frees the slot again and leaves the buffer
\* with the kernel.
Failure(d, drawn) == [node |-> d, drawn |-> drawn]

FenceFailure(d, faults) == {Failure(d, 0) : f \in faults \cap {"fence"}}

QBufFailure(d, buffer, faults) ==
  {Failure(d, 1) : f \in {x \in {"qbuf"} : x \in faults \/ ~CanQueue(d, buffer)}}

StreamOnFailure(d, buffer, faults) ==
  {Failure([d EXCEPT !.kernel[FirstFree(d)] = buffer], 1) :
     f \in {x \in faults \cap {"streamon"} : ~d.device /\ CanQueue(d, buffer)}}

QueueFailures(d, buffer, faults) ==
  FenceFailure(d, faults) \cup QBufFailure(d, buffer, faults)
    \cup StreamOnFailure(d, buffer, faults)

\* return_stream_buffer: outside continuous streaming nothing is queued and the
\* submission carries token 0
CanReturn(d, buffer) == ~d.continuous \/ CanQueue(d, buffer)
Return(d, buffer, token) == IF d.continuous THEN Queue(d, buffer, token) ELSE d

\* dequeue_completion: DQBUF yields the oldest filled index; a slot the adapter
\* already freed yields no completion.
CanDequeue(d) == d.device /\ d.open /\ d.done # <<>>
DequeuedToken(d) == d.slot[Head(d.done)]
ClearSlot(d, i) == [d EXCEPT !.slot[i] = 0]
Dequeue(d) ==
  [ClearSlot(d, Head(d.done)) EXCEPT !.kernel[Head(d.done)] = NoBuffer,
                                     !.done = Tail(@)]

ResetSlots(d) == [d EXCEPT !.slot = [i \in Index |-> 0]]

\* mutant: the adapter forgets its slots without STREAMOFF
StopWithoutStreamOff(d) ==
  [ResetSlots(d) EXCEPT !.device = FALSE, !.streaming = FALSE,
                        !.continuous = FALSE]

\* STREAMOFF, only issued to a device that was started, returns every buffer.
StopDriver(d) ==
  [ResetSlots(d) EXCEPT
     !.kernel = IF d.device THEN [i \in Index |-> NoBuffer] ELSE @,
     !.done = IF d.device THEN <<>> ELSE @,
     !.device = FALSE, !.streaming = FALSE, !.continuous = FALSE]

\* close: the kernel drops what it still holds with the file descriptor
CloseDriver(d) ==
  [StopDriver(d) EXCEPT !.open = FALSE, !.done = <<>>,
                        !.kernel = [i \in Index |-> NoBuffer]]

-----------------------------------------------------------------------------
\* The device fills one of the buffers it owns (external).
CanFill(d, i) ==
  /\ d.device /\ d.kernel[i] # NoBuffer
  /\ \A k \in DOMAIN d.done : d.done[k] # i

Fill(d, i) == [d EXCEPT !.done = Append(@, i)]
=============================================================================
