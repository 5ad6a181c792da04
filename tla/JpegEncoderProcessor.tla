------------------------ MODULE JpegEncoderProcessor ------------------------
(***************************************************************************)
(* app/jpeg_encoder_processor.cpp: one thread per completed output, that   *)
(* encodes the buffer, puts the image into the EncodedFrameStore and then  *)
(* signals the release fence.  A job is [id, buffer, own, pc, failed]:     *)
(* own is the buffer the driver filled, buffer the one its id resolved to. *)
(***************************************************************************)
EXTENDS BufferTracker

NoJobs == [f \in {} |-> [id |-> 0]]

\* mutant: preview buffers are looked up first
ResolvePreviewFirst(capture, preview, id) ==
  IF Resolve(preview, id) # NoBuffer THEN Resolve(preview, id) ELSE Resolve(capture, id)

ResolveBuffer(capture, preview, id) ==
  IF Resolve(capture, id) # NoBuffer THEN Resolve(capture, id) ELSE Resolve(preview, id)

\* process_output: the buffer is resolved before the thread starts
ProcessOutput(jobs, e, buffer) ==
  Emplace(jobs, e.frame, [id |-> e.id, buffer |-> buffer, own |-> e.buffer,
                          pc |-> "reading", failed |-> FALSE])

\* EncodedFrameKey
KeyOf(frame, id) == <<frame, id>>

\* the thread of a frame: encode, put
Encoded(jobs, frame, ok) ==
  [jobs EXCEPT ![frame].pc = "signal", ![frame].failed = ~ok]
Put(encoded, frame, id) == encoded \cup {KeyOf(frame, id)}
Take(encoded, frame, id) == encoded \ {KeyOf(frame, id)}

\* signal_fence
SignalFence(jobs, frame) == [jobs EXCEPT ![frame].pc = "done"]

\* mutant: the release fence is not waited for
SignalledAlways(jobs, frame) == TRUE

\* wait_for_release_fence: a frame without an encoder has no fence
Signalled(jobs, frame) == frame \in DOMAIN jobs => jobs[frame].pc = "done"

Reading(jobs) == {f \in DOMAIN jobs : jobs[f].pc = "reading"}
=============================================================================
