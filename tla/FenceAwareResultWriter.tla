----------------------- MODULE FenceAwareResultWriter -----------------------
(***************************************************************************)
(* app/fence_aware_result_writer.cpp: pending_writes_, where the path of a *)
(* frame and its result meet.  A result is "ok", "failed" or "flushed",    *)
(* which hand a buffer back, or "empty", which does not.                   *)
(***************************************************************************)
EXTENDS Functions

Results == {"ok", "failed", "flushed", "empty"}
NothingPending == [f \in {} |-> [path |-> FALSE, result |-> "none"]]

PendingWrite(p, f) == IF f \in DOMAIN p THEN p[f] ELSE [path |-> FALSE, result |-> "none"]

RegisterPath(p, frame) ==
  [f \in DOMAIN p \cup {frame} |->
     IF f = frame THEN [PendingWrite(p, f) EXCEPT !.path = TRUE] ELSE p[f]]

\* register_result, for each of a set of frames
RegisterResults(p, frames, result) ==
  [f \in DOMAIN p \cup frames |->
     IF f \in frames THEN [PendingWrite(p, f) EXCEPT !.result = result] ELSE p[f]]

Cancel(p, frame) == Restrict(p, DOMAIN p \ {frame})

\* what block_wait_and_write waits for, with a timeout
IsRegistered(p, frame) == PendingWrite(p, frame).path /\ PendingWrite(p, frame).result # "none"

\* the image is written when the encoder has left one under the frame's key
WritesImage(result, tracked, encoded, key) == result = "ok" /\ tracked /\ key \in encoded
=============================================================================
