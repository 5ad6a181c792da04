----------------------- MODULE MCCameraDeviceSession -----------------------
(***************************************************************************)
(* Small sessions: two or three V4L2 buffers, up to two preview buffers,   *)
(* and the capture requests named below.                                   *)
(***************************************************************************)
EXTENDS CameraDeviceSession

CONSTANTS b1, b2, b3, v1, v2

\* a still on two streams, and one on a single stream
TwoOutputs == {[frame |-> 1, buffers |-> <<b1, b2>>],
               [frame |-> 2, buffers |-> <<b3>>]}

\* two stills, which two nodes share out between them
TwoStills == {[frame |-> 1, buffers |-> <<b1>>], [frame |-> 2, buffers |-> <<b2>>]}

\* the same under one frame number
SameFrame == {[frame |-> 1, buffers |-> <<b1>>], [frame |-> 1, buffers |-> <<b2>>]}

OnePreview == <<v1>>
TwoPreviews == <<v1, v2>>
NoPreview == <<>>

\* one V4L2 node; a preview and a still node, a two-output request on both; the mock
AllBuffers == Buffers \cup Previews \cup {NoBuffer}
SingleNode(faults) ==
  [kind |-> "v4l2", faults |-> faults, route |-> [b \in AllBuffers |-> "video"]]
TwoNodes(faults) ==
  [kind |-> "v4l2", faults |-> faults,
   route |-> [b \in AllBuffers |->
                IF b \in Previews \cup {b1} THEN "preview" ELSE "still"]]
MockPipe(faults) ==
  [kind |-> "mock", faults |-> faults, route |-> [b \in AllBuffers |-> "pipe"]]

OneNode == {SingleNode({})}
OneNodeFence == {SingleNode({"fence"})}
AllBackends == {SingleNode({"configure"}), TwoNodes({"configure"}),
                MockPipe({"configure"})}

\* STREAMON fails on the node that starts with the preview, before any request.
\* (On a still node a failed STREAMON returns a buffer that is still queued.)
FaultyBackends == {SingleNode({"configure", "fence", "qbuf", "streamon"}),
                   TwoNodes({"configure", "qbuf"}),
                   MockPipe({"configure", "preflight", "submit", "wake"})}

ThreeBuffers == 1..3
TwoBuffers == 1..2
=============================================================================
