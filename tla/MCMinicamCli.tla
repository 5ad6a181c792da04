---------------------------- MODULE MCMinicamCli ----------------------------
(***************************************************************************)
(* MinicamCli for TLC, with two buffers (three with a preview stream): the *)
(* mock driver; one V4L2 node and more stills than buffers; stills beside  *)
(* a preview stream; a preview stream of which one frame is saved.         *)
(***************************************************************************)
EXTENDS MinicamCli

CommandLine(v4l2, preview, count, stills, frames) ==
  [v4l2 |-> v4l2, preview |-> preview, out |-> count > 0, count |-> count,
   captures |-> stills, frames |-> frames]

MCOptions ==
  {CommandLine(FALSE, FALSE, 0, 2, 0), CommandLine(TRUE, FALSE, 0, 3, 0),
   CommandLine(TRUE, TRUE, 0, 1, 3), CommandLine(TRUE, TRUE, 1, 0, 4)}
=============================================================================
