------------------------ MODULE MCBoundedTaskQueue -------------------------
(***************************************************************************)
(* One shard with two producers (the event loop and a framework thread).   *)
(***************************************************************************)
EXTENDS BoundedTaskQueue

CONSTANTS p1, p2

MCProducers == {p1, p2}

\* any modulus far above the positions the bound allows stands for 2^64
MCWord == 2^16
=============================================================================
