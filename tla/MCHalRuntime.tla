---------------------------- MODULE MCHalRuntime ----------------------------
(***************************************************************************)
(* HalRuntime for TLC: two sessions, whose shards differ, and descriptor   *)
(* numbers that the driver of either session may be given.  One session    *)
(* posts requests beside its readiness.                                    *)
(***************************************************************************)
EXTENDS HalRuntime

MCPosts == [s \in Sessions |-> s]
=============================================================================
