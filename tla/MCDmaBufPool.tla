---------------------------- MODULE MCDmaBufPool ---------------------------
(***************************************************************************)
(* Three leases over a pool of up to two buffers, and three addresses, so  *)
(* that a pool initialized again may reuse some addresses and not others.  *)
(***************************************************************************)
EXTENDS DmaBufPool, TLC

CONSTANTS a1, a2, a3, l1, l2, l3

MCAddresses == {a1, a2, a3}
MCLeases == {l1, l2, l3}

\* addresses, and leases, are only compared for equality
Symmetry == Permutations(MCAddresses) \cup Permutations(MCLeases)
=============================================================================
