--------------------------- MODULE MCPortalService ---------------------------
(***************************************************************************)
(* Instances of PortalService for TLC.                                     *)
(***************************************************************************)
EXTENDS PortalService, TLC

CONSTANTS c1, c2, c3

\* The two directions between two chains, as the example configurations have it.
BothWays == <<<<c1, c2>>, <<c2, c1>>>>

\* The same, with a third chain that sends to one of them: two pairs share a slot.
SharedSlot == <<<<c1, c2>>, <<c3, c2>>, <<c2, c1>>>>

Symmetric == Permutations(Workers) \cup Permutations(Hashes)
=============================================================================
