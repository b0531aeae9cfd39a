---------------------------- MODULE MCPortalRelay ----------------------------
(***************************************************************************)
(* Instances of PortalRelay: the pairs, and the sets tied to other         *)
(* constants.                                                              *)
(***************************************************************************)
EXTENDS PortalRelay, TLC

CONSTANTS c1, c2

OneWay == {<<c1, c2>>}

Nonces == 1 .. MaxTxs

MinersAlike == Permutations(Miners)
=============================================================================
