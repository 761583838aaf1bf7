--------------------------- MODULE MCProveCommand ---------------------------
(***************************************************************************)
(* Two notes and a tree of two leaves; files list up to three commitments  *)
(* and point up to two places past the last leaf.  A second run finds what *)
(* the first one left.                                                     *)
(***************************************************************************)
EXTENDS ProveCommand

CONSTANTS n1, n2, s1, alice, homeChain, pool, v1, other

MCHere == [chainLow |-> homeChain, chainHigh |-> Zero, pool |-> pool, asset |-> Zero, version |-> v1]

MCRequests ==
  {[note |-> [nullifier |-> n, secret |-> s1], recipient |-> alice, deployment |-> MCHere] :
     n \in {n1, n2}}
=============================================================================
