---------------------------- MODULE MCNativePool ----------------------------
(* Two commitments, a zero leaf, two nullifier hashes, in a tree of four leaves. *)
EXTENDS NativePool

CONSTANTS c1, c2, h1, h2

MCLeafValues == {c1, c2, Zero}
MCHashes == {h1, h2}
=============================================================================
