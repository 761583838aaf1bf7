--------------------------- MODULE MCChainMirror ---------------------------
(***************************************************************************)
(* Two notes of one nullifier and one of another, four leaves, a window of *)
(* two roots: the contract forgets a root while the simulation keeps it.   *)
(***************************************************************************)
EXTENDS ChainMirror

CONSTANTS n1, n2, s1, s2, alice, bob, homeChain, pool, v1

MCHere == [chainLow |-> homeChain, chainHigh |-> Zero, pool |-> pool, asset |-> Zero, version |-> v1]

NoteA == [nullifier |-> n1, secret |-> s1]
NoteB == [nullifier |-> n2, secret |-> s2]
NoteC == [nullifier |-> n1, secret |-> s2]

MCNotes == {NoteA, NoteB, NoteC}

MCRequests ==
  {[note |-> NoteA, recipient |-> alice, deployment |-> MCHere],
   [note |-> NoteC, recipient |-> bob,   deployment |-> MCHere],
   [note |-> NoteB, recipient |-> bob,   deployment |-> MCHere]}
=============================================================================
