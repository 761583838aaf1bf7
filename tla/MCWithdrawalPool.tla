-------------------------- MODULE MCWithdrawalPool --------------------------
(***************************************************************************)
(* A small pool: four leaves, a window of three roots, two notes and a     *)
(* third that reuses the first one's nullifier.                            *)
(***************************************************************************)
EXTENDS WithdrawalPool

CONSTANTS n1, n2, s1, s2, alice, bob, homeChain, fork, pool, v1

MCHere  == [chainLow |-> homeChain, chainHigh |-> Zero, pool |-> pool, asset |-> Zero, version |-> v1]
MCThere == [MCHere EXCEPT !.chainHigh = fork]

NoteA == [nullifier |-> n1, secret |-> s1]
NoteB == [nullifier |-> n2, secret |-> s2]
NoteC == [nullifier |-> n1, secret |-> s2]

MCNotes == {NoteA, NoteB, NoteC}

MCRequests ==
  {[note |-> NoteA, recipient |-> alice, deployment |-> MCHere],
   [note |-> NoteC, recipient |-> bob,   deployment |-> MCHere],
   [note |-> NoteB, recipient |-> bob,   deployment |-> MCHere],
   [note |-> NoteB, recipient |-> Zero,  deployment |-> MCHere],
   [note |-> NoteB, recipient |-> alice, deployment |-> MCThere]}

\* A list of another pool, whose first root this pool can reach as well.
MCForeignLists == {[i \in 0 .. 1 |-> IF i = 0 THEN Commitment(NoteB) ELSE Commitment(NoteA)]}
=============================================================================
