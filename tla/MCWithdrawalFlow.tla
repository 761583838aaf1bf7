-------------------------- MODULE MCWithdrawalFlow --------------------------
(***************************************************************************)
(* The client's note and one other, four leaves and a window of two roots: *)
(* the client's proof can expire, and expire again.                        *)
(***************************************************************************)
EXTENDS WithdrawalFlow

CONSTANTS n1, n2, s1, s2, alice, bob, homeChain, pool, v1

MCHere == [chainLow |-> homeChain, chainHigh |-> Zero, pool |-> pool, asset |-> Zero, version |-> v1]

NoteA == [nullifier |-> n1, secret |-> s1]
NoteB == [nullifier |-> n2, secret |-> s2]

MCClientRequest == [note |-> NoteA, recipient |-> alice, deployment |-> MCHere]
MCRequests == {MCClientRequest, [note |-> NoteB, recipient |-> bob, deployment |-> MCHere]}
MCNotes == {NoteA, NoteB}
=============================================================================
