---------------------------- MODULE ChainMirror ----------------------------
(***************************************************************************)
(* The contract beside its native simulation.  The simulation is given the *)
(* calls the chain committed, in the order of their events and after they  *)
(* committed, as tests/withdrawal_flow.rs gives it the calls of a client.  *)
(* `events` is the chain's event log with the root each withdrawal used;   *)
(* it rolls back with the storage.                                         *)
(***************************************************************************)
EXTENDS WithdrawalPool

VARIABLES
  events, rootInUse, eventsBefore,   \* what the chain emitted, and can still undo
  replayed,                          \* how many of them the simulation was given
  leaves, known_roots, spent_nullifier_hashes, result

Native == INSTANCE NativePool WITH
  LeafValues <- Commitments \union OtherLeaves, Hashes <- NullifierHashes

chainVars  == <<vars, events, rootInUse, eventsBefore>>
mirrorVars == <<replayed, leaves, known_roots, spent_nullifier_hashes, result>>

MirrorInit ==
  /\ Init
  /\ events = <<>> /\ rootInUse = Zero /\ eventsBefore = 0
  /\ replayed = 0
  /\ Native!New

ChainDeposit ==
  \E commitment \in WordsOf(Commitments \union OtherLeaves) :
    /\ Deposit(commitment, DENOMINATION)
    /\ events' = Append(events, [call |-> "deposit", commitment |-> commitment.field])
    /\ UNCHANGED <<rootInUse, eventsBefore, mirrorVars>>

ChainWithdraw ==
  /\ \E proof \in Proofs :
       /\ Withdraw(Word(proof.root), Word(proof.nullifierHash), proof.recipient,
                   Word(proof.binding), proof)
       /\ rootInUse' = proof.root
  /\ eventsBefore' = Len(events)
  /\ UNCHANGED <<events, mirrorVars>>

ChainPays ==
  /\ PaymentSucceeds
  /\ events' = Append(events, [call |-> "withdraw", root |-> rootInUse,
                               nullifierHash |-> Head(calls).nullifierHash.field])
  /\ UNCHANGED <<rootInUse, eventsBefore, mirrorVars>>

ChainReverts ==
  /\ PaymentFails
  /\ events' = SubSeq(events, 1, eventsBefore)
  /\ UNCHANGED <<rootInUse, eventsBefore, mirrorVars>>

\* The simulation sees an event once no payment in progress can undo it.
CommittedEvents == IF calls = <<>> THEN Len(events) ELSE eventsBefore

Replay ==
  /\ replayed < CommittedEvents
  /\ LET event == events[replayed + 1]
     IN  \/ /\ event.call = "deposit"
            /\ Native!deposit(event.commitment)
         \/ /\ event.call = "withdraw"
            /\ Native!record_withdrawal(event.root, event.nullifierHash)
  /\ replayed' = replayed + 1
  /\ UNCHANGED chainVars

MirrorNext == ChainDeposit \/ ChainWithdraw \/ ChainPays \/ ChainReverts \/ Replay

MirrorSpec == MirrorInit /\ [][MirrorNext]_<<chainVars, mirrorVars>>

-----------------------------------------------------------------------------
(* Properties *)

InStep == calls = <<>> /\ replayed = Len(events)

\* The simulation accepts every deposit and every withdrawal the contract
\* accepted, whatever it has not replayed yet (pool.rs:36-72 against
\* WithdrawalPool.sol:105-162).
NativeAcceptsTheChain == result = "Ok"

\* In step, the two agree on the tree and on what is spent, and the contract
\* knows no root the simulation does not (pool.rs:75-82).
NativeMatchesTheChain ==
  InStep =>
    /\ Root(leaves) = currentRoot
    /\ \A index \in 0 .. rootCount - 1 : Native!is_known_root(roots[index])
    /\ \A hash \in NullifierHashes :
         Native!is_spent_nullifier(hash) <=> Word(hash) \in nullifierSpent

\* What README.md:104 says of Pool, "models contract state checks in native Rust",
\* read of its root check: it knows a root exactly when the contract does.
NativeKnowsTheSameRoots ==
  InStep =>
    \A n \in DOMAIN known_roots : isKnownRoot(Word(known_roots[n]))
=============================================================================
