--------------------------- MODULE WithdrawalFlow ---------------------------
(***************************************************************************)
(* One client of the pool, as tests/anvil_e2e.rs drives it: it deposits,   *)
(* reads the Deposit log, runs `prove`, and calls withdraw.  That test     *)
(* does each of these once.  Running `prove` again after a failure, and    *)
(* reading the log again when the proof's root has left the window, is     *)
(* assumed of the client: the repository has no client that does it.  The  *)
(* chain does not wait for it: others deposit, are paid, fail to be paid,  *)
(* and submit whatever proofs they hold, the client's own among them.      *)
(*                                                                         *)
(* The client's recipient has no code, so a payment it submits itself does *)
(* not fail; one that another submits may, for lack of gas.                *)
(***************************************************************************)
EXTENDS WithdrawalPool

CONSTANTS
  ClientRequest,  \* [note, recipient, deployment]
  MAX_KILLS       \* bound on the runs of `prove` that come to nothing

ASSUME ClientAssumption == ClientRequest \in Requests

VARIABLES
  step,   \* "funded", "deposited", "proving", "ready", "submitted"
  index,  \* the leaf index of the client's Deposit event
  seen,   \* how many events it read
  kills

clientVars == <<step, index, seen, kills>>
flowVars == <<vars, clientVars>>

\* What any node serves: the events of finished transactions.
CommittedLeaves == LeavesOf(Committed.depositLog)

InputList == [i \in 0 .. seen - 1 |-> depositLog[i].commitment]
ClientProof == Statement(ClientRequest, InputList, index)

ClientDeposits ==
  /\ step = "funded"
  /\ calls = <<>>
  /\ Deposit(Word(Commitment(ClientRequest.note)), DENOMINATION)
  /\ index' = nextLeafIndex
  /\ step' = "deposited"
  /\ UNCHANGED <<seen, kills>>

ReadLog ==
  /\ step = "deposited"
  /\ seen' = Length(CommittedLeaves)
  /\ step' = "proving"
  /\ UNCHANGED <<vars, index, kills>>

ProveFinishes ==
  /\ step = "proving"
  /\ CanProve(ClientRequest, InputList, index)
  /\ step' = "ready"
  /\ UNCHANGED <<vars, index, seen, kills>>

ProveFails ==
  /\ step = "proving"
  /\ kills < MAX_KILLS
  /\ step' = "deposited"
  /\ kills' = kills + 1
  /\ UNCHANGED <<vars, index, seen>>

Submit ==
  /\ step = "ready"
  /\ Withdraw(Word(ClientProof.root), Word(ClientProof.nullifierHash), ClientRequest.recipient,
              Word(ClientProof.binding), ClientProof)
  /\ step' = "submitted"
  /\ UNCHANGED <<index, seen, kills>>

\* A call now would revert with UnknownRoot; the client starts again from the log.
RootExpired ==
  /\ step = "ready"
  /\ calls = <<>>
  /\ ~isKnownRoot(Word(ClientProof.root))
  /\ step' = "deposited"
  /\ UNCHANGED <<vars, index, seen, kills>>

(* Everybody else *)

OthersDeposit == SomeDeposit /\ UNCHANGED clientVars

\* Also with the client's proof, which everybody can see once it is submitted.
OthersWithdraw == SomeWithdraw /\ UNCHANGED clientVars

PaysTheClient ==
  step = "submitted" /\ Head(calls).nullifierHash.field = NullifierHash(ClientRequest.note)

PaymentEnds ==
  /\ PaymentSucceeds \/ (PaymentFails /\ ~PaysTheClient)
  /\ UNCHANGED clientVars

FlowInit ==
  /\ Init
  /\ step = "funded" /\ index = 0 /\ seen = 0 /\ kills = 0

Client == ClientDeposits \/ ReadLog \/ ProveFinishes \/ ProveFails \/ Submit \/ RootExpired

FlowNext == Client \/ OthersDeposit \/ OthersWithdraw \/ PaymentEnds

(***************************************************************************)
(* A transaction that has begun ends, the client does not stop, and a call *)
(* it has sent is included, accepted or reverted, although others may come *)
(* before it again and again: hence SF, as the pool is busy in between.    *)
(* Nothing is assumed of anybody else, nor that the client ever deposits.  *)
(***************************************************************************)
FlowSpec ==
  /\ FlowInit
  /\ [][FlowNext]_flowVars
  /\ WF_flowVars(PaymentEnds)
  /\ WF_flowVars(ReadLog)
  /\ WF_flowVars(ProveFinishes)
  /\ SF_flowVars(Submit \/ RootExpired)

(* Properties *)

\* A proof is good for as many deposits as the window has roots, less one: the call
\* of a client that was no slower than that is not refused for its root.
ProofSurvivesTheWindow ==
  step = "ready" /\ calls = <<>> /\ nextLeafIndex - seen < ROOT_HISTORY_SIZE =>
    isKnownRoot(Word(ClientProof.root))

IsPaid ==
  \E n \in DOMAIN withdrawalLog :
    /\ withdrawalLog[n].nullifierHash.field = NullifierHash(ClientRequest.note)
    /\ withdrawalLog[n].recipient = ClientRequest.recipient

\* A client that has deposited is paid in the end, whatever deposits push its roots
\* out of the window, whoever submits its proof first, and however often `prove`
\* and the payments of others fail: the tree is finite, so the roots come to rest.
DepositorIsPaid == step = "deposited" ~> IsPaid
=============================================================================
