--------------------------- MODULE WithdrawalPool ---------------------------
(***************************************************************************)
(* contracts/WithdrawalPool.sol, at the grain of one external call.        *)
(*                                                                         *)
(* A call that reverts leaves no trace, so it is a stuttering step.  The   *)
(* one call that does not run to its end in a single step is withdraw:     *)
(* while it pays, the recipient's code runs and may call the pool again.   *)
(* `calls` is the stack of the payments in progress, the innermost first;  *)
(* a frame keeps the storage its transaction rolls back to.                *)
(***************************************************************************)
EXTENDS Prover, Sequences

CONSTANTS
  ROOT_HISTORY_SIZE, DENOMINATION,
  Here,              \* the deployment [chainLow, chainHigh, pool, asset, version]
  Notes,             \* the notes of the users, [nullifier, secret]
  OtherLeaves,       \* field values deposited that are no note's commitment
  Requests,          \* what the owners of notes ask `prove` for
  ForeignLists,      \* commitment lists `prove` is given that this pool never had
  Accounts,          \* addresses, address(0) aside
  CallValues,        \* msg.value of a deposit
  CALL_DEPTH_LIMIT   \* nested payments; 1024 frames in the EVM

ASSUME PoolAssumption ==
  /\ ROOT_HISTORY_SIZE \in Nat \ {0}
  /\ DENOMINATION \in Nat \ {0}
  /\ CallValues \subseteq Nat
  /\ CALL_DEPTH_LIMIT \in Nat
  /\ Zero \notin Accounts

(***************************************************************************)
(* What the callers bring.  The pool's asset is the native one, whose      *)
(* field value is zero.  No note is the preimage of zero, the padding of   *)
(* the tree: that is part of Poseidon being ideal.                         *)
(***************************************************************************)
ASSUME CallersAssumption ==
  /\ Here.asset = Zero
  /\ \A deployment \in {Here} \union {request.deployment : request \in Requests} :
       deployment = [chainLow  |-> deployment.chainLow,
                     chainHigh |-> deployment.chainHigh,
                     pool      |-> deployment.pool,
                     asset     |-> deployment.asset,
                     version   |-> deployment.version]
  /\ \A request \in Requests :
       request.note \in Notes /\ request.recipient \in Accounts \union {Zero}
  /\ DENOMINATION \in CallValues
  /\ \A note \in Notes : Commitment(note) # Zero
  /\ \A list \in ForeignLists :
       Length(list) \in Nat /\ DOMAIN list = 0 .. Length(list) - 1

VARIABLES
  nextLeafIndex, currentRootIndex, rootCount, filledSubtrees, roots,
  nullifierSpent, withdrawalStatus, balance,
  depositLog,        \* the Deposit events, by leaf index
  withdrawalLog,     \* the Withdrawal events, oldest first
  calls

treeVars == <<nextLeafIndex, currentRootIndex, rootCount, filledSubtrees, roots, depositLog>>
vars == <<treeVars, nullifierSpent, withdrawalStatus, balance, withdrawalLog, calls>>

Storage ==
  [nextLeafIndex    |-> nextLeafIndex,    currentRootIndex |-> currentRootIndex,
   rootCount        |-> rootCount,        filledSubtrees   |-> filledSubtrees,
   roots            |-> roots,            nullifierSpent   |-> nullifierSpent,
   withdrawalStatus |-> withdrawalStatus, balance          |-> balance,
   depositLog       |-> depositLog,       withdrawalLog    |-> withdrawalLog]

-----------------------------------------------------------------------------
(* The constructor *)

\* zeros[level], and the root of the empty tree above the last level.
zeros ==
  LET zero[level \in 0 .. TREE_DEPTH] ==
        IF level = 0 THEN Zero ELSE H2(zero[level - 1], zero[level - 1])
  IN  zero

EmptyRoot == zeros[TREE_DEPTH]

RootSlots == 0 .. ROOT_HISTORY_SIZE - 1

Init ==
  /\ nextLeafIndex = 0
  /\ currentRootIndex = 0
  /\ rootCount = 1
  /\ filledSubtrees = [level \in Depths |-> zeros[level]]
  /\ roots = [slot \in RootSlots |-> IF slot = 0 THEN EmptyRoot ELSE Zero]
  /\ nullifierSpent = {}
  /\ withdrawalStatus = 1
  /\ balance = 0
  /\ depositLog = [index \in {} |-> Zero]
  /\ withdrawalLog = <<>>
  /\ calls = <<>>

-----------------------------------------------------------------------------
(* Views *)

currentRoot == roots[currentRootIndex]

\* Variants: only the current root; the loop runs over all the slots, used or not.
isKnownRoot_Current(root) == Canonical(root) /\ root.field = roots[currentRootIndex]
isKnownRoot_AllSlots(root) ==
  /\ Canonical(root)
  /\ \E index \in RootSlots : roots[index] = root.field

isKnownRoot(root) ==
  /\ Canonical(root)
  /\ \E index \in 0 .. rootCount - 1 : roots[index] = root.field

\* Variant: the chain id in one word, as if it fitted the field.
protocolDomain_ChainLow ==
  LET deployment == H2(Here.pool, Zero)
  IN  H2(PROTOCOL_TAG, H2(H2(Here.chainLow, deployment), Here.version))

protocolDomain ==
  LET chain      == H2(Here.chainLow, Here.chainHigh)
      deployment == H2(Here.pool, Zero)
  IN  H2(PROTOCOL_TAG, H2(H2(chain, deployment), Here.version))

-----------------------------------------------------------------------------
(* deposit *)

\* Variant: a right child hashed on the left.
InsertionPath_Swapped(commitment) ==
  LET current[level \in 0 .. TREE_DEPTH] ==
        IF level = 0 THEN commitment
        ELSE IF Bit(nextLeafIndex, level - 1) = 0
             THEN H2(current[level - 1], zeros[level - 1])
             ELSE H2(current[level - 1], filledSubtrees[level - 1])
  IN  current

\* `current` of the loop before each level, and after the last.
InsertionPath(commitment) ==
  LET current[level \in 0 .. TREE_DEPTH] ==
        IF level = 0 THEN commitment
        ELSE IF Bit(nextLeafIndex, level - 1) = 0
             THEN H2(current[level - 1], zeros[level - 1])
             ELSE H2(filledSubtrees[level - 1], current[level - 1])
  IN  current

NextRootSlot(slot) == (slot + 1) % ROOT_HISTORY_SIZE

\* Variants: any payment will do; one leaf too many.
PaysDenomination_Any(value) == value # 0
HasRoom_OffByOne == nextLeafIndex <= TREE_CAPACITY

PaysDenomination(value) == value = DENOMINATION

HasRoom == nextLeafIndex # TREE_CAPACITY

Deposit(commitment, value) ==
  /\ PaysDenomination(value)
  /\ Canonical(commitment)
  /\ HasRoom
  /\ LET current == InsertionPath(commitment.field)
         slot    == NextRootSlot(currentRootIndex)
         root    == current[TREE_DEPTH]
     IN  /\ filledSubtrees' = [level \in Depths |->
              IF Bit(nextLeafIndex, level) = 0 THEN current[level] ELSE filledSubtrees[level]]
         /\ currentRootIndex' = slot
         /\ roots' = [roots EXCEPT ![slot] = root]
         /\ depositLog' = [index \in 0 .. nextLeafIndex |->
              IF index = nextLeafIndex THEN [commitment |-> commitment.field, root |-> root]
                                       ELSE depositLog[index]]
  /\ nextLeafIndex' = nextLeafIndex + 1
  /\ rootCount' = IF rootCount < ROOT_HISTORY_SIZE THEN rootCount + 1 ELSE rootCount
  /\ balance' = balance + value
  /\ UNCHANGED <<nullifierSpent, withdrawalStatus, withdrawalLog, calls>>

-----------------------------------------------------------------------------
(* withdraw *)

\* Variant: withdraw without its modifier.
LockFree_Always == withdrawalStatus \in {1, 2}

LockFree == withdrawalStatus = 1

\* Everything before `recipient.call`, and the transfer of the call's value.
Withdraw(root, nullifierHash, recipient, binding, proof) ==
  /\ LockFree
  /\ isKnownRoot(root)
  /\ nullifierHash \notin nullifierSpent
  /\ recipient # Zero
  /\ VerifierAccepts([root          |-> root,
                      nullifierHash |-> nullifierHash,
                      recipient     |-> Word(recipient),
                      domain        |-> Word(protocolDomain),
                      binding       |-> binding], proof)
  /\ balance >= DENOMINATION
  /\ Len(calls) < CALL_DEPTH_LIMIT
  /\ withdrawalStatus' = 2
  /\ nullifierSpent' = nullifierSpent \union {nullifierHash}
  /\ balance' = balance - DENOMINATION
  /\ calls' = <<[nullifierHash |-> nullifierHash, recipient |-> recipient,
                 before |-> Storage]>> \o calls
  /\ UNCHANGED <<treeVars, withdrawalLog>>

\* Variant: the modifier does not reset the guard.
PaymentSucceeds_GuardStuck ==
  /\ calls # <<>>
  /\ withdrawalLog' = Append(withdrawalLog,
       [nullifierHash |-> Head(calls).nullifierHash, recipient |-> Head(calls).recipient])
  /\ calls' = Tail(calls)
  /\ UNCHANGED <<treeVars, nullifierSpent, withdrawalStatus, balance>>

\* The recipient's call returned: emit Withdrawal, and leave the guard.
PaymentSucceeds ==
  /\ calls # <<>>
  /\ withdrawalStatus' = 1
  /\ withdrawalLog' = Append(withdrawalLog,
       [nullifierHash |-> Head(calls).nullifierHash, recipient |-> Head(calls).recipient])
  /\ calls' = Tail(calls)
  /\ UNCHANGED <<treeVars, nullifierSpent, balance>>

\* Variant: `paid` is not looked at; the value comes back, the nullifier does not.
PaymentFails_Ignored ==
  /\ calls # <<>>
  /\ balance' = balance + DENOMINATION
  /\ withdrawalStatus' = 1
  /\ withdrawalLog' = Append(withdrawalLog,
       [nullifierHash |-> Head(calls).nullifierHash, recipient |-> Head(calls).recipient])
  /\ calls' = Tail(calls)
  /\ UNCHANGED <<treeVars, nullifierSpent>>

\* PaymentFailed: the transaction reverts, and with it whatever the recipient did.
PaymentFails ==
  /\ calls # <<>>
  /\ LET before == Head(calls).before
     IN  /\ nextLeafIndex'    = before.nextLeafIndex
         /\ currentRootIndex' = before.currentRootIndex
         /\ rootCount'        = before.rootCount
         /\ filledSubtrees'   = before.filledSubtrees
         /\ roots'            = before.roots
         /\ nullifierSpent'   = before.nullifierSpent
         /\ withdrawalStatus' = before.withdrawalStatus
         /\ balance'          = before.balance
         /\ depositLog'       = before.depositLog
         /\ withdrawalLog'    = before.withdrawalLog
  /\ calls' = Tail(calls)

-----------------------------------------------------------------------------
(* The callers *)

Commitments == {Commitment(note) : note \in Notes}

\* A prover reads the pool's Deposit events, now or some time ago.
LeavesOf(log) == [index \in DOMAIN log |-> log[index].commitment]
PublishedLists ==
  {LeavesOf([index \in 0 .. length - 1 |-> depositLog[index]]) : length \in 0 .. nextLeafIndex}
Proofs == ProofsFrom(Requests, PublishedLists \union ForeignLists)

\* The root after the first `count` deposits.
HistoricRoot(count) == IF count = 0 THEN EmptyRoot ELSE depositLog[count - 1].root
HistoricRoots == {HistoricRoot(count) : count \in 0 .. nextLeafIndex}

NullifierHashes == {NullifierHash(note) : note \in Notes}

\* Whoever submits a proof chooses every argument of the call.
SomeWithdraw ==
  \E proof \in Proofs :
    \E root \in WordsOf(HistoricRoots \union {proof.root}),
       nullifierHash \in WordsOf(NullifierHashes),
       recipient \in Accounts \union {Zero},
       binding \in WordsOf({proof.binding}) :
      Withdraw(root, nullifierHash, recipient, binding, proof)

SomeDeposit ==
  \E commitment \in WordsOf(Commitments \union OtherLeaves), value \in CallValues :
    Deposit(commitment, value)

Next == SomeDeposit \/ SomeWithdraw \/ PaymentSucceeds \/ PaymentFails

Spec == Init /\ [][Next]_vars

-----------------------------------------------------------------------------
(* Properties *)

Frames ==
  [nullifierHash : WordsOf(NullifierHashes), recipient : Accounts]

\* The events and the payments in progress: everything paid out so far.
Payouts == {withdrawalLog[n] : n \in DOMAIN withdrawalLog} \union
           {[nullifierHash |-> calls[n].nullifierHash, recipient |-> calls[n].recipient] :
              n \in DOMAIN calls}

\* Each variable stays in its range: no index, counter or guard of the contract
\* (WithdrawalPool.sol:27-34) leaves the values its code expects.
TypeOK ==
  /\ nextLeafIndex \in 0 .. TREE_CAPACITY
  /\ currentRootIndex \in RootSlots
  /\ rootCount \in 1 .. ROOT_HISTORY_SIZE
  /\ DOMAIN filledSubtrees = Depths
  /\ DOMAIN roots = RootSlots
  /\ nullifierSpent \subseteq WordsOf(NullifierHashes)
  /\ withdrawalStatus \in {1, 2}
  /\ balance \in Nat
  /\ DOMAIN depositLog = 0 .. nextLeafIndex - 1
  /\ withdrawalLog \in Seq(Frames)
  /\ \A n \in DOMAIN calls :
       [nullifierHash |-> calls[n].nullifierHash, recipient |-> calls[n].recipient] \in Frames

\* isKnownRoot (89-95) accepts the last ROOT_HISTORY_SIZE roots of the tree and
\* nothing else: not an older one, and not the zeros of the unused slots.
RootWindow ==
  LET recent == {count \in 0 .. nextLeafIndex : count + ROOT_HISTORY_SIZE > nextLeafIndex}
  IN  /\ currentRoot = HistoricRoot(nextLeafIndex)
      /\ \A root \in {Zero} \union HistoricRoots :
           isKnownRoot(Word(root)) <=> root \in {HistoricRoot(count) : count \in recent}

\* The root deposit computes incrementally (118-127) is the root the native tree
\* (merkle.rs:44-50) computes from the list of all deposited commitments.
TreeMatchesLog == currentRoot = Root(LeavesOf(depositLog))

\* The pool holds one denomination for each deposit whose payout has not begun.
Conservation ==
  balance = DENOMINATION * (nextLeafIndex - Cardinality(nullifierSpent))

DepositedNotes ==
  {note \in Notes : \E index \in DOMAIN depositLog : depositLog[index].commitment = Commitment(note)}

IsSpent(note) == \E word \in nullifierSpent : word.field = NullifierHash(note)

\* Every nullifier deposited and not yet spent can be paid out of the balance,
\* all of them together.
FundsForEveryUnspentNote ==
  LET owed == {NullifierHash(note) : note \in {n \in DepositedNotes : ~IsSpent(n)}}
  IN  DENOMINATION * Cardinality(owed) <= balance

\* The owner of a deposited, unspent note who proves against the pool's present
\* list of commitments passes every check of withdraw (144-153): the contract's
\* tree, window and domain agree with the prover's.
NoteStaysWithdrawable ==
  \A request \in Requests :
    (/\ request.deployment = Here
     /\ request.recipient # Zero
     /\ request.note \in DepositedNotes
     /\ ~IsSpent(request.note)) =>
    \A proof \in ProofsFrom({request}, {LeavesOf(depositLog)}) :
      /\ isKnownRoot(Word(proof.root))
      /\ Word(proof.nullifierHash) \notin nullifierSpent
      /\ proof.domain = protocolDomain

\* No nullifier is paid twice, whichever of its 256-bit names the calls used:
\* nullifierSpent is keyed by the raw word (145, 155).
OnePayoutPerNullifier ==
  /\ \A m, n \in DOMAIN withdrawalLog :
       withdrawalLog[m].nullifierHash.field = withdrawalLog[n].nullifierHash.field => m = n
  /\ \A m, n \in DOMAIN calls :
       calls[m].nullifierHash.field = calls[n].nullifierHash.field => m = n
  /\ \A m \in DOMAIN withdrawalLog, n \in DOMAIN calls :
       withdrawalLog[m].nullifierHash.field # calls[n].nullifierHash.field

\* Every payout is one the owner of a deposited note asked for, to that recipient
\* and from this deployment: a proof in flight cannot be redirected or replayed.
PayoutsAuthorised ==
  \A payout \in Payouts :
    \E request \in Requests :
      /\ request.deployment = Here
      /\ request.recipient = payout.recipient
      /\ NullifierHash(request.note) = payout.nullifierHash.field
      /\ request.note \in DepositedNotes

\* nonReentrantWithdrawal (51-57): the guard is taken exactly while a payment is
\* in progress, there is never a second one, and the nullifier of that payment
\* is spent before the recipient's code runs.
LockTracksCall ==
  /\ withdrawalStatus = IF calls = <<>> THEN 1 ELSE 2
  /\ Len(calls) <= 1
  /\ \A n \in DOMAIN calls : calls[n].nullifierHash \in nullifierSpent

\* What the chain keeps if the outermost payment in progress fails.
Committed == IF calls = <<>> THEN Storage ELSE calls[Len(calls)].before

Ledger == INSTANCE NoteLedger WITH
  leaves  <- LeavesOf(Committed.depositLog),
  payouts <- {[nullifierHash |-> Committed.withdrawalLog[n].nullifierHash.field,
               recipient     |-> Committed.withdrawalLog[n].recipient] :
                n \in DOMAIN Committed.withdrawalLog},
  funds   <- Committed.balance

\* Every transaction of the pool is one atomic step of the ledger, although the
\* recipient's code runs in the middle of a withdrawal and may deposit again.
AtomicLedger == Ledger!Spec
=============================================================================
