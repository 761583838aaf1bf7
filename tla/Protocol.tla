------------------------------ MODULE Protocol ------------------------------
(***************************************************************************)
(* What the whole system hashes: notes, withdrawal bindings, deployment    *)
(* domains.  Poseidon is ideal here: H1 and H2 are free constructors, so   *)
(* two hashes are equal only when their arity and their inputs are.  Field *)
(* elements are such terms, or atoms (nullifiers, secrets, addresses,      *)
(* chain-id halves, versions).                                             *)
(***************************************************************************)
CONSTANTS
  Zero,           \* field zero, which is also address(0) and the native asset
  PROTOCOL_TAG    \* the field value 0x485350

\* poseidon_hash with one input (width 2) and with two inputs (width 3).
H1(value) == <<value>>
H2(left, right) == <<left, right>>

\* A note is a record [nullifier, secret].
Commitment(note) == H2(note.nullifier, note.secret)
NullifierHash(note) == H1(note.nullifier)

(***************************************************************************)
(* A deployment is a record [chainLow, chainHigh, pool, asset, version].   *)
(* The chain id is hashed as two halves, so no reduction merges two ids.   *)
(***************************************************************************)
DomainDigest(deployment) ==
  LET chain  == H2(deployment.chainLow, deployment.chainHigh)
      target == H2(deployment.pool, deployment.asset)
  IN  H2(PROTOCOL_TAG, H2(H2(chain, target), deployment.version))

WithdrawalBinding(nullifier, recipient, domain) ==
  H2(H2(nullifier, recipient), domain)
=============================================================================
