------------------------------- MODULE Prover -------------------------------
(***************************************************************************)
(* What a withdrawal proof states, who can make one, and when the verifier *)
(* accepts it.  The argument system is ideal: a proof is the list of the   *)
(* public inputs it was made for, and it exists only when the circuit has  *)
(* a witness for them.                                                     *)
(*                                                                         *)
(* A word is a uint256: [field |-> v, wraps |-> k] is the integer          *)
(* v + k * FIELD_MODULUS, so two words with the same `field` are equal     *)
(* modulo the field and different as storage keys.                         *)
(***************************************************************************)
EXTENDS Merkle

CONSTANT MAX_WRAPS  \* the largest wraps; 2^256 leaves room for five

ASSUME WrapsAssumption == MAX_WRAPS \in Nat

Word(value) == [field |-> value, wraps |-> 0]
WordsOf(values) == [field : values, wraps : 0 .. MAX_WRAPS]
Canonical(word) == word.wraps = 0

(***************************************************************************)
(* A request is the input file of `prove`: [note, recipient, deployment],  *)
(* to be proved for a leaf of a list of commitments.                       *)
(***************************************************************************)
CanProve(request, list, index) ==
  /\ index \in DOMAIN list
  /\ list[index] = Commitment(request.note)
  /\ Length(list) <= TREE_CAPACITY

\* WithdrawCircuit::new: the five public inputs, in the order of instances().
Statement(request, list, index) ==
  LET domain == DomainDigest(request.deployment)
  IN  [root          |-> ComputeRoot(Prove(list, index), Commitment(request.note)),
       nullifierHash |-> NullifierHash(request.note),
       recipient     |-> request.recipient,
       domain        |-> domain,
       binding       |-> WithdrawalBinding(request.note.nullifier, request.recipient, domain)]

ProofsFrom(requests, lists) ==
  UNION {{Statement(request, list, index) :
            index \in {i \in DOMAIN list : CanProve(request, list, i)}} :
          request \in requests, list \in lists}

\* Variants: inputs reduced modulo the field; the recipient left out of the proof.
VerifierAccepts_Reducing(inputs, proof) ==
  \A name \in DOMAIN proof : inputs[name].field = proof[name]
VerifierAccepts_AnyRecipient(inputs, proof) ==
  \A name \in DOMAIN proof \ {"recipient", "binding"} :
    /\ Canonical(inputs[name])
    /\ inputs[name].field = proof[name]

(***************************************************************************)
(* The generated verifier after strict_solidity_verifier: a public input   *)
(* at or above the modulus is refused before it is reduced.                *)
(***************************************************************************)
VerifierAccepts(inputs, proof) ==
  \A name \in DOMAIN proof :
    /\ Canonical(inputs[name])
    /\ inputs[name].field = proof[name]
=============================================================================
