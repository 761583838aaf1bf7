------------------------------ MODULE Calldata ------------------------------
(***************************************************************************)
(* The bytes between the prover and the contracts: encode_calldata and     *)
(* decode_calldata of proof.rs, and the verifier contract's reading of the *)
(* same bytes, as the pool calls it, for every contract the rewriting of   *)
(* StrictVerifier can return.  Bytes are sent as they were encoded, or     *)
(* changed on the way.  The proof system is ideal: a proof is a list of    *)
(* scalars, and one list is valid for each list of public inputs.          *)
(***************************************************************************)
EXTENDS StrictVerifier

CONSTANTS
  BYTES,          \* byte values, 256
  MODULUS,
  SELECTOR,       \* first byte of a call of VERIFICATION_KEY_ID()
  ValidProof,     \* ValidProof[inputs]
  MAX_CHANGES     \* bound on the bytes changed, added or dropped

Byte == 0 .. BYTES - 1
Fr == 0 .. MODULUS - 1
InputLists == [1 .. PUBLIC_INPUTS -> Fr]

\* PlaceValue[k] is what a byte with k bytes after it counts for.
PlaceValue[k \in 0 .. WORD_BYTES] == IF k = 0 THEN 1 ELSE BYTES * PlaceValue[k - 1]

ASSUME EncodingAssumption ==
  /\ BYTES \in Nat \ {0, 1} /\ MODULUS \in Nat \ {0} /\ SELECTOR \in Byte
  /\ MODULUS <= PlaceValue[WORD_BYTES]
  /\ SELECTOR * PlaceValue[WORD_BYTES - 1] >= MODULUS  \* 0xe12bc188 is past the modulus
  /\ INSTANCE_BYTES + PROOF_BYTES <= USIZE_MAX
  /\ ValidProof \in [InputLists -> [1 .. PROOF_SCALARS -> Fr]]

VARIABLES
  instances,  \* the public inputs that were encoded
  calldata,   \* the bytes as they arrive
  changes

callVars == <<instances, calldata, changes>>

(* Encoding *)

\* Variant: little-endian words.
field_bytes_LittleEndian(value) ==
  LET rest[k \in 0 .. WORD_BYTES] == IF k = WORD_BYTES THEN value ELSE rest[k + 1] \div BYTES
  IN  [i \in 1 .. WORD_BYTES |-> rest[WORD_BYTES + 1 - i] % BYTES]

\* Big-endian words: rest[k] is the number that the first k bytes write.
field_bytes(value) ==
  LET rest[k \in 0 .. WORD_BYTES] == IF k = WORD_BYTES THEN value ELSE rest[k + 1] \div BYTES
  IN  [i \in 1 .. WORD_BYTES |-> rest[i] % BYTES]

\* calldataload: zeros follow the last byte.
WordAt(bytes, n) ==
  LET ByteAt(i) == IF i \in DOMAIN bytes THEN bytes[i] ELSE 0
      read[k \in 0 .. WORD_BYTES] ==
        IF k = 0 THEN 0 ELSE read[k - 1] * BYTES + ByteAt((n - 1) * WORD_BYTES + k)
  IN  read[WORD_BYTES]

field_list_bytes(values) == FlattenSeq([i \in DOMAIN values |-> field_bytes(values[i])])

\* Of one column of PUBLIC_INPUTS values, the shape of the circuit's instances();
\* any other is refused.
encode_calldata(inputs, proof) == field_list_bytes(inputs) \o proof

Error == [ok |-> FALSE]

FitsField(word) == word < MODULUS

\* The slices of decode_calldata stay inside bytes of the length it asks for.
SlicesFit(bytes) == INSTANCE_BYTES <= Len(bytes)

decode_calldata(bytes, proof_bytes) ==
  IF checked_add(INSTANCE_BYTES, proof_bytes) # Len(bytes) THEN Error
  ELSE IF ~SlicesFit(bytes) THEN [ok |-> TRUE, panic |-> TRUE]
  ELSE IF \E i \in 1 .. PUBLIC_INPUTS : ~FitsField(WordAt(bytes, i)) THEN Error
  ELSE [ok |-> TRUE, panic |-> FALSE,
        instances |-> [i \in 1 .. PUBLIC_INPUTS |-> WordAt(bytes, i) % MODULUS],
        proof |-> SubSeq(bytes, INSTANCE_BYTES + 1, Len(bytes))]

(* The two readers *)

\* TestKeys::verify on what was decoded: a scalar off the field is a read error.
RustVerifies(inputs, proof) ==
  /\ Len(proof) = PROOF_BYTES
  /\ \A i \in 1 .. PROOF_SCALARS : WordAt(proof, i) = ValidProof[inputs][i]

RustAccepts(bytes) ==
  LET decoded == decode_calldata(bytes, PROOF_BYTES)
  IN  /\ decoded.ok
      /\ ~decoded.panic
      /\ RustVerifies(decoded.instances, decoded.proof)

\* The contract: its guard on the length, its checks, and scalars modulo the field.
FallbackAccepts(verifier, bytes) ==
  LET scalar(i) == WordAt(bytes, i) % MODULUS
  IN  /\ verifier.guarded => Len(bytes) = calldata_bytes
      /\ \A i \in DOMAIN verifier.reads : verifier.reads[i] = "checked" => FitsField(WordAt(bytes, i))
      /\ \A i \in 1 .. PROOF_SCALARS :
           scalar(PUBLIC_INPUTS + i) = ValidProof[[n \in 1 .. PUBLIC_INPUTS |-> scalar(n)]][i]

\* The contract dispatches on the first bytes: its getter answers with a word,
\* whatever follows, and all other calldata reaches the fallback.
IsGetterCall(verifier, bytes) == verifier.getter /\ bytes # <<>> /\ bytes[1] = SELECTOR
CallSucceeds(verifier, bytes) == IsGetterCall(verifier, bytes) \/ FallbackAccepts(verifier, bytes)
CallReturnsNothing(verifier, bytes) == ~IsGetterCall(verifier, bytes)

\* Variant: success alone is taken for a valid proof.
PoolAccepts_AnyResult(verifier, bytes) == SlicesFit(bytes) /\ CallSucceeds(verifier, bytes)

\* withdraw's call: its words, the proof's bytes, and an empty answer.
PoolAccepts(verifier, bytes) ==
  /\ SlicesFit(bytes)
  /\ CallSucceeds(verifier, bytes)
  /\ CallReturnsNothing(verifier, bytes)

(* Sending *)

CallInit ==
  /\ instances \in InputLists
  /\ calldata = encode_calldata(instances, field_list_bytes(ValidProof[instances]))
  /\ changes = 0

Change ==
  /\ changes < MAX_CHANGES
  /\ \E i \in DOMAIN calldata, byte \in Byte :
       /\ calldata[i] # byte
       /\ calldata' = [calldata EXCEPT ![i] = byte]

Lengthen ==
  /\ changes < MAX_CHANGES
  /\ \E byte \in Byte : calldata' = Append(calldata, byte)

Truncate ==
  /\ changes < MAX_CHANGES
  /\ \E length \in 0 .. Len(calldata) - 1 : calldata' = SubSeq(calldata, 1, length)

CallNext ==
  /\ Change \/ Lengthen \/ Truncate
  /\ changes' = changes + 1
  /\ UNCHANGED instances

CallSpec == CallInit /\ [][CallNext]_callVars

(* Properties *)

\* Whatever arrives, with whatever proof length the caller states, decoding never
\* slices past the end, and what it accepts is the one encoding of its result.
DecodingIsCanonical ==
  \A proof_bytes \in 0 .. USIZE_MAX :
    LET decoded == decode_calldata(calldata, proof_bytes)
    IN  decoded.ok => /\ ~decoded.panic
                      /\ encode_calldata(decoded.instances, decoded.proof) = calldata

\* Unchanged bytes decode to what was encoded, and every reader accepts them.
EncodedIsAccepted ==
  changes = 0 =>
    /\ decode_calldata(calldata, PROOF_BYTES).instances = instances
    /\ RustAccepts(calldata)
    /\ \A verifier \in Verifiers : PoolAccepts(verifier, calldata)

\* On all bytes, what Rust accepts the pool accepts, from whichever of the texts the
\* verifier was rewritten from; and where the rewriting's search saw every read of that
\* text, the other way round: a wrong length, a word at or above the modulus anywhere,
\* or a call that the getter answers is a proof for neither.
PoolAgreesWithRust ==
  \A verifier \in Verifiers :
    SlicesFit(calldata) =>
      /\ RustAccepts(calldata) => PoolAccepts(verifier, calldata)
      /\ verifier.found /\ PoolAccepts(verifier, calldata) => RustAccepts(calldata)
=============================================================================
