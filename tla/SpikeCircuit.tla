---------------------------- MODULE SpikeCircuit ----------------------------
(***************************************************************************)
(* The spike, spikes/bn254-kzg-evm: the same hash of two inputs with code  *)
(* of its own for the circuit and for the contract.  Its inputs are copied *)
(* from nowhere and its digest is the instance.  Read over the rows of the *)
(* gadget of arity 2, rows[n] being the state after n rounds.              *)
(***************************************************************************)
EXTENDS PoseidonChip

\* The numbers that solidity_source writes into the contract's text.
CONSTANTS
  SPIKE_ROUNDS,      \* 65
  SPIKE_HALF,        \* 4
  SPIKE_PARTIAL_END  \* 61

\* They are those of the 8 and 57 rounds that `parameters` asserts; solidity_source
\* itself compares them with nothing.
ASSUME LiteralsAssumption ==
  /\ SPIKE_ROUNDS = Rounds(2)
  /\ SPIKE_HALF = Half
  /\ SPIKE_PARTIAL_END = PartialEnd(2)

(* The circuit *)

InitialGate(row) == row[0] = 0

\* Variant: full rounds before the partial ones only.
SelectsFull_FirstHalf(n) == n < Half

SelectsFull(n) == n \notin Half .. Half + PARTIAL_ROUNDS[2] - 1

RoundHolds(n, current, next) ==
  LET Shifted(word) == Add(current[word], RoundConstant(2, n, word))
      nonlinear == [word \in Words(2) |->
                      IF SelectsFull(n) \/ word = 0 THEN Fifth(Shifted(word))
                                                    ELSE Shifted(word)]
  IN  \A word \in Words(2) : Sub(next[word], Mixed(2, MDS[2], nonlinear)[word]) = 0

DigestIsPublic(rows, instance) == instance = rows[Rounds(2)][0]

Accepted(rows, instance) ==
  /\ InitialGate(rows[0])
  /\ \A n \in 0 .. Rounds(2) - 1 : RoundHolds(n, rows[n], rows[n + 1])
  /\ DigestIsPublic(rows, instance)

\* The row that `synthesize` computes after `current`.
Permuted(n, current) ==
  LET shifted == AddConstants(2, n, current)
  IN  Mixed(2, MDS[2], IF SelectsFull(n) THEN FullSbox(2, shifted) ELSE PartialSbox(shifted))

(* The contract that solidity_source writes *)

PowFive(words, values) ==
  [word \in Words(2) |-> IF word \in words THEN Fifth(values[word]) ELSE values[word]]

\* Variant: one partial round too many.
PowersAllWords_OneLate(n) == n < SPIKE_HALF \/ n > SPIKE_PARTIAL_END

PowersAllWords(n) == n < SPIKE_HALF \/ n >= SPIKE_PARTIAL_END

Poseidon2Round(n, current) ==
  LET shifted == [i \in Words(2) |-> Add(current[i], PackedConstants(2)[n * 3 + i])]
      first   == PowFive({0}, shifted)
  IN  Mixed(2, SolidityMatrix(2), IF PowersAllWords(n) THEN PowFive({1, 2}, first) ELSE first)

\* On canonical words; it reverts on others.
Poseidon2Hash(words) ==
  LET after[n \in 0 .. SPIKE_ROUNDS] ==
        IF n = 0 THEN Start(2, words) ELSE Poseidon2Round(n - 1, after[n - 1])
  IN  after[SPIKE_ROUNDS][0]

(* Properties *)

FirstRowInputs == [word \in 1 .. 2 |-> state[0][word]]

\* On a complete trace of the gadget, whoever filled it, the spike's `synthesize`
\* assigns the same rows, and its circuit accepts exactly the digest that its contract
\* computes from the first row: the spike's code and the pool's are one hash, and the
\* first row is the only place that holds the inputs.
SpikeHasTheSameHash ==
  arity = 2 /\ Complete =>
    /\ \A n \in 0 .. round - 1 : state[n + 1] = Permuted(n, state[n])
    /\ \A instance \in Fr :
         Accepted(state, instance) <=> instance = Poseidon2Hash(FirstRowInputs)
=============================================================================
