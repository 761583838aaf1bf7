------------------------------ MODULE Poseidon ------------------------------
(***************************************************************************)
(* Poseidon as the repository computes it: the native hash (light-poseidon *)
(* as primitives/poseidon.rs calls it) and the hash of the contract that   *)
(* solidity.rs writes.  The gadget is PoseidonChip.                        *)
(***************************************************************************)
EXTENDS Field, Sequences

CONSTANTS
  FULL_ROUNDS,     \* 8
  PARTIAL_ROUNDS,  \* PARTIAL_ROUNDS[arity]: 56 and 57
  ARK,             \* ARK[arity] is the flat list of round constants
  MDS              \* MDS[arity][output][input]

Arities == {1, 2}

Width(arity) == arity + 1
Words(arity) == 0 .. Width(arity) - 1
Rounds(arity) == FULL_ROUNDS + PARTIAL_ROUNDS[arity]
Half == FULL_ROUNDS \div 2
PartialEnd(arity) == Half + PARTIAL_ROUNDS[arity]

\* What `parameters` asserts of the pinned parameters.
ASSUME ParametersAssumption ==
  /\ FULL_ROUNDS \in Nat \ {0}
  /\ PARTIAL_ROUNDS \in [Arities -> Nat]
  /\ \A arity \in Arities :
       /\ ARK[arity] \in Seq(Fr)
       /\ Len(ARK[arity]) = Width(arity) * Rounds(arity)
       /\ MDS[arity] \in [Words(arity) -> [Words(arity) -> Fr]]

\* Row `round` of the constants, cut in chunks of one width.
RoundConstant(arity, round, word) == ARK[arity][round * Width(arity) + word + 1]

\* x^5
Fifth(value) ==
  LET square == Mul(value, value)
  IN  Mul(Mul(square, square), value)

\* Rows of the matrix select outputs, columns select inputs.
Mixed(arity, matrix, nonlinear) ==
  [word \in Words(arity) |->
     LET sum[n \in 0 .. Width(arity)] ==
           IF n = 0 THEN 0
           ELSE Add(sum[n - 1], Mul(nonlinear[n - 1], matrix[word][n - 1]))
     IN  sum[Width(arity)]]

Start(arity, inputs) ==
  [word \in Words(arity) |-> IF word = 0 THEN 0 ELSE inputs[word]]

\* The first word after all rounds of Round, one after the other.
FirstWordAfter(arity, inputs, Round(_, _)) ==
  LET after[n \in 0 .. Rounds(arity)] ==
        IF n = 0 THEN Start(arity, inputs) ELSE Round(n - 1, after[n - 1])
  IN  after[Rounds(arity)][0]

(* The native hash *)

AddConstants(arity, round, state) ==
  [word \in Words(arity) |-> Add(state[word], RoundConstant(arity, round, word))]

FullSbox(arity, state) == [word \in Words(arity) |-> Fifth(state[word])]
PartialSbox(state) == [state EXCEPT ![0] = Fifth(@)]

NativeRound(arity, round, state) ==
  LET shifted == AddConstants(arity, round, state)
  IN  Mixed(arity, MDS[arity],
            IF round < Half \/ round >= PartialEnd(arity)
            THEN FullSbox(arity, shifted)
            ELSE PartialSbox(shifted))

NativeHash(arity, inputs) ==
  FirstWordAfter(arity, inputs, LAMBDA round, state : NativeRound(arity, round, state))

(* The contract: two byte strings packed from the parameters, read by index *)

PackedConstants(arity) ==
  [n \in 0 .. Width(arity) * Rounds(arity) - 1 |->
     RoundConstant(arity, n \div Width(arity), n % Width(arity))]

PackedMds(arity) ==
  [n \in 0 .. Width(arity) * Width(arity) - 1 |-> MDS[arity][n \div Width(arity)][n % Width(arity)]]

\* Variant: columns select outputs.
SolidityMatrix_ByColumn(arity) ==
  [i \in Words(arity) |-> [j \in Words(arity) |-> PackedMds(arity)[j * Width(arity) + i]]]

\* word(mds, i * width + j)
SolidityMatrix(arity) ==
  [i \in Words(arity) |-> [j \in Words(arity) |-> PackedMds(arity)[i * Width(arity) + j]]]

SolidityRound(arity, round, state) ==
  Mixed(arity, SolidityMatrix(arity),
        [i \in Words(arity) |->
           LET shifted == Add(state[i], PackedConstants(arity)[round * Width(arity) + i])
           IN  IF i = 0 \/ round < Half \/ round >= PartialEnd(arity)
               THEN Fifth(shifted)
               ELSE shifted])

\* The call reverts on an input at or above the modulus.
SolidityHash(arity, inputs) ==
  IF \A i \in 1 .. arity : inputs[i] < MODULUS
  THEN FirstWordAfter(arity, inputs, LAMBDA round, state : SolidityRound(arity, round, state))
  ELSE "revert"
=============================================================================
