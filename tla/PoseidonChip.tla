---------------------------- MODULE PoseidonChip ----------------------------
(***************************************************************************)
(* The hash gadget, gadgets/poseidon.rs: one row of state per round, a     *)
(* gate from each row to the next, a gate on the capacity of the first row *)
(* and copy constraints on its inputs.  The rows are filled by `hash`, or  *)
(* by anybody, with any cells the constraints admit.                       *)
(***************************************************************************)
EXTENDS Poseidon

VARIABLES
  arity,     \* the gadget's L: its width is L + 1
  filledBy,  \* "synthesis" or "anybody"
  inputs,    \* the cells to be hashed
  round,     \* rounds assigned so far
  state      \* state[n] is the row after n rounds

vars == <<arity, filledBy, inputs, round, state>>

StatesOf(width) == [0 .. width - 1 -> Fr]

(* The constraints *)

\* Variant: no gate on the capacity.
ZeroCapacity_Missing(row) == row[0] \in Fr

ZeroCapacity(row) == row[0] = 0

InputsCopied(row) == \A word \in 1 .. arity : row[word] = inputs[word]

\* Which selector a row enables.
IsFull(n) == n \notin Half .. PartialEnd(arity) - 1

RoundGate(n, current, next) ==
  LET Value(word) == Add(current[word], RoundConstant(arity, n, word))
      nonlinear == [word \in Words(arity) |->
                      IF IsFull(n) \/ word = 0 THEN Fifth(Value(word)) ELSE Value(word)]
      mixed == Mixed(arity, MDS[arity], nonlinear)
  IN  \A word \in Words(arity) : Sub(next[word], mixed[word]) = 0

Complete == round = Rounds(arity)

Satisfied ==
  /\ Complete
  /\ ZeroCapacity(state[0])
  /\ InputsCopied(state[0])
  /\ \A n \in 0 .. round - 1 : RoundGate(n, state[n], state[n + 1])

\* The cell `hash` returns.
Digest == state[round][0]

(* The assignment *)

\* Variant: the witness omits the first word's S-box in partial rounds.
WitnessRound_Linear(n, current) ==
  LET Shifted(word) == Add(current[word], RoundConstant(arity, n, word))
  IN  Mixed(arity, MDS[arity],
           [word \in Words(arity) |->
              IF IsFull(n) THEN Fifth(Shifted(word)) ELSE Shifted(word)])

\* What `hash` computes for the next row.
WitnessRound(n, current) ==
  LET Shifted(word) == Add(current[word], RoundConstant(arity, n, word))
  IN  Mixed(arity, MDS[arity],
           [word \in Words(arity) |->
              IF IsFull(n) \/ word = 0 THEN Fifth(Shifted(word)) ELSE Shifted(word)])

AssignRow(next) ==
  /\ state' = [n \in 0 .. round + 1 |-> IF n = round + 1 THEN next ELSE state[n]]
  /\ round' = round + 1
  /\ UNCHANGED <<arity, filledBy, inputs>>

\* One turn of the loop of `hash`.
HashRound ==
  /\ filledBy = "synthesis"
  /\ round < Rounds(arity)
  /\ AssignRow(WitnessRound(round, state[round]))

\* One row of any other trace.
AnyRound ==
  /\ filledBy = "anybody"
  /\ round < Rounds(arity)
  /\ \E next \in StatesOf(Width(arity)) :
       /\ RoundGate(round, state[round], next)
       /\ AssignRow(next)

Init ==
  /\ arity \in Arities
  /\ filledBy \in {"synthesis", "anybody"}
  /\ inputs \in [1 .. arity -> Fr]
  /\ round = 0
  /\ \E first \in StatesOf(Width(arity)) :
       /\ IF filledBy = "synthesis" THEN first = Start(arity, inputs)
                                    ELSE ZeroCapacity(first) /\ InputsCopied(first)
       /\ state = [n \in {0} |-> first]

Next == HashRound \/ AnyRound

Spec == Init /\ [][Next]_vars

(* Properties *)

\* Sound: a trace that passes the constraints, whoever chose its cells, ends in the
\* digest that the native hash computes from the same inputs.  Nothing of the
\* capacity, of an input or of a round is left to the prover.
OnlyNativeDigests == Satisfied => Digest = NativeHash(arity, inputs)

\* Complete: the rows that `hash` assigns pass every constraint, for all inputs.
HashSatisfies == filledBy = "synthesis" /\ Complete => Satisfied

\* The generated contract hashes the same inputs to the digest of the gadget's trace,
\* though it packs the constants in one string and folds both kinds of round in one
\* loop: tree nodes computed on chain are those a proof speaks of.
ContractComputesTheDigest == Satisfied => SolidityHash(arity, inputs) = Digest
=============================================================================
