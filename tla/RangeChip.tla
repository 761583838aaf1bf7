----------------------------- MODULE RangeChip -----------------------------
(***************************************************************************)
(* The recipient's range check, gadgets/range.rs: an accumulator that      *)
(* takes one bit per row, from the highest, and must end as the recipient. *)
(* The columns are filled either by `check`, which computes every cell, or *)
(* by anybody, who may choose any cells that the gates admit: what the     *)
(* gates admit is all that a verifier knows of a witness.                  *)
(***************************************************************************)
EXTENDS Field

CONSTANTS
  BITS,    \* 160
  Weight   \* Weight[n] is 2^n

Steps == 0 .. BITS - 1
Rows == 0 .. BITS

\* The gadget's premise: 2^BITS does not exceed the modulus.
ASSUME WidthAssumption ==
  /\ BITS \in Nat
  /\ Weight \in [Rows -> Nat]
  /\ Weight[0] = 1
  /\ \A n \in Steps : Weight[n + 1] = 2 * Weight[n]
  /\ Weight[BITS] <= MODULUS

VARIABLES
  recipient,    \* the cell that is checked
  filledBy,     \* "synthesis" or "anybody"
  row,          \* rows assigned so far
  accumulator,  \* the two advice columns; a cell not assigned holds zero
  bit

vars == <<recipient, filledBy, row, accumulator, bit>>

(* The gates *)

\* Variant: the gate is missing.
ZeroAccumulator_Missing(first) == first \in Fr

ZeroAccumulator(first) == first = 0

RecipientBits(current, b, next) ==
  /\ BooleanBit(b)
  /\ Sub(Sub(next, Mul(current, 2)), b) = 0

\* Every gate on its rows, and the copy constraint of the last accumulator.
Satisfied ==
  /\ row = BITS
  /\ ZeroAccumulator(accumulator[0])
  /\ \A n \in Steps : RecipientBits(accumulator[n], bit[n], accumulator[n + 1])
  /\ accumulator[BITS] = recipient

(* The assignment *)

\* Variant: the lowest bit first.
WitnessBit_LowestFirst(value, n) == (value \div Weight[n]) % 2

\* Bit 159 - row of the recipient's little-endian bytes.
WitnessBit(value, n) == (value \div Weight[BITS - 1 - n]) % 2

Assign(b, next) ==
  /\ bit' = [bit EXCEPT ![row] = b]
  /\ accumulator' = [accumulator EXCEPT ![row + 1] = next]
  /\ row' = row + 1
  /\ UNCHANGED <<recipient, filledBy>>

\* One turn of the loop of `check`.
CheckRow ==
  /\ filledBy = "synthesis"
  /\ row < BITS
  /\ LET b == WitnessBit(recipient, row)
     IN  Assign(b, Add(Mul(accumulator[row], 2), b))

\* Variant: one row too many.
AnyRow_PastTheEnd ==
  /\ filledBy = "anybody"
  /\ row <= BITS
  /\ \E b, next \in Fr :
       /\ RecipientBits(accumulator[row], b, next)
       /\ Assign(b, next)

\* One row of any other witness.
AnyRow ==
  /\ filledBy = "anybody"
  /\ row < BITS
  /\ \E b, next \in Fr :
       /\ RecipientBits(accumulator[row], b, next)
       /\ Assign(b, next)

Init ==
  /\ recipient \in Fr
  /\ filledBy \in {"synthesis", "anybody"}
  /\ row = 0
  /\ bit = [n \in Steps |-> 0]
  /\ \E first \in Fr :
       /\ IF filledBy = "synthesis" THEN first = 0 ELSE ZeroAccumulator(first)
       /\ accumulator = [n \in Rows |-> IF n = 0 THEN first ELSE 0]

Next == CheckRow \/ AnyRow

Spec == Init /\ [][Next]_vars

(* Properties *)

\* Cells hold field elements, in the rows of the region.
TypeOK ==
  /\ recipient \in Fr
  /\ filledBy \in {"synthesis", "anybody"}
  /\ row \in Rows
  /\ accumulator \in [Rows -> Fr]
  /\ bit \in [Steps -> Fr]

\* Sound: whatever cells a prover chooses, gates that hold mean a recipient of at
\* most BITS bits.  No choice of bits reaches a wide value by wrapping around.
RecipientFits == Satisfied => recipient < Weight[BITS]

\* One witness: cells that satisfy the gates are the bits `check` would assign.
OneDecomposition == Satisfied => \A n \in Steps : bit[n] = WitnessBit(recipient, n)

\* Complete, and no more: the cells `check` computes satisfy the gates for every
\* recipient of at most BITS bits, and fail them for every wider one.
CheckDecides ==
  filledBy = "synthesis" /\ row = BITS => (Satisfied <=> recipient < Weight[BITS])
=============================================================================
