------------------------------- MODULE Field -------------------------------
(***************************************************************************)
(* A prime field, as the gates of the circuit use it: Fr in gadgets/*.rs.  *)
(***************************************************************************)
EXTENDS Integers

CONSTANT MODULUS

Fr == 0 .. MODULUS - 1

Add(a, b) == (a + b) % MODULUS
Sub(a, b) == (a - b) % MODULUS
Mul(a, b) == (a * b) % MODULUS

\* What the proofs need of a prime: more than one element, no zero divisors.
ASSUME FieldAssumption ==
  /\ MODULUS \in Nat \ {0, 1}
  /\ \A a, b \in Fr : Mul(a, b) = 0 => a = 0 \/ b = 0

\* Variant: the gate has no Boolean constraint.
BooleanBit_Missing(b) == b \in Fr

\* bit * (bit - 1) = 0, in the range gadget's gate and in the Merkle gadget's.
BooleanBit(b) == Mul(b, Sub(b, 1)) = 0
=============================================================================
