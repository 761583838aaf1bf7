------------------------- MODULE MCWithdrawCircuit -------------------------
(***************************************************************************)
(* The hashes tell their inputs and their order apart; one recipient of    *)
(* the field does not fit.                                                 *)
(***************************************************************************)
EXTENDS WithdrawCircuit

PowersOfTwo == [n \in 0 .. BITS |-> 2^n]
OneInput == [inputs \in Singles |-> (2 * inputs[1] + 1) % MODULUS]
TwoInputs == [inputs \in Fr \X Fr |-> (inputs[1] + 2 * inputs[2] + 1) % MODULUS]
=============================================================================
