----------------------------- MODULE MCCalldata -----------------------------
(***************************************************************************)
(* Two inputs and a proof of two scalars, in words of two ternary digits   *)
(* over the field of five elements: four words of nine are noncanonical.   *)
(* Texts of six lines hold the four reads in every arrangement with the    *)
(* anchor, another block and the header; one of the reads can be hidden;   *)
(* the sum of the lengths can overflow.                                    *)
(***************************************************************************)
EXTENDS Calldata

MixedProof ==
  [inputs \in InputLists |->
     <<(inputs[1] + 2 * inputs[2] + 1) % MODULUS, (3 * inputs[1] + inputs[2]) % MODULUS>>]
=============================================================================
