--------------------------- MODULE MCMerkleChip ---------------------------
(***************************************************************************)
(* Two levels over the field of five elements; the hash tells its two      *)
(* inputs apart, so swapped inputs are a different node.                   *)
(***************************************************************************)
EXTENDS MerkleChip

LinearHash == [inputs \in Fr \X Fr |-> (inputs[1] + 2 * inputs[2] + 1) % MODULUS]
=============================================================================
