---------------------------- MODULE MCRangeChip ----------------------------
(***************************************************************************)
(* Four bits over the field of 19 elements, three of which are too wide.   *)
(***************************************************************************)
EXTENDS RangeChip

PowersOfTwo == [n \in 0 .. 4 |-> 2^n]
=============================================================================
