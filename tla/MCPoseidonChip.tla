--------------------------- MODULE MCPoseidonChip ---------------------------
(***************************************************************************)
(* The field of seven elements, where x^5 is a permutation and not the     *)
(* identity.  One full round on either side of one or two partial rounds;  *)
(* no two rounds share their constants and no matrix is symmetric.         *)
(***************************************************************************)
EXTENDS SpikeCircuit

PartialRounds == <<1, 2>>

RoundConstants == << <<1, 4, 2, 6, 3, 5>>,
                     <<3, 1, 4, 1, 5, 2, 6, 5, 3, 2, 0, 6>> >>

Matrices ==
  << [i \in 0 .. 1 |-> [j \in 0 .. 1 |-> <<<<2, 3>>, <<1, 1>>>>[i + 1][j + 1]]],
     [i \in 0 .. 2 |-> [j \in 0 .. 2 |-> <<<<2, 3, 1>>, <<1, 1, 4>>, <<3, 5, 6>>>>[i + 1][j + 1]]] >>
=============================================================================
