------------------------------- MODULE Merkle -------------------------------
(***************************************************************************)
(* The native Merkle tree of primitives/merkle.rs, as operators on a list  *)
(* of leaves.  A list is a function on 0..n-1, like the Vec it models.     *)
(***************************************************************************)
EXTENDS Integers, FiniteSets, Protocol

CONSTANTS TREE_DEPTH, TREE_CAPACITY

ASSUME TreeShape ==
  /\ TREE_DEPTH \in Nat \ {0}
  /\ TREE_CAPACITY \in Nat \ {0}
  /\ TREE_CAPACITY = 2^TREE_DEPTH

Depths == 0 .. TREE_DEPTH - 1

\* Arithmetic, true of every depth: the provers know `^` for numerals only.
ASSUME PowersOfTwo ==
  /\ \A d \in 0 .. TREE_DEPTH : 2^d \in Nat \ {0}
  /\ \A d \in Depths : 2^(d + 1) = 2 * 2^d

Length(list) == Cardinality(DOMAIN list)

\* Bit `depth` of a leaf index: 1 when the node at that depth is a right child.
Bit(index, depth) == (index \div 2^depth) % 2

PaddedLeaves(leaves) ==
  [i \in 0 .. TREE_CAPACITY - 1 |-> IF i \in DOMAIN leaves THEN leaves[i] ELSE Zero]

ParentLevel(level) ==
  [i \in 0 .. (Length(level) \div 2) - 1 |-> H2(level[2 * i], level[2 * i + 1])]

\* Every level of the tree, from the padded leaves (0) to the root (TREE_DEPTH).
Levels(leaves) ==
  LET level[d \in 0 .. TREE_DEPTH] ==
        IF d = 0 THEN PaddedLeaves(leaves) ELSE ParentLevel(level[d - 1])
  IN  level

Root(leaves) == Levels(leaves)[TREE_DEPTH][0]

\* current_index ^ 1
Sibling(index) == IF index % 2 = 0 THEN index + 1 ELSE index - 1

\* MerkleTree::prove, for an index that holds a leaf.
Prove(leaves, index) ==
  LET level == Levels(leaves)
  IN  [siblings |-> [d \in Depths |-> level[d][Sibling(index \div 2^d)]],
       pathBits |-> [d \in Depths |-> Bit(index, d) = 1]]

\* Variants: the leaf's hash takes the sibling twice; the bits are read backwards.
ComputeRoot_LeafDropped(path, leaf) ==
  LET current[d \in 0 .. TREE_DEPTH] ==
        IF d = 0 THEN path.siblings[0]
        ELSE IF path.pathBits[d - 1] THEN H2(path.siblings[d - 1], current[d - 1])
                                     ELSE H2(current[d - 1], path.siblings[d - 1])
  IN  current[TREE_DEPTH]

ComputeRoot_Mirrored(path, leaf) ==
  LET current[d \in 0 .. TREE_DEPTH] ==
        IF d = 0 THEN leaf
        ELSE IF path.pathBits[d - 1] THEN H2(current[d - 1], path.siblings[d - 1])
                                     ELSE H2(path.siblings[d - 1], current[d - 1])
  IN  current[TREE_DEPTH]

\* A true bit places the current node on the right.
ComputeRoot(path, leaf) ==
  LET current[d \in 0 .. TREE_DEPTH] ==
        IF d = 0 THEN leaf
        ELSE IF path.pathBits[d - 1] THEN H2(path.siblings[d - 1], current[d - 1])
                                     ELSE H2(current[d - 1], path.siblings[d - 1])
  IN  current[TREE_DEPTH]
=============================================================================
