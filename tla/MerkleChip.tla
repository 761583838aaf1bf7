---------------------------- MODULE MerkleChip ----------------------------
(***************************************************************************)
(* The membership gadget, gadgets/merkle.rs: one row per level, where a    *)
(* gate puts the current node and its sibling in the order that the bit    *)
(* says, and copy constraints tie the row to the node below and to the     *)
(* hash above.  The rows are filled by `compute_root`, or by anybody, with *)
(* any cells the constraints admit.                                        *)
(***************************************************************************)
EXTENDS Field

CONSTANTS
  TREE_DEPTH,
  Hash         \* Hash[<<a, b>>], any function: the gadget needs no more of it

ASSUME ChipAssumption ==
  /\ TREE_DEPTH \in Nat
  /\ Hash \in [Fr \X Fr -> Fr]

VARIABLES
  filledBy,  \* "synthesis" or "anybody"
  level,     \* rows assigned so far
  node,      \* node[0] is the leaf, node[l + 1] the digest of level l
  order      \* order[l] is the row of level l, a cell for each column

vars == <<filledBy, level, node, order>>

Levels == 0 .. TREE_DEPTH - 1
OrderRows == [current : Fr, sibling : Fr, bit : Fr, left : Fr, right : Fr]

UnassignedRow == [current |-> 0, sibling |-> 0, bit |-> 0, left |-> 0, right |-> 0]

(* The constraints *)

\* Variant: a bit that is any field element.
MerkleOrder_AnyBit(o) ==
  /\ Sub(Sub(o.left, o.current), Mul(o.bit, Sub(o.sibling, o.current))) = 0
  /\ Sub(Sub(o.right, o.sibling), Mul(o.bit, Sub(o.current, o.sibling))) = 0

MerkleOrder(o) ==
  /\ BooleanBit(o.bit)
  /\ Sub(Sub(o.left, o.current), Mul(o.bit, Sub(o.sibling, o.current))) = 0
  /\ Sub(Sub(o.right, o.sibling), Mul(o.bit, Sub(o.current, o.sibling))) = 0

Copied(o, below) == o.current = below

Satisfied ==
  /\ level = TREE_DEPTH
  /\ \A l \in Levels :
       /\ MerkleOrder(order[l])
       /\ Copied(order[l], node[l])
       /\ node[l + 1] = Hash[<<order[l].left, order[l].right>>]

(* The assignment *)

AssignLevel(o) ==
  /\ order' = [order EXCEPT ![level] = o]
  /\ node' = [node EXCEPT ![level + 1] = Hash[<<o.left, o.right>>]]
  /\ level' = level + 1
  /\ UNCHANGED filledBy

\* Variant: the right input from the wrong operand.
Ordered_Twice(current, sibling, b) ==
  [current |-> current, sibling |-> sibling, bit |-> b,
   left  |-> Add(current, Mul(b, Sub(sibling, current))),
   right |-> Add(sibling, Mul(b, Sub(sibling, current)))]

\* The row `compute_root` assigns.
Ordered(current, sibling, b) ==
  [current |-> current, sibling |-> sibling, bit |-> b,
   left  |-> Add(current, Mul(b, Sub(sibling, current))),
   right |-> Add(sibling, Mul(b, Sub(current, sibling)))]

\* One turn of the loop, on a path of a MerklePath: WithdrawCircuit::new makes its
\* bits from bools.
ComputeLevel ==
  /\ filledBy = "synthesis"
  /\ level < TREE_DEPTH
  /\ \E sibling \in Fr, b \in {0, 1} : AssignLevel(Ordered(node[level], sibling, b))

\* Variant: one level too many.
AnyLevel_PastTheRoot ==
  /\ filledBy = "anybody"
  /\ level <= TREE_DEPTH
  /\ \E o \in OrderRows :
       /\ MerkleOrder(o)
       /\ Copied(o, node[level])
       /\ AssignLevel(o)

\* One row of any other witness.
AnyLevel ==
  /\ filledBy = "anybody"
  /\ level < TREE_DEPTH
  /\ \E o \in OrderRows :
       /\ MerkleOrder(o)
       /\ Copied(o, node[level])
       /\ AssignLevel(o)

Init ==
  /\ filledBy \in {"synthesis", "anybody"}
  /\ level = 0
  /\ \E leaf \in Fr : node = [l \in 0 .. TREE_DEPTH |-> IF l = 0 THEN leaf ELSE 0]
  /\ order = [l \in Levels |-> UnassignedRow]

Next == ComputeLevel \/ AnyLevel

Spec == Init /\ [][Next]_vars

(* Properties *)

\* Cells hold field elements, in one row per level.
TypeOK ==
  /\ filledBy \in {"synthesis", "anybody"}
  /\ level \in 0 .. TREE_DEPTH
  /\ node \in [0 .. TREE_DEPTH -> Fr]
  /\ order \in [Levels -> OrderRows]

\* One turn of MerklePath::compute_root, the native loop.
NativeParent(current, sibling, isRight) ==
  IF isRight THEN Hash[<<sibling, current>>] ELSE Hash[<<current, sibling>>]

\* Sound: the nodes of any witness are those the native loop computes from the
\* same leaf, siblings and bits.  No row mixes its inputs or starts elsewhere.
OnlyNativePaths ==
  \A l \in 0 .. level - 1 :
    /\ order[l].bit \in {0, 1}
    /\ node[l + 1] = NativeParent(node[l], order[l].sibling, order[l].bit = 1)

\* Complete: the rows of `compute_root` satisfy every constraint, on every path.
ComputeRootSatisfies ==
  filledBy = "synthesis" /\ level = TREE_DEPTH => Satisfied
=============================================================================
