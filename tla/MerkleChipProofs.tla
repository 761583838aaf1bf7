-------------------------- MODULE MerkleChipProofs --------------------------
(***************************************************************************)
(* The membership gadget admits the native paths and no other, for every   *)
(* field, every depth and every hash function.                             *)
(***************************************************************************)
EXTENDS MerkleChip, TLAPS

(* Field arithmetic *)

\* The operations stay in the field.
LEMMA FieldClosed ==
  ASSUME NEW a \in Fr, NEW b \in Fr
  PROVE  Add(a, b) \in Fr /\ Sub(a, b) \in Fr
BY FieldAssumption DEF Add, Sub, Fr

\* A difference of zero is an equality, and a difference can be added back.
LEMMA Differences ==
  ASSUME NEW a \in Fr, NEW b \in Fr
  PROVE  /\ Sub(a, b) = 0 => a = b
         /\ Sub(a, a) = 0
         /\ Add(b, Sub(a, b)) = a
         /\ Sub(Add(a, b), a) = b
BY FieldAssumption DEF Add, Sub, Fr

\* Subtracting the same element is injective.
LEMMA SubCancels ==
  ASSUME NEW a \in Fr, NEW b \in Fr, NEW c \in Fr, Sub(a, c) = Sub(b, c)
  PROVE  a = b
<1>1. Add(c, Sub(a, c)) = a /\ Add(c, Sub(b, c)) = b
  BY Differences
<1> QED
  BY <1>1

\* Multiplication by a bit selects.
LEMMA BitSelects ==
  ASSUME NEW a \in Fr
  PROVE  Mul(0, a) = 0 /\ Mul(1, a) = a
BY FieldAssumption DEF Mul, Fr

\* A Boolean bit is 0 or 1, because a field has no zero divisors.
LEMMA BitsAreBoolean ==
  ASSUME NEW b \in Fr, BooleanBit(b)
  PROVE  b \in {0, 1}
<1>1. Sub(b, 1) \in Fr
  BY FieldAssumption DEF Sub, Fr
<1>2. b = 0 \/ Sub(b, 1) = 0
  BY <1>1, FieldAssumption DEF BooleanBit
<1>3. ASSUME Sub(b, 1) = 0 PROVE b = 1 \/ b = 0
  BY <1>3, FieldAssumption DEF Sub, Fr
<1> QED
  BY <1>2, <1>3

\* And 0 and 1 are Boolean bits.
LEMMA BooleansAreBits ==
  ASSUME NEW b \in {0, 1}
  PROVE  b \in Fr /\ BooleanBit(b)
<1>1. CASE b = 0
  BY <1>1, FieldAssumption DEF BooleanBit, Mul, Sub, Fr
<1>2. CASE b = 1
  BY <1>2, FieldAssumption DEF BooleanBit, Mul, Sub, Fr
<1> QED
  BY <1>1, <1>2

(* The gate *)

\* A field element that is selected or not, added to `base`.
LEMMA OrderSolved ==
  ASSUME NEW input \in Fr, NEW base \in Fr, NEW other \in Fr, NEW b \in {0, 1},
         Sub(Sub(input, base), Mul(b, Sub(other, base))) = 0
  PROVE  input = IF b = 1 THEN other ELSE base
<1>1. Sub(input, base) \in Fr /\ Sub(other, base) \in Fr /\ 0 \in Fr
  BY FieldClosed, FieldAssumption DEF Fr
<1>2. CASE b = 1
  <2>1. Sub(input, base) = Sub(other, base)
    BY <1>1, <1>2, BitSelects, Differences
  <2> QED
    BY <1>2, <2>1, SubCancels
<1>3. CASE b = 0
  <2>1. Sub(input, base) = 0
    BY <1>1, <1>3, BitSelects, Differences
  <2> QED
    BY <1>3, <2>1, Differences
<1> QED
  BY <1>2, <1>3

\* The gate puts the node right when the bit is 1, left when it is 0.
LEMMA RowSolved ==
  ASSUME NEW o \in OrderRows, MerkleOrder(o)
  PROVE  /\ o.bit \in {0, 1}
         /\ Hash[<<o.left, o.right>>] = NativeParent(o.current, o.sibling, o.bit = 1)
<1>1. o.bit \in {0, 1}
  BY BitsAreBoolean DEF MerkleOrder, OrderRows
<1>2. o.left = IF o.bit = 1 THEN o.sibling ELSE o.current
  BY <1>1, OrderSolved DEF MerkleOrder, OrderRows
<1>3. o.right = IF o.bit = 1 THEN o.current ELSE o.sibling
  BY <1>1, OrderSolved DEF MerkleOrder, OrderRows
<1> QED
  BY <1>1, <1>2, <1>3 DEF NativeParent

\* The row that `compute_root` assigns passes the gate.
LEMMA OrderedSatisfies ==
  ASSUME NEW current \in Fr, NEW sibling \in Fr, NEW b \in {0, 1}
  PROVE  /\ Ordered(current, sibling, b) \in OrderRows
         /\ MerkleOrder(Ordered(current, sibling, b))
<1> DEFINE up == Mul(b, Sub(sibling, current))
           down == Mul(b, Sub(current, sibling))
<1>1. up \in Fr /\ down \in Fr
  <2>1. Sub(sibling, current) \in Fr /\ Sub(current, sibling) \in Fr /\ 0 \in Fr
    BY FieldClosed, FieldAssumption DEF Fr
  <2> QED
    BY <2>1, BitSelects
<1> HIDE DEF up, down
<1>2. Add(current, up) \in Fr /\ Add(sibling, down) \in Fr
  BY <1>1, FieldClosed
<1>3. /\ Sub(Sub(Add(current, up), current), up) = 0
      /\ Sub(Sub(Add(sibling, down), sibling), down) = 0
  BY <1>1, Differences
<1>4. b \in Fr /\ BooleanBit(b)
  BY BooleansAreBits
<1> QED
  BY <1>2, <1>3, <1>4 DEF Ordered, OrderRows, MerkleOrder, up, down

(* The invariant: the rows assigned so far satisfy their constraints. *)

Constrained ==
  \A l \in 0 .. level - 1 :
    /\ MerkleOrder(order[l])
    /\ Copied(order[l], node[l])
    /\ node[l + 1] = Hash[<<order[l].left, order[l].right>>]

LEMMA InitConstrained == Init => TypeOK /\ Constrained
<1> SUFFICES ASSUME Init PROVE TypeOK /\ Constrained
  OBVIOUS
<1>1. 0 \in Fr /\ 0 \in 0 .. TREE_DEPTH
  BY FieldAssumption, ChipAssumption DEF Fr
<1>2. TypeOK
  BY <1>1 DEF Init, TypeOK, UnassignedRow, OrderRows
<1>3. Constrained
  <2>1. level = 0
    BY DEF Init
  <2>2. 0 .. level - 1 = {}
    BY <2>1
  <2> QED
    BY <2>2 DEF Constrained
<1> QED
  BY <1>2, <1>3

\* A row that satisfies the gate and starts at the last node keeps it.
LEMMA RowConstrained ==
  ASSUME TypeOK, Constrained, level < TREE_DEPTH, NEW o \in OrderRows,
         MerkleOrder(o), Copied(o, node[level]), AssignLevel(o)
  PROVE  TypeOK' /\ Constrained'
<1>1. level \in Levels /\ level + 1 \in 0 .. TREE_DEPTH /\ level \in Nat
  BY ChipAssumption DEF TypeOK, Levels
<1>2. Hash[<<o.left, o.right>>] \in Fr
  BY ChipAssumption DEF OrderRows
<1>3. TypeOK'
  BY <1>1, <1>2 DEF TypeOK, AssignLevel
<1>4. /\ level' = level + 1 /\ order'[level] = o /\ node'[level] = node[level]
      /\ node'[level + 1] = Hash[<<o.left, o.right>>]
  BY <1>1 DEF TypeOK, AssignLevel, Levels
<1>5. Constrained'
  <2> SUFFICES ASSUME NEW l \in 0 .. level
               PROVE  /\ MerkleOrder(order'[l])
                      /\ Copied(order'[l], node'[l])
                      /\ node'[l + 1] = Hash[<<order'[l].left, order'[l].right>>]
    <3>1. level' - 1 = level
      BY <1>1, <1>4
    <3> QED
      BY <3>1 DEF Constrained
  <2>1. CASE l = level
    BY <2>1, <1>4 DEF Copied
  <2>2. CASE l # level
    <3>1. l \in 0 .. level - 1
      BY <2>2, <1>1
    <3>2. order'[l] = order[l] /\ node'[l] = node[l] /\ node'[l + 1] = node[l + 1]
      BY <3>1, <1>1, ChipAssumption DEF TypeOK, AssignLevel, Levels
    <3> QED
      BY <3>1, <3>2 DEF Constrained
  <2> QED
    BY <2>1, <2>2
<1> QED
  BY <1>3, <1>5

LEMMA StepConstrained == TypeOK /\ Constrained /\ [Next]_vars => (TypeOK /\ Constrained)'
<1> SUFFICES ASSUME TypeOK, Constrained, [Next]_vars PROVE TypeOK' /\ Constrained'
  OBVIOUS
<1>1. CASE ComputeLevel
  <2>1. PICK sibling \in Fr, b \in {0, 1} : AssignLevel(Ordered(node[level], sibling, b))
    BY <1>1 DEF ComputeLevel
  <2>2. level < TREE_DEPTH
    BY <1>1 DEF ComputeLevel
  <2>3. node[level] \in Fr
    BY <2>2 DEF TypeOK
  <2>4. /\ Ordered(node[level], sibling, b) \in OrderRows
        /\ MerkleOrder(Ordered(node[level], sibling, b))
    BY <2>3, OrderedSatisfies
  <2>5. Copied(Ordered(node[level], sibling, b), node[level])
    BY DEF Copied, Ordered
  <2> QED
    BY <2>1, <2>2, <2>4, <2>5, RowConstrained
<1>2. CASE AnyLevel
  <2>1. PICK o \in OrderRows : MerkleOrder(o) /\ Copied(o, node[level]) /\ AssignLevel(o)
    BY <1>2 DEF AnyLevel
  <2>2. level < TREE_DEPTH
    BY <1>2 DEF AnyLevel
  <2> QED
    BY <2>1, <2>2, RowConstrained
<1>3. CASE UNCHANGED vars
  BY <1>3 DEF vars, TypeOK, Constrained
<1> QED
  BY <1>1, <1>2, <1>3 DEF Next

LEMMA AlwaysConstrained == Spec => [](TypeOK /\ Constrained)
BY InitConstrained, StepConstrained, PTL DEF Spec

\* Rows that satisfy their constraints are a native path, and a full region satisfies all.
LEMMA ConstrainedIsNative ==
  ASSUME TypeOK, Constrained  PROVE OnlyNativePaths
<1> SUFFICES ASSUME NEW l \in 0 .. level - 1
             PROVE  /\ order[l].bit \in {0, 1}
                    /\ node[l + 1] = NativeParent(node[l], order[l].sibling, order[l].bit = 1)
  BY DEF OnlyNativePaths
<1>1. l \in Levels
  BY ChipAssumption DEF TypeOK, Levels
<1>2. order[l] \in OrderRows
  BY <1>1 DEF TypeOK
<1>3. MerkleOrder(order[l]) /\ order[l].current = node[l]
  BY DEF Constrained, Copied
<1>4. node[l + 1] = Hash[<<order[l].left, order[l].right>>]
  BY DEF Constrained
<1> QED
  BY <1>2, <1>3, <1>4, RowSolved

LEMMA ConstrainedSatisfies ==
  ASSUME Constrained, level = TREE_DEPTH  PROVE Satisfied
BY DEF Constrained, Satisfied, Levels

(* Results *)

\* Every cell the gadget assigns is a field element (merkle.rs:102-137).
THEOREM RowsAreTyped == Spec => []TypeOK
BY AlwaysConstrained, PTL

\* Soundness of the order gate and the copy constraints: whatever cells a prover
\* chooses, the nodes are those of MerklePath::compute_root on the same path.
THEOREM NativePathsOnly == Spec => []OnlyNativePaths
BY ConstrainedIsNative, AlwaysConstrained, PTL

\* Completeness: the rows of `compute_root` satisfy every constraint.
THEOREM EveryPathHasAWitness == Spec => []ComputeRootSatisfies
<1>1. TypeOK /\ Constrained => ComputeRootSatisfies
  BY ConstrainedSatisfies DEF ComputeRootSatisfies
<1> QED
  BY <1>1, AlwaysConstrained, PTL
=============================================================================
