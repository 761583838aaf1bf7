---------------------------- MODULE MerkleProofs ----------------------------
(***************************************************************************)
(* What the native Merkle tree is, for every depth and every list: the     *)
(* recursive functions of Merkle have the values their equations give, a   *)
(* leaf's path leads to the root, and no path leads to the root from a     *)
(* value that is not the leaf.                                             *)
(*                                                                         *)
(* A recursive function is to the provers a CHOOSE of some function that   *)
(* satisfies its equation, so that one exists has to be proved: by         *)
(* induction over the levels, in the form of a set that holds 0 and is     *)
(* closed under successor.                                                 *)
(***************************************************************************)
EXTENDS Merkle, FiniteSetTheorems, NaturalsInduction, WellFoundedInduction, TLAPS

(* Induction and division *)

LEMMA Upward ==
  ASSUME NEW m \in Nat, NEW S, 0 \in S, \A d \in 0 .. m - 1 : d \in S => d + 1 \in S
  PROVE  0 .. m \subseteq S
<1> DEFINE Bad == {d \in Nat : d <= m /\ d \notin S}
<1>1. Bad = {}
  <2> SUFFICES ASSUME Bad # {}  PROVE FALSE
    OBVIOUS
  <2>1. PICK k \in Bad : \A j \in Bad : ~ (<<j, k>> \in OpToRel(<, Nat))
    BY WFMin, NatLessThanWellFounded
  <2>2. \A j \in Bad : ~ (j < k)
    BY <2>1, Zenon DEF OpToRel
  <2>3. k # 0 /\ k - 1 \in 0 .. m - 1 /\ (k - 1) + 1 = k
    OBVIOUS
  <2>4. k - 1 \notin Bad
    BY <2>2, <2>3
  <2> QED  BY <2>3, <2>4
<1> QED  BY <1>1

LEMMA Downward ==
  ASSUME NEW m \in Nat, NEW S, m \in S, \A d \in 0 .. m - 1 : d + 1 \in S => d \in S
  PROVE  0 .. m \subseteq S
<1> DEFINE T == {d \in Nat : d <= m => m - d \in S}
<1>1. 0 \in T
  OBVIOUS
<1>2. ASSUME NEW d \in 0 .. m - 1, d \in T  PROVE d + 1 \in T
  <2>1. m - (d + 1) \in 0 .. m - 1 /\ (m - (d + 1)) + 1 = m - d
    OBVIOUS
  <2> QED  BY <1>2, <2>1
<1>3. 0 .. m \subseteq T
  <2> HIDE DEF T
  <2> QED  BY <1>1, <1>2, Upward
<1>4. ASSUME NEW d \in 0 .. m  PROVE d \in S
  <2>1. m - d \in 0 .. m /\ m - (m - d) = d
    OBVIOUS
  <2> QED  BY <1>3, <2>1
<1> QED  BY <1>4

\* A whole number is its quotient and its remainder.
LEMMA Quotient ==
  ASSUME NEW n \in Nat, NEW w \in Nat \ {0}
  PROVE  /\ n \div w \in Nat
         /\ n % w \in 0 .. w - 1
         /\ n = w * (n \div w) + (n % w)
  OBVIOUS

LEMMA Halving ==
  ASSUME NEW n \in Nat, NEW w \in Nat \ {0}
  PROVE  n \div (2 * w) = (n \div w) \div 2
  OBVIOUS

\* The quotient of the next number is the same or the next.
LEMMA NextQuotient ==
  ASSUME NEW n \in Nat, NEW w \in Nat \ {0}
  PROVE  (n + 1) \div w = n \div w \/ (n + 1) \div w = (n \div w) + 1
  OBVIOUS

LEMMA LengthOfList ==
  ASSUME NEW list, NEW n \in Nat, DOMAIN list = 0 .. n - 1
  PROVE  Length(list) = n
  BY FS_Interval DEF Length

-----------------------------------------------------------------------------
(* The ancestors of a leaf *)

\* The ancestor one level up is half the index, and the bit says which child we are.
LEMMA Ancestor ==
  ASSUME NEW index \in Nat, NEW d \in Depths
  PROVE  LET here  == index \div 2^d
             above == index \div 2^(d + 1)
         IN  /\ here \in Nat /\ above \in Nat
             /\ Bit(index, d) \in {0, 1}
             /\ above = here \div 2
             /\ Bit(index, d) = here % 2
             /\ here = 2 * above + Bit(index, d)
<1>1. 2^d \in Nat \ {0} /\ 2^(d + 1) = 2 * 2^d
  BY PowersOfTwo, TreeShape DEF Depths
<1> DEFINE w == 2^d
<1>2. w \in Nat \ {0} /\ index \div 2^(d + 1) = index \div (2 * w) /\ index \div 2^d = index \div w
  BY <1>1
<1> HIDE DEF w
<1>3. index \div (2 * w) = (index \div w) \div 2 /\ index \div w \in Nat
  BY <1>2, Halving, Quotient
<1> DEFINE here == index \div w
<1>4. /\ here \div 2 \in Nat /\ here % 2 \in {0, 1} /\ here = 2 * (here \div 2) + (here % 2)
  <2>1. here \in Nat
    BY <1>3
  <2> HIDE DEF here
  <2> QED  BY <2>1
<1> QED  BY <1>2, <1>3, <1>4 DEF Bit

LEMMA LeafIsItsAncestor == \A index \in Nat : index \div 2^0 = index
  OBVIOUS

\* The number of nodes at each depth.
Width(d) == 2^(TREE_DEPTH - d)

LEMMA Widths ==
  /\ Width(0) = TREE_CAPACITY /\ Width(TREE_DEPTH) = 1
  /\ \A d \in 0 .. TREE_DEPTH : Width(d) \in Nat \ {0}
  /\ \A d \in Depths : Width(d) = 2 * Width(d + 1)
<1>1. Width(0) = TREE_CAPACITY /\ Width(TREE_DEPTH) = 1
  <2>1. TREE_DEPTH - 0 = TREE_DEPTH /\ TREE_DEPTH - TREE_DEPTH = 0 /\ 2^0 = 1
    BY TreeShape
  <2> QED  BY <2>1, TreeShape DEF Width
<1>2. ASSUME NEW d \in 0 .. TREE_DEPTH  PROVE Width(d) \in Nat \ {0}
  BY TreeShape, PowersOfTwo DEF Width
<1>3. ASSUME NEW d \in Depths  PROVE Width(d) = 2 * Width(d + 1)
  <2>1. TREE_DEPTH - (d + 1) \in Depths /\ (TREE_DEPTH - (d + 1)) + 1 = TREE_DEPTH - d
    BY TreeShape DEF Depths
  <2> QED  BY <2>1, PowersOfTwo DEF Width
<1> QED  BY <1>1, <1>2, <1>3

LEMMA AncestorsExist ==
  ASSUME NEW index \in 0 .. TREE_CAPACITY - 1, NEW d \in 0 .. TREE_DEPTH
  PROVE  index \div 2^d \in 0 .. Width(d) - 1
<1> DEFINE S == {k \in 0 .. TREE_DEPTH : index \div 2^k \in 0 .. Width(k) - 1}
<1>1. index \in Nat
  BY TreeShape
<1>2. 0 \in S
  BY <1>1, LeafIsItsAncestor, Widths, TreeShape
<1>3. ASSUME NEW k \in 0 .. TREE_DEPTH - 1, k \in S  PROVE k + 1 \in S
  <2>1. index \div 2^k = 2 * (index \div 2^(k + 1)) + Bit(index, k) /\ Bit(index, k) \in {0, 1}
        /\ index \div 2^(k + 1) \in Nat
    BY <1>1, Ancestor DEF Depths
  <2>2. Width(k) = 2 * Width(k + 1) /\ Width(k + 1) \in Nat
    BY Widths, TreeShape DEF Depths
  <2>3. index \div 2^k \in 0 .. Width(k) - 1
    BY <1>3
  <2>4. k + 1 \in 0 .. TREE_DEPTH
    BY TreeShape
  <2>5. index \div 2^(k + 1) \in 0 .. Width(k + 1) - 1
    BY <2>1, <2>2, <2>3
  <2> QED  BY <2>4, <2>5
<1> HIDE DEF S
<1>4. 0 .. TREE_DEPTH \subseteq S
  BY <1>2, <1>3, Upward, TreeShape
<1> QED  BY <1>4 DEF S

-----------------------------------------------------------------------------
(* The recursive functions exist, so they are what their equations say *)

LEMMA LevelsExist ==
  ASSUME NEW leaves
  PROVE  \E f : f = [d \in 0 .. TREE_DEPTH |->
                       IF d = 0 THEN PaddedLeaves(leaves) ELSE ParentLevel(f[d - 1])]
<1> DEFINE S == {k \in Nat : \E f : f = [d \in 0 .. k |->
                                IF d = 0 THEN PaddedLeaves(leaves) ELSE ParentLevel(f[d - 1])]}
<1>1. 0 \in S
  <2> DEFINE g == [d \in 0 .. 0 |-> PaddedLeaves(leaves)]
  <2>1. g = [d \in 0 .. 0 |-> IF d = 0 THEN PaddedLeaves(leaves) ELSE ParentLevel(g[d - 1])]
    OBVIOUS
  <2> QED  BY <2>1
<1>2. ASSUME NEW k \in 0 .. TREE_DEPTH - 1, k \in S  PROVE k + 1 \in S
  <2>1. PICK f : f = [d \in 0 .. k |->
                        IF d = 0 THEN PaddedLeaves(leaves) ELSE ParentLevel(f[d - 1])]
    BY <1>2
  <2> DEFINE g == [d \in 0 .. k + 1 |-> IF d = k + 1 THEN ParentLevel(f[k]) ELSE f[d]]
  <2>2. \A d \in 0 .. k : g[d] = f[d]
    OBVIOUS
  <2>3. ASSUME NEW d \in 0 .. k + 1
        PROVE  g[d] = IF d = 0 THEN PaddedLeaves(leaves) ELSE ParentLevel(g[d - 1])
    <3>1. CASE d = k + 1
      <4>1. d # 0 /\ d - 1 = k /\ g[d] = ParentLevel(f[k]) /\ g[k] = f[k]
        BY <3>1
      <4> HIDE DEF g
      <4> QED  BY <4>1
    <3>2. CASE d \in 0 .. k
      <4>1. g[d] = f[d] /\ (d # 0 => g[d - 1] = f[d - 1])
        BY <2>2, <3>2
      <4> HIDE DEF g
      <4> QED  BY <2>1, <3>2, <4>1
    <3> QED  BY <3>1, <3>2
  <2>4. g = [d \in 0 .. k + 1 |-> IF d = 0 THEN PaddedLeaves(leaves) ELSE ParentLevel(g[d - 1])]
    <3>1. g = [d \in 0 .. k + 1 |-> g[d]]
      OBVIOUS
    <3> HIDE DEF g
    <3> QED  BY <2>3, <3>1
  <2>5. \E h : h = [d \in 0 .. k + 1 |->
                      IF d = 0 THEN PaddedLeaves(leaves) ELSE ParentLevel(h[d - 1])]
    <3> HIDE DEF g
    <3> QED  BY <2>4
  <2> QED  BY <2>5
<1> HIDE DEF S
<1>3. 0 .. TREE_DEPTH \subseteq S
  BY <1>1, <1>2, Upward, TreeShape
<1>4. TREE_DEPTH \in S
  BY <1>3, TreeShape
<1> QED  BY <1>4 DEF S

\* Every level is the parent level of the one below it.
LEMMA LevelsRecursion ==
  ASSUME NEW leaves
  PROVE  /\ Levels(leaves)[0] = PaddedLeaves(leaves)
         /\ \A d \in Depths : Levels(leaves)[d + 1] = ParentLevel(Levels(leaves)[d])
<1>1. PICK f : f = [d \in 0 .. TREE_DEPTH |->
                      IF d = 0 THEN PaddedLeaves(leaves) ELSE ParentLevel(f[d - 1])]
  BY LevelsExist
<1>2. Levels(leaves) = [d \in 0 .. TREE_DEPTH |->
                          IF d = 0 THEN PaddedLeaves(leaves)
                                   ELSE ParentLevel(Levels(leaves)[d - 1])]
  BY <1>1, Zenon DEF Levels
<1> DEFINE level == Levels(leaves)
<1> HIDE DEF level
<1>3. /\ level[0] = PaddedLeaves(leaves)
      /\ \A d \in Depths : level[d + 1] = ParentLevel(level[d])
  <2>1. level = [d \in 0 .. TREE_DEPTH |->
                   IF d = 0 THEN PaddedLeaves(leaves) ELSE ParentLevel(level[d - 1])]
    BY <1>2 DEF level
  <2>2. 0 \in 0 .. TREE_DEPTH /\ \A d \in Depths : d + 1 \in 0 .. TREE_DEPTH /\ d + 1 # 0 /\ (d + 1) - 1 = d
    BY TreeShape DEF Depths
  <2> QED  BY <2>1, <2>2
<1> QED  BY <1>3 DEF level

\* From a leaf upwards: at each depth the node so far is hashed with a sibling,
\* on the right of it when the bit is true.
Climbs(current, leaf, siblings, pathBits) ==
  current = [d \in 0 .. TREE_DEPTH |->
               IF d = 0 THEN leaf
               ELSE IF pathBits[d - 1] THEN H2(siblings[d - 1], current[d - 1])
                                       ELSE H2(current[d - 1], siblings[d - 1])]

LEMMA ClimbExists ==
  ASSUME NEW leaf, NEW siblings, NEW pathBits
  PROVE  \E f : Climbs(f, leaf, siblings, pathBits)
<1> DEFINE Up(f, d) == IF pathBits[d - 1] THEN H2(siblings[d - 1], f[d - 1])
                                          ELSE H2(f[d - 1], siblings[d - 1])
           S == {k \in Nat : \E f : f = [d \in 0 .. k |-> IF d = 0 THEN leaf ELSE Up(f, d)]}
<1>1. 0 \in S
  <2> DEFINE g == [d \in 0 .. 0 |-> leaf]
  <2>1. g = [d \in 0 .. 0 |-> IF d = 0 THEN leaf ELSE Up(g, d)]
    OBVIOUS
  <2> QED  BY <2>1
<1>2. ASSUME NEW k \in 0 .. TREE_DEPTH - 1, k \in S  PROVE k + 1 \in S
  <2>1. PICK f : f = [d \in 0 .. k |-> IF d = 0 THEN leaf ELSE Up(f, d)]
    BY <1>2
  <2> DEFINE g == [d \in 0 .. k + 1 |-> IF d = k + 1 THEN Up(f, k + 1) ELSE f[d]]
  <2>2. \A d \in 0 .. k : g[d] = f[d]
    OBVIOUS
  <2>3. \A d \in 1 .. k + 1 : Up(g, d) = Up(f, d)
    <3>1. \A d \in 1 .. k + 1 : d - 1 \in 0 .. k
      OBVIOUS
    <3> HIDE DEF g
    <3> QED  BY <2>2, <3>1
  <2>4. ASSUME NEW d \in 0 .. k + 1
        PROVE  g[d] = IF d = 0 THEN leaf ELSE Up(g, d)
    <3>1. CASE d = k + 1
      <4>1. d # 0 /\ g[d] = Up(f, d) /\ d \in 1 .. k + 1
        BY <3>1
      <4> HIDE DEF g, Up
      <4> QED  BY <2>3, <4>1
    <3>2. CASE d \in 0 .. k
      <4>1. g[d] = f[d] /\ (d # 0 => d \in 1 .. k + 1)
        BY <3>2
      <4> HIDE DEF g, Up
      <4> QED  BY <2>1, <2>3, <3>2, <4>1
    <3> QED  BY <3>1, <3>2
  <2>5. g = [d \in 0 .. k + 1 |-> IF d = 0 THEN leaf ELSE Up(g, d)]
    <3>1. g = [d \in 0 .. k + 1 |-> g[d]]
      OBVIOUS
    <3> HIDE DEF g, Up
    <3> QED  BY <2>4, <3>1
  <2>6. \E h : h = [d \in 0 .. k + 1 |-> IF d = 0 THEN leaf ELSE Up(h, d)]
    <3> HIDE DEF g
    <3> QED  BY <2>5
  <2> QED  BY <2>6
<1> HIDE DEF S
<1>3. 0 .. TREE_DEPTH \subseteq S
  BY <1>1, <1>2, Upward, TreeShape
<1>4. TREE_DEPTH \in S
  BY <1>3, TreeShape
<1> QED  BY <1>4 DEF S, Climbs

LEMMA ClimbSteps ==
  ASSUME NEW f, NEW leaf, NEW siblings, NEW pathBits, Climbs(f, leaf, siblings, pathBits)
  PROVE  /\ f[0] = leaf
         /\ \A d \in Depths : f[d + 1] = IF pathBits[d] THEN H2(siblings[d], f[d])
                                                        ELSE H2(f[d], siblings[d])
<1>1. /\ 0 \in 0 .. TREE_DEPTH
      /\ \A d \in Depths : d + 1 \in 0 .. TREE_DEPTH /\ d + 1 # 0 /\ (d + 1) - 1 = d
  BY TreeShape DEF Depths
<1> QED  BY <1>1 DEF Climbs

\* ComputeRoot climbs from the leaf along the path.
LEMMA ComputeRootClimbs ==
  ASSUME NEW path, NEW leaf
  PROVE  \E f : Climbs(f, leaf, path.siblings, path.pathBits) /\ ComputeRoot(path, leaf) = f[TREE_DEPTH]
<1> DEFINE chosen == CHOOSE f : Climbs(f, leaf, path.siblings, path.pathBits)
<1>1. Climbs(chosen, leaf, path.siblings, path.pathBits)
  BY ClimbExists, Zenon
<1>2. ComputeRoot(path, leaf) = chosen[TREE_DEPTH]
  BY Zenon DEF ComputeRoot, Climbs
<1> QED  BY <1>1, <1>2

-----------------------------------------------------------------------------
(* The nodes *)

LEMMA LevelWidth ==
  ASSUME NEW leaves, NEW d \in 0 .. TREE_DEPTH
  PROVE  DOMAIN Levels(leaves)[d] = 0 .. Width(d) - 1
<1> DEFINE level == Levels(leaves)
           S == {k \in 0 .. TREE_DEPTH : DOMAIN level[k] = 0 .. Width(k) - 1}
<1>1. 0 \in S
  <2>1. DOMAIN PaddedLeaves(leaves) = 0 .. Width(0) - 1
    BY Widths DEF PaddedLeaves
  <2> QED  BY <2>1, LevelsRecursion, TreeShape
<1>2. ASSUME NEW k \in 0 .. TREE_DEPTH - 1, k \in S  PROVE k + 1 \in S
  <2>1. /\ k \in Depths /\ k \in 0 .. TREE_DEPTH /\ k + 1 \in 0 .. TREE_DEPTH
    BY TreeShape DEF Depths
  <2>2. /\ Width(k) = 2 * Width(k + 1)
        /\ Width(k) \in Nat \ {0} /\ Width(k + 1) \in Nat \ {0}
    BY <2>1, Widths
  <2>3. Length(level[k]) = Width(k)
    <3>1. 0 \in Int /\ Width(k) - 1 \in Int /\ ~ (0 > Width(k) - 1) /\ (Width(k) - 1) - 0 + 1 = Width(k)
      BY <2>2
    <3>2. Cardinality(0 .. Width(k) - 1) = Width(k)
      BY <3>1, FS_Interval
    <3> QED  BY <1>2, <3>2 DEF Length
  <2>4. Length(level[k]) \div 2 = Width(k + 1)
    BY <2>2, <2>3
  <2>5. level[k + 1] = ParentLevel(level[k])
    BY <2>1, LevelsRecursion
  <2> QED  BY <2>1, <2>4, <2>5 DEF ParentLevel
<1> HIDE DEF S
<1>3. 0 .. TREE_DEPTH \subseteq S
  BY <1>1, <1>2, Upward, TreeShape
<1> QED  BY <1>3 DEF S

\* A node is the hash of its two children.
LEMMA NodeOfChildren ==
  ASSUME NEW leaves, NEW d \in Depths, NEW j \in 0 .. Width(d + 1) - 1
  PROVE  /\ 2 * j \in 0 .. Width(d) - 1
         /\ 2 * j + 1 \in 0 .. Width(d) - 1
         /\ Levels(leaves)[d + 1][j] = H2(Levels(leaves)[d][2 * j], Levels(leaves)[d][2 * j + 1])
<1> DEFINE level == Levels(leaves)
<1>1. d + 1 \in 0 .. TREE_DEPTH
  BY TreeShape DEF Depths
<1>2. Width(d) = 2 * Width(d + 1) /\ Width(d + 1) \in Nat
  BY <1>1, Widths
<1>3. j \in DOMAIN level[d + 1]
  BY <1>1, LevelWidth
<1>4. level[d + 1] = ParentLevel(level[d])
  BY LevelsRecursion
<1> HIDE DEF level
<1>5. level[d + 1][j] = H2(level[d][2 * j], level[d][2 * j + 1])
  BY <1>3, <1>4 DEF ParentLevel
<1> QED  BY <1>2, <1>5 DEF level

\* What one step of a climb does, seen from the tree: the parent of the node above
\* leaf `index` at depth d is the hash of that node and its sibling, in the bit's order.
LEMMA NodeAbove ==
  ASSUME NEW leaves, NEW index \in 0 .. TREE_CAPACITY - 1, NEW d \in Depths
  PROVE  LET here    == index \div 2^d
             node    == Levels(leaves)[d][here]
             sibling == Levels(leaves)[d][Sibling(here)]
         IN  /\ here \in 0 .. Width(d) - 1
             /\ Sibling(here) \in 0 .. Width(d) - 1
             /\ Sibling(here) = IF Bit(index, d) = 1 THEN here - 1 ELSE here + 1
             /\ Levels(leaves)[d + 1][index \div 2^(d + 1)] =
                  IF Bit(index, d) = 1 THEN H2(sibling, node) ELSE H2(node, sibling)
<1> DEFINE here == index \div 2^d
           above == index \div 2^(d + 1)
<1>1. /\ index \in Nat /\ d \in 0 .. TREE_DEPTH /\ d + 1 \in 0 .. TREE_DEPTH
  BY TreeShape DEF Depths
<1>2. /\ here \in 0 .. Width(d) - 1
      /\ above \in 0 .. Width(d + 1) - 1
  BY <1>1, AncestorsExist
<1>3. /\ Bit(index, d) \in {0, 1}
      /\ Bit(index, d) = here % 2
      /\ here = 2 * above + Bit(index, d)
  BY <1>1, Ancestor
<1>4. /\ 2 * above \in 0 .. Width(d) - 1
      /\ 2 * above + 1 \in 0 .. Width(d) - 1
      /\ Levels(leaves)[d + 1][above] =
           H2(Levels(leaves)[d][2 * above], Levels(leaves)[d][2 * above + 1])
  BY <1>2, NodeOfChildren
<1> HIDE DEF here, above
<1>5. CASE Bit(index, d) = 1
  <2>1. Sibling(here) = 2 * above /\ here = 2 * above + 1 /\ here - 1 = 2 * above
    BY <1>2, <1>3, <1>4, <1>5 DEF Sibling
  <2> QED  BY <1>2, <1>4, <1>5, <2>1 DEF here, above
<1>6. CASE Bit(index, d) = 0
  <2>1. Sibling(here) = 2 * above + 1 /\ here = 2 * above
    BY <1>2, <1>3, <1>4, <1>6 DEF Sibling
  <2> QED  BY <1>2, <1>4, <1>6, <2>1 DEF here, above
<1> QED  BY <1>3, <1>5, <1>6

-----------------------------------------------------------------------------
(* Paths *)

LEMMA RootIsTheTop ==
  ASSUME NEW leaves, NEW index \in 0 .. TREE_CAPACITY - 1
  PROVE  /\ index \div 2^TREE_DEPTH = 0
         /\ Root(leaves) = Levels(leaves)[TREE_DEPTH][index \div 2^TREE_DEPTH]
<1>1. TREE_DEPTH \in 0 .. TREE_DEPTH
  BY TreeShape
<1>2. index \div 2^TREE_DEPTH \in 0 .. Width(TREE_DEPTH) - 1
  BY <1>1, AncestorsExist
<1>3. \A top : top \in 0 .. Width(TREE_DEPTH) - 1 => top = 0
  BY Widths
<1>4. index \div 2^TREE_DEPTH = 0
  BY <1>2, <1>3, Zenon
<1> QED  BY <1>4, Zenon DEF Root

\* A climb whose siblings are the tree's passes through the tree's nodes.
LEMMA ClimbFollowsTheTree ==
  ASSUME NEW leaves, NEW index \in 0 .. TREE_CAPACITY - 1, NEW f, NEW siblings, NEW pathBits,
         Climbs(f, PaddedLeaves(leaves)[index], siblings, pathBits),
         \A d \in Depths :
           /\ pathBits[d] <=> Bit(index, d) = 1
           /\ siblings[d] = Levels(leaves)[d][Sibling(index \div 2^d)]
  PROVE  \A d \in 0 .. TREE_DEPTH : f[d] = Levels(leaves)[d][index \div 2^d]
<1> DEFINE S == {d \in 0 .. TREE_DEPTH : f[d] = Levels(leaves)[d][index \div 2^d]}
<1>1. 0 \in S
  <2>1. index \div 2^0 = index
    BY LeafIsItsAncestor, TreeShape
  <2> QED  BY <2>1, ClimbSteps, LevelsRecursion, TreeShape
<1>2. ASSUME NEW d \in 0 .. TREE_DEPTH - 1, d \in S  PROVE d + 1 \in S
  <2>1. d \in Depths /\ d + 1 \in 0 .. TREE_DEPTH
    BY TreeShape DEF Depths
  <2>2. f[d + 1] = IF pathBits[d] THEN H2(siblings[d], f[d]) ELSE H2(f[d], siblings[d])
    BY <2>1, ClimbSteps
  <2>3. f[d] = Levels(leaves)[d][index \div 2^d]
    BY <1>2
  <2>4. Levels(leaves)[d + 1][index \div 2^(d + 1)] =
          IF Bit(index, d) = 1
          THEN H2(Levels(leaves)[d][Sibling(index \div 2^d)], Levels(leaves)[d][index \div 2^d])
          ELSE H2(Levels(leaves)[d][index \div 2^d], Levels(leaves)[d][Sibling(index \div 2^d)])
    BY <2>1, NodeAbove
  <2>5. f[d + 1] = Levels(leaves)[d + 1][index \div 2^(d + 1)]
    BY <2>1, <2>2, <2>3, <2>4
  <2> QED  BY <2>1, <2>5
<1> HIDE DEF S
<1>3. 0 .. TREE_DEPTH \subseteq S
  BY <1>1, <1>2, Upward, TreeShape
<1> QED  BY <1>3 DEF S

\* A climb by the bits of `index` that ends in the tree's root began at the tree's
\* leaf and took the tree's siblings, whoever chose them.
LEMMA ClimbBindsTheLeaf ==
  ASSUME NEW leaves, NEW index \in 0 .. TREE_CAPACITY - 1, NEW f, NEW value,
         NEW siblings, NEW pathBits,
         Climbs(f, value, siblings, pathBits),
         \A d \in Depths : pathBits[d] <=> Bit(index, d) = 1,
         f[TREE_DEPTH] = Root(leaves)
  PROVE  value = PaddedLeaves(leaves)[index]
<1> DEFINE S == {d \in 0 .. TREE_DEPTH : f[d] = Levels(leaves)[d][index \div 2^d]}
<1>1. TREE_DEPTH \in S
  BY RootIsTheTop, TreeShape
<1>2. ASSUME NEW d \in 0 .. TREE_DEPTH - 1, d + 1 \in S  PROVE d \in S
  <2>1. d \in Depths /\ d \in 0 .. TREE_DEPTH
    BY TreeShape DEF Depths
  <2>2. f[d + 1] = IF pathBits[d] THEN H2(siblings[d], f[d]) ELSE H2(f[d], siblings[d])
    BY <2>1, ClimbSteps
  <2>3. f[d + 1] = Levels(leaves)[d + 1][index \div 2^(d + 1)]
    BY <1>2
  <2>4. Levels(leaves)[d + 1][index \div 2^(d + 1)] =
          IF Bit(index, d) = 1
          THEN H2(Levels(leaves)[d][Sibling(index \div 2^d)], Levels(leaves)[d][index \div 2^d])
          ELSE H2(Levels(leaves)[d][index \div 2^d], Levels(leaves)[d][Sibling(index \div 2^d)])
    BY <2>1, NodeAbove
  <2>5. pathBits[d] <=> Bit(index, d) = 1
    BY <2>1
  <2> DEFINE node == Levels(leaves)[d][index \div 2^d]
             other == Levels(leaves)[d][Sibling(index \div 2^d)]
  <2>6. IF Bit(index, d) = 1 THEN H2(siblings[d], f[d]) = H2(other, node)
                             ELSE H2(f[d], siblings[d]) = H2(node, other)
    BY <2>2, <2>3, <2>4, <2>5
  <2> HIDE DEF node, other
  <2>7. f[d] = node
    BY <2>6 DEF H2
  <2> QED  BY <2>1, <2>7 DEF node
<1> HIDE DEF S
<1>3. 0 .. TREE_DEPTH \subseteq S
  BY <1>1, <1>2, Downward, TreeShape
<1>4. f[0] = Levels(leaves)[0][index \div 2^0]
  <2>1. 0 \in 0 .. TREE_DEPTH
    BY TreeShape
  <2>2. 0 \in S
    BY <1>3, <2>1
  <2> QED  BY <2>2, Zenon DEF S
<1>5. index \div 2^0 = index
  BY LeafIsItsAncestor, TreeShape
<1> QED  BY <1>4, <1>5, ClimbSteps, LevelsRecursion

\* MerkleTree::prove and compute_root belong together (merkle.rs:53-98): the path of
\* a leaf leads to the root, in a tree of any depth, however full.
THEOREM PathOfALeafReachesTheRoot ==
  ASSUME NEW leaves, NEW index \in 0 .. TREE_CAPACITY - 1
  PROVE  ComputeRoot(Prove(leaves, index), PaddedLeaves(leaves)[index]) = Root(leaves)
<1> DEFINE path     == Prove(leaves, index)
           siblings == path.siblings
           pathBits == path.pathBits
<1>1. /\ \A d \in Depths : pathBits[d] <=> Bit(index, d) = 1
      /\ \A d \in Depths : siblings[d] = Levels(leaves)[d][Sibling(index \div 2^d)]
  BY DEF Prove
<1> HIDE DEF path
<1>2. PICK f : /\ Climbs(f, PaddedLeaves(leaves)[index], siblings, pathBits)
               /\ ComputeRoot(path, PaddedLeaves(leaves)[index]) = f[TREE_DEPTH]
  BY ComputeRootClimbs
<1> HIDE DEF siblings, pathBits
<1>3. \A d \in 0 .. TREE_DEPTH : f[d] = Levels(leaves)[d][index \div 2^d]
  BY <1>1, <1>2, ClimbFollowsTheTree
<1>4. TREE_DEPTH \in 0 .. TREE_DEPTH
  BY TreeShape
<1>5. f[TREE_DEPTH] = Levels(leaves)[TREE_DEPTH][index \div 2^TREE_DEPTH]
  BY <1>3, <1>4, Zenon
<1> QED  BY <1>2, <1>5, RootIsTheTop, Zenon DEF path

\* A path by the bits of an index leads to a root from one value only, the leaf (or
\* padding) at that index in the root's own tree, whatever siblings it was given.
THEOREM PathBindsItsLeaf ==
  ASSUME NEW leaves, NEW index \in 0 .. TREE_CAPACITY - 1, NEW path, NEW value,
         \A d \in Depths : path.pathBits[d] <=> Bit(index, d) = 1,
         ComputeRoot(path, value) = Root(leaves)
  PROVE  value = PaddedLeaves(leaves)[index]
<1>1. PICK f : /\ Climbs(f, value, path.siblings, path.pathBits)
               /\ ComputeRoot(path, value) = f[TREE_DEPTH]
  BY ComputeRootClimbs
<1> QED  BY <1>1, ClimbBindsTheLeaf

-----------------------------------------------------------------------------
(***************************************************************************)
(* Appending a leaf: which nodes change, and that the nodes to the right   *)
(* of the leaf are empty.  `zero` stands for the roots of empty subtrees,  *)
(* `filled` for the last complete left sibling of each depth.              *)
(***************************************************************************)
EmptySubtrees(zero) ==
  /\ zero[0] = Zero
  /\ \A d \in Depths : zero[d + 1] = H2(zero[d], zero[d])

\* Where a left subtree is complete and its right sibling is not, `filled` has its root.
Frontier(filled, leaves, count) ==
  \A d \in Depths :
    Bit(count, d) = 1 => filled[d] = Levels(leaves)[d][(count \div 2^d) - 1]

\* Only the ancestors of a leaf depend on it.
LEMMA OtherNodes ==
  ASSUME NEW before, NEW after, NEW index \in 0 .. TREE_CAPACITY - 1,
         \A i \in 0 .. TREE_CAPACITY - 1 :
           i # index => PaddedLeaves(after)[i] = PaddedLeaves(before)[i],
         NEW d \in 0 .. TREE_DEPTH, NEW j \in 0 .. Width(d) - 1, j # index \div 2^d
  PROVE  Levels(after)[d][j] = Levels(before)[d][j]
<1> DEFINE Same(k) == \A i \in 0 .. Width(k) - 1 :
                        i # index \div 2^k => Levels(after)[k][i] = Levels(before)[k][i]
           S == {k \in 0 .. TREE_DEPTH : Same(k)}
<1>1. 0 \in S
  <2>1. index \div 2^0 = index /\ Width(0) = TREE_CAPACITY
    BY LeafIsItsAncestor, Widths, TreeShape
  <2>2. Same(0)
    BY <2>1, LevelsRecursion
  <2> QED  BY <2>2, TreeShape
<1>2. ASSUME NEW k \in 0 .. TREE_DEPTH - 1, k \in S  PROVE k + 1 \in S
  <2>1. k \in Depths /\ k + 1 \in 0 .. TREE_DEPTH
    BY TreeShape DEF Depths
  <2>2. ASSUME NEW i \in 0 .. Width(k + 1) - 1, i # index \div 2^(k + 1)
        PROVE  Levels(after)[k + 1][i] = Levels(before)[k + 1][i]
    <3> DEFINE here == index \div 2^k
               above == index \div 2^(k + 1)
    <3>1. here = 2 * above + Bit(index, k) /\ Bit(index, k) \in {0, 1} /\ above \in Nat
      <4>1. index \in Nat
        BY TreeShape
      <4> QED  BY <2>1, <4>1, Ancestor
    <3>2. i \in Nat /\ i # above
      BY <2>1, <2>2, Widths
    <3>3. here # 2 * i /\ here # 2 * i + 1
      <4> HIDE DEF here, above
      <4> QED  BY <3>1, <3>2
    <3>4. /\ 2 * i \in 0 .. Width(k) - 1 /\ 2 * i + 1 \in 0 .. Width(k) - 1
          /\ Levels(after)[k + 1][i] = H2(Levels(after)[k][2 * i], Levels(after)[k][2 * i + 1])
          /\ Levels(before)[k + 1][i] = H2(Levels(before)[k][2 * i], Levels(before)[k][2 * i + 1])
      BY <2>1, NodeOfChildren
    <3>5. \A c \in 0 .. Width(k) - 1 : c # here => Levels(after)[k][c] = Levels(before)[k][c]
      BY <1>2
    <3> HIDE DEF here
    <3>6. /\ Levels(after)[k][2 * i] = Levels(before)[k][2 * i]
          /\ Levels(after)[k][2 * i + 1] = Levels(before)[k][2 * i + 1]
      BY <3>3, <3>4, <3>5
    <3> QED  BY <3>4, <3>6
  <2>3. Same(k + 1)
    BY <2>2
  <2> HIDE DEF Same
  <2> QED  BY <2>1, <2>3
<1> HIDE DEF S
<1>3. 0 .. TREE_DEPTH \subseteq S
  BY <1>1, <1>2, Upward, TreeShape
<1>4. Same(d)
  BY <1>3 DEF S
<1> QED  BY <1>4

\* No leaf below the nodes from `from` on, at each depth.
EmptyFrom(leaves, from) ==
  /\ from \in [0 .. TREE_DEPTH -> Nat]
  /\ \A d \in Depths : 2 * from[d + 1] >= from[d]
  /\ \A i \in 0 .. TREE_CAPACITY - 1 : i >= from[0] => PaddedLeaves(leaves)[i] = Zero

\* A subtree without leaves has the root of the empty subtree of its height.
LEMMA EmptyNodes ==
  ASSUME NEW leaves, NEW zero, NEW from, EmptySubtrees(zero), EmptyFrom(leaves, from)
  PROVE  \A d \in 0 .. TREE_DEPTH : \A j \in 0 .. Width(d) - 1 :
           j >= from[d] => Levels(leaves)[d][j] = zero[d]
<1> DEFINE Empty(k) == \A i \in 0 .. Width(k) - 1 : i >= from[k] => Levels(leaves)[k][i] = zero[k]
           S == {k \in 0 .. TREE_DEPTH : Empty(k)}
<1>1. 0 \in S
  <2>1. Width(0) = TREE_CAPACITY
    BY Widths
  <2>2. Empty(0)
    BY <2>1, LevelsRecursion DEF EmptySubtrees, EmptyFrom
  <2> QED  BY <2>2, TreeShape
<1>2. ASSUME NEW k \in 0 .. TREE_DEPTH - 1, k \in S  PROVE k + 1 \in S
  <2>1. k \in Depths /\ k + 1 \in 0 .. TREE_DEPTH /\ k \in 0 .. TREE_DEPTH
    BY TreeShape DEF Depths
  <2>2. ASSUME NEW i \in 0 .. Width(k + 1) - 1, i >= from[k + 1]
        PROVE  Levels(leaves)[k + 1][i] = zero[k + 1]
    <3>1. /\ 2 * i \in 0 .. Width(k) - 1 /\ 2 * i + 1 \in 0 .. Width(k) - 1
          /\ Levels(leaves)[k + 1][i] = H2(Levels(leaves)[k][2 * i], Levels(leaves)[k][2 * i + 1])
      BY <2>1, NodeOfChildren
    <3>2. 2 * from[k + 1] >= from[k] /\ from[k] \in Nat /\ from[k + 1] \in Nat /\ i \in Nat
      <4>1. Width(k + 1) \in Nat
        BY <2>1, Widths
      <4> QED  BY <2>1, <2>2, <4>1 DEF EmptyFrom
    <3>3. 2 * i >= from[k] /\ 2 * i + 1 >= from[k]
      BY <2>2, <3>2
    <3>4. \A c \in 0 .. Width(k) - 1 : c >= from[k] => Levels(leaves)[k][c] = zero[k]
      BY <1>2
    <3>5. Levels(leaves)[k][2 * i] = zero[k] /\ Levels(leaves)[k][2 * i + 1] = zero[k]
      BY <3>1, <3>3, <3>4
    <3>6. zero[k + 1] = H2(zero[k], zero[k])
      BY <2>1 DEF EmptySubtrees
    <3> QED  BY <3>1, <3>5, <3>6
  <2>3. Empty(k + 1)
    BY <2>2
  <2> HIDE DEF Empty
  <2> QED  BY <2>1, <2>3
<1> HIDE DEF S
<1>3. 0 .. TREE_DEPTH \subseteq S
  BY <1>1, <1>2, Upward, TreeShape
<1> QED  BY <1>3 DEF S

\* The tree of no leaves.
LEMMA EmptyTree ==
  ASSUME NEW leaves, DOMAIN leaves = {}, NEW zero, EmptySubtrees(zero)
  PROVE  Root(leaves) = zero[TREE_DEPTH]
<1> DEFINE from == [d \in 0 .. TREE_DEPTH |-> 0]
<1>1. /\ from \in [0 .. TREE_DEPTH -> Nat]
      /\ \A d \in 0 .. TREE_DEPTH : from[d] = 0
      /\ \A d \in Depths : 2 * from[d + 1] >= from[d]
  BY TreeShape DEF Depths
<1>2. \A i \in 0 .. TREE_CAPACITY - 1 : PaddedLeaves(leaves)[i] = Zero
  BY DEF PaddedLeaves
<1>3. TREE_DEPTH \in 0 .. TREE_DEPTH /\ 0 \in 0 .. Width(TREE_DEPTH) - 1
  BY Widths, TreeShape
<1> HIDE DEF from
<1>4. Levels(leaves)[TREE_DEPTH][0] = zero[TREE_DEPTH]
  <2>1. 0 >= from[TREE_DEPTH]
    BY <1>1, <1>3
  <2>2. EmptyFrom(leaves, from)
    BY <1>1, <1>2 DEF EmptyFrom
  <2> QED  BY <1>3, <2>1, <2>2, EmptyNodes
<1> QED  BY <1>4 DEF Root

\* Every node past the ancestors of the first free leaf is empty.
LEMMA RightSiblingIsEmpty ==
  ASSUME NEW leaves, NEW zero, EmptySubtrees(zero), NEW count \in 0 .. TREE_CAPACITY - 1,
         \A i \in 0 .. TREE_CAPACITY - 1 : i > count => PaddedLeaves(leaves)[i] = Zero
  PROVE  \A d \in 0 .. TREE_DEPTH :
           (count \div 2^d) + 1 \in 0 .. Width(d) - 1 =>
             Levels(leaves)[d][(count \div 2^d) + 1] = zero[d]
<1> DEFINE from == [k \in 0 .. TREE_DEPTH |-> (count \div 2^k) + 1]
<1>1. \A k \in 0 .. TREE_DEPTH : count \div 2^k \in Nat
  <2>1. count \in Nat
    BY TreeShape
  <2> QED  BY <2>1, Quotient, PowersOfTwo
<1>2. from \in [0 .. TREE_DEPTH -> Nat]
  BY <1>1
<1>3. \A k \in Depths : 2 * from[k + 1] >= from[k]
  <2> TAKE k \in Depths
  <2>1. k \in 0 .. TREE_DEPTH /\ k + 1 \in 0 .. TREE_DEPTH
    BY TreeShape DEF Depths
  <2>2. /\ count \div 2^k = 2 * (count \div 2^(k + 1)) + Bit(count, k)
        /\ Bit(count, k) \in {0, 1} /\ count \div 2^(k + 1) \in Nat
    BY Ancestor, TreeShape
  <2>3. from[k] = (count \div 2^k) + 1 /\ from[k + 1] = (count \div 2^(k + 1)) + 1
    BY <2>1
  <2> HIDE DEF from
  <2> QED  BY <2>2, <2>3
<1>4. from[0] = count + 1
  BY LeafIsItsAncestor, TreeShape
<1>5. \A d \in 0 .. TREE_DEPTH : from[d] = (count \div 2^d) + 1 /\ from[d] \in Nat
  BY <1>2
<1> HIDE DEF from
<1>6. \A i \in 0 .. TREE_CAPACITY - 1 : i >= from[0] => PaddedLeaves(leaves)[i] = Zero
  BY <1>4, TreeShape
<1>7. \A d \in 0 .. TREE_DEPTH : \A j \in 0 .. Width(d) - 1 :
        j >= from[d] => Levels(leaves)[d][j] = zero[d]
  <2>1. EmptyFrom(leaves, from)
    BY <1>2, <1>3, <1>6 DEF EmptyFrom
  <2> QED  BY <2>1, EmptyNodes
<1> TAKE d \in 0 .. TREE_DEPTH
<1>8. \A j \in 0 .. Width(d) - 1 : j = from[d] => Levels(leaves)[d][j] = zero[d]
  BY <1>5, <1>7
<1> QED  BY <1>5, <1>8, Zenon

\* `after` is `before` with one more leaf.
Appended(before, after, count) ==
  /\ count \in 0 .. TREE_CAPACITY - 1
  /\ \A i \in 0 .. TREE_CAPACITY - 1 :
       /\ i # count => PaddedLeaves(after)[i] = PaddedLeaves(before)[i]
       /\ i > count => PaddedLeaves(after)[i] = Zero

\* The loop of an incremental insertion: an empty subtree on the right of a left
\* child, the frontier on the left of a right child.
Inserts(f, leaf, count, zero, filled) ==
  /\ f[0] = leaf
  /\ \A d \in Depths : f[d + 1] = IF Bit(count, d) = 0 THEN H2(f[d], zero[d])
                                                       ELSE H2(filled[d], f[d])

LEMMA NewNodes ==
  ASSUME NEW before, NEW after, NEW count, Appended(before, after, count),
         NEW d \in Depths
  PROVE  LET here == count \div 2^d
         IN  /\ Bit(count, d) = 1 =>
                  Levels(after)[d][here - 1] = Levels(before)[d][here - 1]
             /\ \A zero : EmptySubtrees(zero) /\ Bit(count, d) = 0 =>
                  Levels(after)[d][here + 1] = zero[d]
<1> DEFINE here == count \div 2^d
<1>1. count \in 0 .. TREE_CAPACITY - 1 /\ count \in Nat /\ d \in 0 .. TREE_DEPTH
  BY TreeShape DEF Appended, Depths
<1>2. /\ here \in 0 .. Width(d) - 1
      /\ Sibling(here) \in 0 .. Width(d) - 1
      /\ Sibling(here) = IF Bit(count, d) = 1 THEN here - 1 ELSE here + 1
  BY <1>1, NodeAbove
<1>3. Width(d) \in Nat
  BY <1>1, Widths
<1>4. ASSUME Bit(count, d) = 1
      PROVE  Levels(after)[d][here - 1] = Levels(before)[d][here - 1]
  <2>1. here - 1 \in 0 .. Width(d) - 1
    BY <1>2, <1>4
  <2>2. \A i \in 0 .. TREE_CAPACITY - 1 :
          i # count => PaddedLeaves(after)[i] = PaddedLeaves(before)[i]
    BY DEF Appended
  <2>3. here - 1 # here
    <3> HIDE DEF here
    <3> QED  BY <1>2, <1>3
  <2>4. \A j \in 0 .. Width(d) - 1 : j # here => Levels(after)[d][j] = Levels(before)[d][j]
    BY <1>1, <2>2, OtherNodes
  <2> HIDE DEF here
  <2> QED  BY <2>1, <2>3, <2>4
<1>5. ASSUME NEW zero, EmptySubtrees(zero), Bit(count, d) = 0
      PROVE  Levels(after)[d][here + 1] = zero[d]
  <2>1. \A i \in 0 .. TREE_CAPACITY - 1 : i > count => PaddedLeaves(after)[i] = Zero
    BY DEF Appended
  <2>2. here + 1 \in 0 .. Width(d) - 1
    BY <1>2, <1>5
  <2> QED  BY <1>1, <1>5, <2>1, <2>2, RightSiblingIsEmpty
<1> QED  BY <1>4, <1>5

\* What the loop carries is, at each depth, the new leaf's ancestor.
LEMMA InsertionFollowsTheTree ==
  ASSUME NEW before, NEW after, NEW count, NEW zero, NEW filled, NEW f,
         Appended(before, after, count), EmptySubtrees(zero), Frontier(filled, before, count),
         Inserts(f, PaddedLeaves(after)[count], count, zero, filled)
  PROVE  \A d \in 0 .. TREE_DEPTH : f[d] = Levels(after)[d][count \div 2^d]
<1> DEFINE S == {d \in 0 .. TREE_DEPTH : f[d] = Levels(after)[d][count \div 2^d]}
<1>1. count \in 0 .. TREE_CAPACITY - 1 /\ count \in Nat
  BY TreeShape DEF Appended
<1>2. 0 \in S
  <2>1. count \div 2^0 = count
    BY <1>1, LeafIsItsAncestor
  <2> QED  BY <2>1, LevelsRecursion, TreeShape DEF Inserts
<1>3. ASSUME NEW d \in 0 .. TREE_DEPTH - 1, d \in S  PROVE d + 1 \in S
  <2> DEFINE here  == count \div 2^d
             above == Levels(after)[d + 1][count \div 2^(d + 1)]
  <2>1. d \in Depths /\ d + 1 \in 0 .. TREE_DEPTH
    BY TreeShape DEF Depths
  <2>2. /\ above = IF Bit(count, d) = 1
                   THEN H2(Levels(after)[d][Sibling(here)], Levels(after)[d][here])
                   ELSE H2(Levels(after)[d][here], Levels(after)[d][Sibling(here)])
        /\ Sibling(here) = IF Bit(count, d) = 1 THEN here - 1 ELSE here + 1
    BY <1>1, <2>1, NodeAbove
  <2>3. f[d] = Levels(after)[d][here]
    BY <1>3
  <2>4. /\ Bit(count, d) = 1 => Levels(after)[d][here - 1] = Levels(before)[d][here - 1]
        /\ Bit(count, d) = 0 => Levels(after)[d][here + 1] = zero[d]
    BY <2>1, NewNodes
  <2>5. Bit(count, d) = 1 => filled[d] = Levels(before)[d][here - 1]
    BY <2>1 DEF Frontier
  <2>6. f[d + 1] = IF Bit(count, d) = 0 THEN H2(f[d], zero[d]) ELSE H2(filled[d], f[d])
    BY <2>1 DEF Inserts
  <2>7. Bit(count, d) \in {0, 1}
    BY <1>1, <2>1, Ancestor
  <2> HIDE DEF here, above
  <2>8. f[d + 1] = above
    <3>1. CASE Bit(count, d) = 1
      BY <2>2, <2>3, <2>4, <2>5, <2>6, <3>1
    <3>2. CASE Bit(count, d) = 0
      BY <2>2, <2>3, <2>4, <2>6, <3>2
    <3> QED  BY <2>7, <3>1, <3>2
  <2> QED  BY <2>1, <2>8 DEF above
<1> HIDE DEF S
<1>4. 0 .. TREE_DEPTH \subseteq S
  BY <1>2, <1>3, Upward, TreeShape
<1> QED  BY <1>4 DEF S

\* The new frontier: where the new leaf's ancestor is a left child, that ancestor.
LEMMA NextFrontier ==
  ASSUME NEW before, NEW after, NEW count, NEW filled, NEW f,
         Appended(before, after, count), Frontier(filled, before, count),
         \A d \in 0 .. TREE_DEPTH : f[d] = Levels(after)[d][count \div 2^d]
  PROVE  Frontier([d \in Depths |-> IF Bit(count, d) = 0 THEN f[d] ELSE filled[d]], after, count + 1)
<1> SUFFICES ASSUME NEW d \in Depths, Bit(count + 1, d) = 1
             PROVE  (IF Bit(count, d) = 0 THEN f[d] ELSE filled[d]) =
                      Levels(after)[d][((count + 1) \div 2^d) - 1]
  BY DEF Frontier
<1> DEFINE here == count \div 2^d
           next == (count + 1) \div 2^d
<1>1. count \in Nat /\ count + 1 \in Nat /\ d \in 0 .. TREE_DEPTH
  BY TreeShape DEF Appended, Depths
<1>2. here \in Nat /\ Bit(count, d) \in {0, 1} /\ Bit(count, d) = here % 2
  BY <1>1, Ancestor
<1>3. next \in Nat /\ next % 2 = 1
  BY <1>1, Ancestor
<1>4. next = here \/ next = here + 1
  BY <1>1, PowersOfTwo, NextQuotient
<1>5. CASE Bit(count, d) = 0
  <2>1. next - 1 = here
    <3> HIDE DEF here, next
    <3> QED  BY <1>2, <1>3, <1>4, <1>5
  <2>2. f[d] = Levels(after)[d][here]
    BY <1>1
  <2> HIDE DEF here, next
  <2> QED  BY <1>5, <2>1, <2>2 DEF next
<1>6. CASE Bit(count, d) = 1
  <2>1. next = here
    <3> HIDE DEF here, next
    <3> QED  BY <1>2, <1>3, <1>4, <1>6
  <2>2. filled[d] = Levels(before)[d][here - 1]
    BY <1>6 DEF Frontier
  <2>3. Levels(after)[d][here - 1] = Levels(before)[d][here - 1]
    BY <1>6, NewNodes
  <2> HIDE DEF here, next
  <2> QED  BY <1>6, <2>1, <2>2, <2>3 DEF next
<1> QED  BY <1>2, <1>5, <1>6
=============================================================================
