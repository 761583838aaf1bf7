-------------------------- MODULE NativePoolProofs --------------------------
(***************************************************************************)
(* What holds of NativePool for every depth, every set of leaves and every *)
(* order of calls, whichever of the two constructors made the pool.        *)
(***************************************************************************)
EXTENDS NativePool, MerkleProofs

\* The list of leaves has n entries, and known_roots the roots of its prefixes.
Grown(n) ==
  /\ n \in 0 .. TREE_CAPACITY
  /\ DOMAIN leaves = 0 .. n - 1
  /\ \A index \in DOMAIN leaves : leaves[index] \in LeafValues
  /\ \E S : known_roots \in Seq(S)
  /\ Len(known_roots) - n \in {0, 1}
  /\ \A m \in 1 .. Len(known_roots) :
       known_roots[m] = Root(FirstLeaves(leaves, m - (Len(known_roots) - n)))

Recorded ==
  /\ spent_nullifier_hashes \in Seq(Hashes)
  /\ SpentOnce
  /\ result \in Results

Inv == (\E n \in Nat : Grown(n)) /\ Recorded

LEMMA EmptyList == DOMAIN NoLeaves = 0 .. 0 - 1 /\ FirstLeaves(NoLeaves, 0) = NoLeaves
  BY DEF NoLeaves, FirstLeaves

LEMMA AtMostOne ==
  ASSUME NEW value
  PROVE  /\ <<value>> \in Seq({value}) /\ Len(<<value>>) = 1 /\ <<value>>[1] = value
         /\ <<>> \in Seq({value}) /\ Len(<<>>) = 0
  OBVIOUS

LEMMA InitInv == New \/ Default => Inv
<1> SUFFICES ASSUME New \/ Default  PROVE Inv
  OBVIOUS
<1>1. leaves = NoLeaves /\ spent_nullifier_hashes = <<>> /\ result = "Ok"
  BY DEF New, Default
<1>2. Recorded
  BY <1>1 DEF Recorded, SpentOnce, Results
<1>3. known_roots = <<Root(NoLeaves)>> \/ known_roots = <<>>
  BY DEF New, Default
<1>4. Grown(0)
  <2>1. \E S : known_roots \in Seq(S)
    BY <1>3, AtMostOne
  <2>2. /\ Len(known_roots) = 0 \/ Len(known_roots) = 1
        /\ Len(known_roots) = 1 => known_roots[1] = Root(NoLeaves)
    BY <1>3, AtMostOne
  <2>3. DOMAIN leaves = 0 .. 0 - 1 /\ DOMAIN leaves = {}
    BY <1>1 DEF NoLeaves
  <2>4. 0 \in 0 .. TREE_CAPACITY
    BY TreeShape
  <2>5. \A m \in 1 .. Len(known_roots) : Len(known_roots) = 1 /\ m - (Len(known_roots) - 0) = 0
    <3>1. ASSUME NEW k \in {0, 1}, NEW m \in 1 .. k  PROVE k = 1 /\ m - (k - 0) = 0
      OBVIOUS
    <3> QED  BY <2>2, <3>1
  <2> QED  BY <2>1, <2>2, <2>3, <2>4, <2>5, EmptyList DEF Grown
<1> QED  BY <1>2, <1>4 DEF Inv

LEMMA DepositGrows ==
  ASSUME NEW n \in Nat, Grown(n), NEW commitment \in LeafValues, Insert(commitment),
         known_roots' = Append(known_roots, Root(leaves'))
  PROVE  Grown(n + 1)'
<1> DEFINE k == Len(known_roots)
<1>1. PICK S : known_roots \in Seq(S)
  BY DEF Grown
<1>2. Length(leaves) = n
  BY LengthOfList DEF Grown
<1>3. /\ n # TREE_CAPACITY
      /\ leaves' = [index \in 0 .. n |-> IF index = n THEN commitment ELSE leaves[index]]
  BY <1>2 DEF Insert
<1>4. /\ n + 1 \in 0 .. TREE_CAPACITY
      /\ DOMAIN leaves' = 0 .. (n + 1) - 1
      /\ \A index \in DOMAIN leaves' : leaves'[index] \in LeafValues
  <2>1. n \in 0 .. TREE_CAPACITY /\ DOMAIN leaves = 0 .. n - 1
    BY DEF Grown
  <2>2. n + 1 \in 0 .. TREE_CAPACITY /\ (n + 1) - 1 = n
    BY <1>3, <2>1, TreeShape
  <2>3. \A index \in 0 .. n : index = n \/ index \in 0 .. n - 1
    OBVIOUS
  <2> QED  BY <1>3, <2>1, <2>2, <2>3 DEF Grown
<1>5. /\ \E T : known_roots' \in Seq(T)
      /\ Len(known_roots') = k + 1
      /\ known_roots'[k + 1] = Root(leaves')
      /\ \A m \in 1 .. k : known_roots'[m] = known_roots[m]
  <2>1. known_roots \in Seq(S \union {Root(leaves')})
    BY <1>1
  <2> HIDE DEF k
  <2>2. known_roots' \in Seq(S \union {Root(leaves')})
    BY <2>1
  <2> QED  BY <2>1, <2>2 DEF k
<1>6. k \in Nat /\ k - n \in {0, 1}
  BY <1>1 DEF Grown
<1>7. \A count \in Int : count <= n => FirstLeaves(leaves', count) = FirstLeaves(leaves, count)
  BY <1>3 DEF FirstLeaves
<1>8. FirstLeaves(leaves', n + 1) = leaves'
  BY <1>3 DEF FirstLeaves
<1> HIDE DEF k
<1>9. ASSUME NEW m \in 1 .. k + 1
      PROVE  known_roots'[m] = Root(FirstLeaves(leaves', m - ((k + 1) - (n + 1))))
  <2>1. CASE m = k + 1
    <3>1. m - ((k + 1) - (n + 1)) = n + 1
      BY <1>6, <2>1
    <3> QED  BY <1>5, <1>8, <2>1, <3>1
  <2>2. CASE m \in 1 .. k
    <3>1. known_roots[m] = Root(FirstLeaves(leaves, m - (k - n)))
      BY <2>2 DEF Grown, k
    <3>2. /\ m - ((k + 1) - (n + 1)) = m - (k - n)
          /\ m - (k - n) \in Int /\ m - (k - n) <= n
      BY <1>6, <2>2
    <3> QED  BY <1>5, <1>7, <2>2, <3>1, <3>2
  <2>3. m = k + 1 \/ m \in 1 .. k
    BY <1>6
  <2> QED  BY <2>1, <2>2, <2>3
<1>10. Len(known_roots') - (n + 1) \in {0, 1}
  BY <1>5, <1>6
<1> QED  BY <1>4, <1>5, <1>9, <1>10 DEF Grown

LEMMA NextInv == Inv /\ [Next]_nativeVars => Inv'
<1> SUFFICES ASSUME Inv, [Next]_nativeVars  PROVE Inv'
  OBVIOUS
<1>1. PICK n \in Nat : Grown(n)
  BY DEF Inv
<1>2. CASE SomeDeposit
  <2>1. PICK commitment \in LeafValues : deposit(commitment)
    BY <1>2 DEF SomeDeposit
  <2>2. Recorded'
    BY <2>1 DEF deposit, Inv, Recorded, SpentOnce, Results
  <2>3. CASE Insert(commitment) /\ known_roots' = Append(known_roots, Root(leaves'))
    <3>1. Grown(n + 1)' /\ n + 1 \in Nat
      BY <1>1, <2>3, DepositGrows
    <3> QED  BY <2>2, <3>1 DEF Inv
  <2>4. CASE UNCHANGED <<leaves, known_roots>>
    BY <1>1, <2>2, <2>4 DEF Inv, Grown
  <2> QED  BY <2>1, <2>3, <2>4 DEF deposit
<1>3. CASE SomeWithdrawal
  <2>1. PICK root \in CandidateRoots, hash \in Hashes : record_withdrawal(root, hash)
    BY <1>3 DEF SomeWithdrawal
  <2>2. UNCHANGED <<leaves, known_roots>>
    BY <2>1 DEF record_withdrawal
  <2>3. Recorded'
    <3>1. CASE UNCHANGED spent_nullifier_hashes
      BY <2>1, <3>1 DEF record_withdrawal, Inv, Recorded, SpentOnce, Results
    <3>2. CASE /\ ~is_spent_nullifier(hash)
               /\ spent_nullifier_hashes' = Append(spent_nullifier_hashes, hash)
      <4>1. spent_nullifier_hashes \in Seq(Hashes) /\ SpentOnce
        BY DEF Inv, Recorded
      <4>2. /\ spent_nullifier_hashes' \in Seq(Hashes)
            /\ DOMAIN spent_nullifier_hashes' =
                 DOMAIN spent_nullifier_hashes \union {Len(spent_nullifier_hashes) + 1}
            /\ spent_nullifier_hashes'[Len(spent_nullifier_hashes) + 1] = hash
            /\ \A m \in DOMAIN spent_nullifier_hashes :
                 spent_nullifier_hashes'[m] = spent_nullifier_hashes[m]
        BY <3>2, <4>1
      <4>3. SpentOnce'
        BY <3>2, <4>1, <4>2 DEF SpentOnce, is_spent_nullifier
      <4>4. result' \in Results
        BY <2>1 DEF record_withdrawal, Results
      <4> QED  BY <4>2, <4>3, <4>4 DEF Recorded
    <3> QED  BY <2>1, <3>1, <3>2 DEF record_withdrawal
  <2> QED  BY <1>1, <2>2, <2>3 DEF Inv, Grown
<1>4. CASE UNCHANGED nativeVars
  BY <1>1, <1>4 DEF nativeVars, Inv, Grown, Recorded, SpentOnce
<1> QED  BY <1>2, <1>3, <1>4 DEF Next

LEMMA Invariant == Spec => []Inv
  BY InitInv, NextInv, PTL DEF Spec

\* known_roots is the history of the tree, for every number of deposits.
THEOREM HistoryKept == Spec => []RootsAreTheHistory
<1>1. ASSUME Inv  PROVE RootsAreTheHistory
  <2>1. PICK n \in Nat : Grown(n)
    BY <1>1 DEF Inv
  <2>2. Length(leaves) = n /\ DOMAIN known_roots = 1 .. Len(known_roots)
    BY <2>1, LengthOfList DEF Grown
  <2> QED  BY <2>1, <2>2 DEF Grown, RootsAreTheHistory
<1> QED  BY <1>1, Invariant, PTL

\* No nullifier hash is recorded twice.
THEOREM RecordedOnce == Spec => []SpentOnce
<1>1. Inv => SpentOnce
  BY DEF Inv, Recorded
<1> QED  BY <1>1, Invariant, PTL

\* The lists of the native pool keep their shape.
THEOREM NativeTypeCorrect == Spec => []TypeOK
<1>1. ASSUME Inv  PROVE TypeOK
  <2>1. PICK n \in Nat : Grown(n)
    BY <1>1 DEF Inv
  <2>2. Length(leaves) = n
    BY <2>1, LengthOfList DEF Grown
  <2>3. \A m \in DOMAIN spent_nullifier_hashes : spent_nullifier_hashes[m] \in Hashes
    BY <1>1 DEF Inv, Recorded
  <2> QED  BY <1>1, <2>1, <2>2, <2>3 DEF Inv, Grown, Recorded, TypeOK
<1> QED  BY <1>1, Invariant, PTL

\* Every leaf has a path to the root, whatever the depth and however full the tree.
THEOREM EveryLeafHasAPath == Spec => []PathsReachTheRoot
<1>1. ASSUME Inv  PROVE PathsReachTheRoot
  <2> SUFFICES ASSUME NEW index \in DOMAIN leaves
               PROVE  ComputeRoot(Prove(leaves, index), leaves[index]) = Root(leaves)
    BY DEF PathsReachTheRoot
  <2>1. PICK n \in Nat : Grown(n)
    BY <1>1 DEF Inv
  <2>2. index \in 0 .. TREE_CAPACITY - 1
    BY <2>1, TreeShape DEF Grown
  <2>3. PaddedLeaves(leaves)[index] = leaves[index]
    BY <2>2 DEF PaddedLeaves
  <2> QED  BY <2>2, <2>3, PathOfALeafReachesTheRoot
<1> QED  BY <1>1, Invariant, PTL

\* No path made by the pool carries a value other than its leaf to a known root: a
\* root of the history is the root of a prefix, which has the leaf or a zero there.
THEOREM PathsCarryOnlyTheirLeaf == Spec => []PathsBindTheLeaf
<1>1. ASSUME Inv  PROVE PathsBindTheLeaf
  <2> SUFFICES ASSUME NEW index \in DOMAIN leaves, NEW value \in LeafValues \ {Zero},
                      is_known_root(ComputeRoot(Prove(leaves, index), value))
               PROVE  value = leaves[index]
    BY DEF PathsBindTheLeaf
  <2>1. PICK n \in Nat : Grown(n)
    BY <1>1 DEF Inv
  <2>2. index \in 0 .. TREE_CAPACITY - 1
    BY <2>1, TreeShape DEF Grown
  <2>3. PICK m \in DOMAIN known_roots : known_roots[m] = ComputeRoot(Prove(leaves, index), value)
    BY DEF is_known_root
  <2> DEFINE prefix == FirstLeaves(leaves, m - (Len(known_roots) - n))
  <2>4. known_roots[m] = Root(prefix)
    <3>1. m \in 1 .. Len(known_roots)
      BY <2>1 DEF Grown
    <3> QED  BY <2>1, <3>1 DEF Grown
  <2> DEFINE path == Prove(leaves, index)
  <2>5. \A d \in Depths : path.pathBits[d] <=> Bit(index, d) = 1
    BY DEF Prove
  <2>6. ComputeRoot(path, value) = Root(prefix)
    BY <2>3, <2>4
  <2>7. prefix = [i \in DOMAIN prefix |-> leaves[i]]
    BY DEF FirstLeaves
  <2> HIDE DEF path, prefix
  <2>8. value = PaddedLeaves(prefix)[index]
    BY <2>2, <2>5, <2>6, PathBindsItsLeaf
  <2> QED  BY <2>2, <2>7, <2>8 DEF PaddedLeaves
<1> QED  BY <1>1, Invariant, PTL
=============================================================================
