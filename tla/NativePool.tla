----------------------------- MODULE NativePool -----------------------------
(***************************************************************************)
(* The native simulation of the pool, src/pool.rs: one tree, every root it *)
(* ever had, every nullifier hash spent.  It has one owner (&mut self), so *)
(* its calls do not interleave.  A call that returns an error changes      *)
(* nothing; `result` is what the last call returned.                       *)
(***************************************************************************)
EXTENDS Merkle, Sequences

CONSTANTS
  LeafValues,   \* commitments deposited
  Hashes        \* nullifier hashes recorded

VARIABLES leaves, known_roots, spent_nullifier_hashes, result

nativeVars == <<leaves, known_roots, spent_nullifier_hashes, result>>

Results == {"Ok", "TreeFull", "UnknownRoot", "NullifierAlreadySpent"}

NoLeaves == [index \in {} |-> Zero]

\* Pool::new
New ==
  /\ leaves = NoLeaves
  /\ known_roots = <<Root(NoLeaves)>>
  /\ spent_nullifier_hashes = <<>>
  /\ result = "Ok"

\* derive(Default): an empty tree whose root is not recorded
Default ==
  /\ leaves = NoLeaves
  /\ known_roots = <<>>
  /\ spent_nullifier_hashes = <<>>
  /\ result = "Ok"

is_known_root(root) == \E n \in DOMAIN known_roots : known_roots[n] = root

is_spent_nullifier(hash) ==
  \E n \in DOMAIN spent_nullifier_hashes : spent_nullifier_hashes[n] = hash

\* Variant: no check that the tree is full.
Insert_Unchecked(leaf) ==
  leaves' = [index \in 0 .. Length(leaves) |->
               IF index = Length(leaves) THEN leaf ELSE leaves[index]]

\* MerkleTree::insert
Insert(leaf) ==
  /\ Length(leaves) # TREE_CAPACITY
  /\ leaves' = [index \in 0 .. Length(leaves) |->
                  IF index = Length(leaves) THEN leaf ELSE leaves[index]]

\* Variant: the root is recorded before the leaf is inserted.
deposit_RootFirst(commitment) ==
  \/ /\ Insert(commitment)
     /\ known_roots' = Append(known_roots, Root(leaves))
     /\ result' = "Ok"
     /\ UNCHANGED spent_nullifier_hashes
  \/ /\ Length(leaves) = TREE_CAPACITY
     /\ result' = "TreeFull"
     /\ UNCHANGED <<leaves, known_roots, spent_nullifier_hashes>>

deposit(commitment) ==
  \/ /\ Insert(commitment)
     /\ known_roots' = Append(known_roots, Root(leaves'))
     /\ result' = "Ok"
     /\ UNCHANGED spent_nullifier_hashes
  \/ /\ Length(leaves) = TREE_CAPACITY
     /\ result' = "TreeFull"
     /\ UNCHANGED <<leaves, known_roots, spent_nullifier_hashes>>

\* Variant: the hash is recorded without a look at those already spent.
record_withdrawal_Unchecked(root, nullifier_hash) ==
  /\ \/ /\ ~is_known_root(root)
        /\ result' = "UnknownRoot"
        /\ UNCHANGED spent_nullifier_hashes
     \/ /\ is_known_root(root)
        /\ spent_nullifier_hashes' = Append(spent_nullifier_hashes, nullifier_hash)
        /\ result' = "Ok"
  /\ UNCHANGED <<leaves, known_roots>>

record_withdrawal(root, nullifier_hash) ==
  /\ \/ /\ ~is_known_root(root)
        /\ result' = "UnknownRoot"
        /\ UNCHANGED spent_nullifier_hashes
     \/ /\ is_known_root(root)
        /\ is_spent_nullifier(nullifier_hash)
        /\ result' = "NullifierAlreadySpent"
        /\ UNCHANGED spent_nullifier_hashes
     \/ /\ is_known_root(root)
        /\ ~is_spent_nullifier(nullifier_hash)
        /\ spent_nullifier_hashes' = Append(spent_nullifier_hashes, nullifier_hash)
        /\ result' = "Ok"
  /\ UNCHANGED <<leaves, known_roots>>

\* A caller may bring the root of any list: an older one, or one never known.
FirstLeaves(list, count) == [index \in 0 .. count - 1 |-> list[index]]
OtherTree(value) == [index \in {0} |-> value]

CandidateRoots ==
  {Root(FirstLeaves(leaves, count)) : count \in 0 .. Length(leaves)} \union
  {Root(OtherTree(value)) : value \in LeafValues}

SomeDeposit == \E commitment \in LeafValues : deposit(commitment)

SomeWithdrawal ==
  \E root \in CandidateRoots, hash \in Hashes : record_withdrawal(root, hash)

Next == SomeDeposit \/ SomeWithdrawal

Spec == (New \/ Default) /\ [][Next]_nativeVars

-----------------------------------------------------------------------------
(* Properties *)

\* The pool's lists keep their shape: one root per deposit, and for Pool::new one
\* more; a Vec of leaves no longer than the tree.
TypeOK ==
  /\ Length(leaves) \in 0 .. TREE_CAPACITY
  /\ DOMAIN leaves = 0 .. Length(leaves) - 1
  /\ \A index \in DOMAIN leaves : leaves[index] \in LeafValues
  /\ Len(known_roots) - Length(leaves) \in {0, 1}
  /\ \A n \in DOMAIN spent_nullifier_hashes : spent_nullifier_hashes[n] \in Hashes
  /\ result \in Results

\* known_roots is the tree's history: its n-th root from the end is the root the
\* first Length(leaves) - n leaves had (pool.rs:36-46). A pool made by default()
\* never learns the root of its empty tree; nothing else is missing.
RootsAreTheHistory ==
  LET older == Len(known_roots) - Length(leaves)
  IN  \A n \in DOMAIN known_roots : known_roots[n] = Root(FirstLeaves(leaves, n - older))

\* A hash is recorded once, whatever mix of roots it comes with (pool.rs:60-72).
SpentOnce ==
  \A m, n \in DOMAIN spent_nullifier_hashes :
    spent_nullifier_hashes[m] = spent_nullifier_hashes[n] => m = n

\* Every leaf's path leads to the tree's root (merkle.rs:53-98), for full and
\* for partly filled trees.
PathsReachTheRoot ==
  \A index \in DOMAIN leaves :
    ComputeRoot(Prove(leaves, index), leaves[index]) = Root(leaves)

\* A path carries no value but its own leaf to a known root: the padding zero
\* aside, which stood in the leaf's place before it.
PathsBindTheLeaf ==
  \A index \in DOMAIN leaves, value \in LeafValues \ {Zero} :
    is_known_root(ComputeRoot(Prove(leaves, index), value)) => value = leaves[index]
=============================================================================
