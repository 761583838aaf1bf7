CONSTANTS
  Zero = Zero
  PROTOCOL_TAG = PROTOCOL_TAG
  c1 = c1
  c2 = c2
  h1 = h1
  h2 = h2
  TREE_DEPTH = 2
  TREE_CAPACITY = 4
  LeafValues <- MCLeafValues
  Hashes <- MCHashes
SPECIFICATION Spec
INVARIANTS
  TypeOK
  RootsAreTheHistory
  SpentOnce
  PathsReachTheRoot
  PathsBindTheLeaf
