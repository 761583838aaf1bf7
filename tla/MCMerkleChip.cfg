SPECIFICATION Spec
\* The last level is the last row.
CHECK_DEADLOCK FALSE
CONSTANTS
  MODULUS = 5
  TREE_DEPTH = 2
  Hash <- LinearHash
INVARIANTS
  TypeOK
  OnlyNativePaths
  ComputeRootSatisfies
