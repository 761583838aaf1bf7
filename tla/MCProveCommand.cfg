CONSTANTS
  Zero = Zero
  PROTOCOL_TAG = PROTOCOL_TAG
  n1 = n1
  n2 = n2
  s1 = s1
  alice = alice
  homeChain = homeChain
  pool = pool
  v1 = v1
  other = other
  TREE_DEPTH = 1
  TREE_CAPACITY = 2
  MAX_WRAPS = 0
  Overrides = {Zero, other}
  MAX_RUNS = 2
  Requests <- MCRequests
SPECIFICATION Spec
\* The number of runs is bounded.
CHECK_DEADLOCK FALSE
INVARIANTS
  OutputsAreWithdrawable
  SuccessIsFresh
  ReturnedProofsVerify
