CONSTANTS
  Zero = Zero
  PROTOCOL_TAG = PROTOCOL_TAG
  n1 = n1
  n2 = n2
  s1 = s1
  s2 = s2
  alice = alice
  bob = bob
  homeChain = homeChain
  pool = pool
  v1 = v1
  TREE_DEPTH = 2
  TREE_CAPACITY = 4
  MAX_WRAPS = 0
  ROOT_HISTORY_SIZE = 2
  DENOMINATION = 1
  CALL_DEPTH_LIMIT = 2
  CallValues = {1}
  OtherLeaves = {}
  Accounts = {alice, bob}
  ForeignLists = {}
  Here <- MCHere
  Notes <- MCNotes
  Requests <- MCRequests
SPECIFICATION MirrorSpec
CHECK_DEADLOCK FALSE
INVARIANTS
  NativeAcceptsTheChain
  NativeMatchesTheChain
