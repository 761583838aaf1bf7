CONSTANTS
  Zero = Zero
  PROTOCOL_TAG = PROTOCOL_TAG
  n1 = n1
  n2 = n2
  s1 = s1
  s2 = s2
  alice = alice
  bob = bob
  homeChain = homeChain
  fork = fork
  pool = pool
  v1 = v1
  TREE_DEPTH = 2
  TREE_CAPACITY = 4
  MAX_WRAPS = 1
  ROOT_HISTORY_SIZE = 3
  DENOMINATION = 2
  CALL_DEPTH_LIMIT = 2
  CallValues = {1, 2, 3}
  OtherLeaves = {Zero}
  Accounts = {alice, bob}
  Here <- MCHere
  Notes <- MCNotes
  Requests <- MCRequests
  ForeignLists <- MCForeignLists
SPECIFICATION Spec
CHECK_DEADLOCK FALSE
INVARIANTS
  TypeOK
  RootWindow
  TreeMatchesLog
  Conservation
  FundsForEveryUnspentNote
  NoteStaysWithdrawable
  OnePayoutPerNullifier
  PayoutsAuthorised
  LockTracksCall
PROPERTIES
  AtomicLedger
