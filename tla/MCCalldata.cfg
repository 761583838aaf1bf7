SPECIFICATION CallSpec
\* The changes are bounded.
CHECK_DEADLOCK FALSE
CONSTANTS
  BYTES = 3
  WORD_BYTES = 2
  MODULUS = 5
  PUBLIC_INPUTS = 2
  USIZE_MAX = 15
  PROOF_SCALARS = 2
  MAX_LINES = 6
  SELECTOR = 2
  ValidProof <- MixedProof
  MAX_CHANGES = 3
INVARIANTS
  DecodingIsCanonical
  EncodedIsAccepted
  PoolAgreesWithRust
