SPECIFICATION Spec
\* The last round is the last row.
CHECK_DEADLOCK FALSE
CONSTANTS
  MODULUS = 7
  FULL_ROUNDS = 2
  PARTIAL_ROUNDS <- PartialRounds
  ARK <- RoundConstants
  MDS <- Matrices
  SPIKE_ROUNDS = 4
  SPIKE_HALF = 1
  SPIKE_PARTIAL_END = 3
INVARIANTS
  OnlyNativeDigests
  HashSatisfies
  ContractComputesTheDigest
  SpikeHasTheSameHash
