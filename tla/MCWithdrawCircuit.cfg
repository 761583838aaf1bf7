SPECIFICATION Spec
\* The instance is exposed, or no value satisfies the next gate.
CHECK_DEADLOCK FALSE
CONSTANTS
  MODULUS = 3
  TREE_DEPTH = 2
  BITS = 1
  Weight <- PowersOfTwo
  HashOne <- OneInput
  Hash <- TwoInputs
INVARIANTS
  OnlyNativeStatements
  SynthesisDecides
