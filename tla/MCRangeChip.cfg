SPECIFICATION Spec
\* All rows are assigned, or no value satisfies the next gate.
CHECK_DEADLOCK FALSE
CONSTANTS
  MODULUS = 19
  BITS = 4
  Weight <- PowersOfTwo
INVARIANTS
  TypeOK
  RecipientFits
  OneDecomposition
  CheckDecides
