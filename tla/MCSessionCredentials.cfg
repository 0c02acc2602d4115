SPECIFICATION Spec
CONSTANTS
  Calls = {c1}
  MaxRetries = 0
INVARIANT ClientCredentialsUsed
SYMMETRY CallSymmetry
CHECK_DEADLOCK FALSE
