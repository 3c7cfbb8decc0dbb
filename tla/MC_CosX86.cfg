\* cos(x) and cos(-x) for every top-16-bit pattern of x; each pair of calls
\* ends once both have returned.
CONSTANTS
  HighWords <- MC_HighWords

SPECIFICATION Spec
CHECK_DEADLOCK FALSE

INVARIANTS
  TypeOK
  DispatchMatchesMagnitude
  NKeepsProductsExact
  CosIsEven
