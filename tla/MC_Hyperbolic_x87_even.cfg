\* cosh of x and -x where long double is the x87 80-bit format (x86, x86_64).
CONSTANTS
  Magnitudes <- MC_Magnitudes
  Builds = {"x87"}

SPECIFICATION Spec
CHECK_DEADLOCK FALSE

INVARIANTS
  CoshIsEven
