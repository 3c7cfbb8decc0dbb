\* cosh and tanh of x and -x, in a build where long double is double
\* (32-bit ARM) and in one where it is the 80-bit x87 format (x86, x86_64);
\* each pair of calls ends once all four have returned.
CONSTANTS
  Magnitudes <- MC_Magnitudes
  Builds = {"double", "x87"}

SPECIFICATION Spec
CHECK_DEADLOCK FALSE

INVARIANTS
  TypeOK
  CoshSpecialValues
  TanhSign
