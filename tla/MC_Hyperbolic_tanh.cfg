\* tanh against the method comment of s_tanh.c, for large and tiny x.
CONSTANTS
  Magnitudes <- MC_Magnitudes
  Builds = {"double"}

SPECIFICATION Spec
CHECK_DEADLOCK FALSE

INVARIANTS
  TanhAsCommented
