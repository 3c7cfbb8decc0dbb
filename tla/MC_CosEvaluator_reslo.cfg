\* The summands of the low part against the list of section 4.4.
CONSTANTS
  Indices <- MC_Indices
  MaxR8 <- MC_MaxR8

SPECIFICATION Spec
CHECK_DEADLOCK FALSE

INVARIANTS
  ResLoAsSpecified
