\* The preconditions of __rem_pio2_large at its call on the large path.
CONSTANT Inputs <- MC_Inputs
SPECIFICATION Spec
CHECK_DEADLOCK FALSE
INVARIANTS
  LargeCallContract
