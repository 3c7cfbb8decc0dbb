\* Every exponent, both signs, the medium/large boundary and inputs where
\* 17 to 49 or more bits cancel; each call is one step and the model stops
\* after it.
CONSTANT Inputs <- MC_Inputs
SPECIFICATION Spec
CHECK_DEADLOCK FALSE
INVARIANTS
  TypeOK
  ReductionExact
  ReductionAccurate
  RemainderInRange
  LargeReturnsResult
