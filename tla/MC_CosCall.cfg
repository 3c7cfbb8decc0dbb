\* One call of cos per input, frame and table-path reduction together,
\* and the call of cos(-x); each ends once both calls have returned.
CONSTANT Inputs <- MC_CallInputs

SPECIFICATION CallSpec
CHECK_DEADLOCK FALSE

INVARIANTS
  TypeOK
  ReductionExact
  RemainderBound
  ReductionIsOdd
  FrameTypeOK
  ReturnsResult
  HugeCallABI
