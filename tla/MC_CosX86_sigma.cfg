\* The power-of-two claim of the spec's data model, for the entries the
\* fast path selects.
CONSTANT HighWords <- MC_HighWords
SPECIFICATION Spec
CHECK_DEADLOCK FALSE
INVARIANTS
  SigmaIsPowerOfTwo
