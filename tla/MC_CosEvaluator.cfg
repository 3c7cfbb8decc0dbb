\* The evaluator of the table path, for every entry and every remainder
\* bound; a call ends once it has returned.
CONSTANTS
  Indices <- MC_Indices
  MaxR8 <- MC_MaxR8

SPECIFICATION Spec
CHECK_DEADLOCK FALSE

INVARIANTS
  TypeOK
  EvaluatorComputesSpec
  TwoSumsExact
