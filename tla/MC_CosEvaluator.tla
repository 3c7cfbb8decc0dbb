--------------------------- MODULE MC_CosEvaluator ---------------------------
(* Model-checking instance of CosEvaluator: every entry of the table and  *)
(* every remainder the reduction leaves: |r| <= pi/64 * (1 + 2^-29)       *)
(* (RemainderBound of CosReduce), within the 205 units of |r8| = 4.       *)
EXTENDS CosEvaluator

MC_Indices == 0..63

MC_MaxR8 == 4

=============================================================================
