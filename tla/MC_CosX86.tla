----------------------------- MODULE MC_CosX86 -----------------------------
(* Model-checking instance of CosX86: every value of the top 16 bits.     *)
EXTENDS CosX86

MC_HighWords == 0..65535

=============================================================================
