----------------------------- MODULE MC_CosCall -----------------------------
(* A call of cos for the CosReduce inputs of the table path and for one   *)
(* input of each other path, in both signs.                               *)
EXTENDS CosCall, MC_CosReduce

MC_CallInputs ==
  MC_Inputs \cup
  \* +0, -0, 2^-1022 and the largest |x| of 1 - |x| (top word 0x302f);
  \* the smallest |x| of __libm_sincos_huge (0x40f60000), +-1e300 and
  \* the largest double; +inf, -inf, a NaN and a negative NaN
  { <<0, 0>>, <<0, -2147483647 - 1>>, <<0, 1048576>>, <<-1, 808452095>>,
    <<0, 1089863680>>, <<0, 2117592124>>, <<0, -29891524>>,
    <<-1, 2146435071>>, <<0, 2146435072>>, <<0, -1048576>>,
    <<1, 2146435072>>, <<0, -524288>> }

=============================================================================
