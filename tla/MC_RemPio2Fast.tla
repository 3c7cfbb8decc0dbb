--------------------------- MODULE MC_RemPio2Fast ---------------------------
EXTENDS RemPio2Fast

(* Both words of a double of the given sign. *)
Signed(d, s) == IF s = 1 THEN d ELSE <<d[1], d[2] - 2147483647 - 1>>

(* The exponents tried: all from 2^-10 up, where fn is nonzero or the    *)
(* path is large, and below that zero and subnormals, the smallest normal *)
(* and two tiny binades, which all give fn = 0.                            *)
MC_Exponents == {0, 1, 512, 1000} \cup 1013 .. 2047

(* For each of them the smallest and the largest double (mantissa 0 and   *)
(* all ones), and the doubles around the high word 0x413921fb.            *)
MC_Binades ==
  {<<IF f = 0 THEN 0 ELSE -1, e * 1048576 + f>> : e \in MC_Exponents, f \in {0, 1048575}}
    \cup {<<l, h>> : l \in {0, -1}, h \in {1094263290, 1094263291, 1094263292}}

(* The doubles nearest fn * pi/2 for fn = 1046916, 1030135, 14479, 1041012,  *)
(* 14848 and 3712, where most bits cancel and the third round is taken.   *)
MC_Cancelling ==
  { <<-827799945, 1094260683>>, <<1177262823, 1094234324>>,
    <<-682889270, 1087780323>>, <<-748400590, 1094251409>>,
    <<-1000486690, 1087817419>>, <<-1000486690, 1085720267>> }

(* fn * pi/2 + 2^-k for (fn, k) = (524289, 30), (1046916, 27), (1000, 39),  *)
(* (65535, 30), (1048575, 27) and (3, 20): between 17 and 49 bits cancel,  *)
(* and the reduction stops after the second round.                         *)
MC_HalfCancelling ==
  { <<2021889961, 1093214718>>, <<-827799913, 1094260683>>,
    <<1883935762, 1083738927>>, <<843634964, 1090068962>>,
    <<-1037797388, 1094263289>>, <<-1087168046, 1074977148>> }

MC_Inputs ==
  {Signed(d, s) : d \in MC_Binades \cup MC_Cancelling \cup MC_HalfCancelling,
                  s \in {1, -1}}

=============================================================================
