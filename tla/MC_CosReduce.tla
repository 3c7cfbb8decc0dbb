---------------------------- MODULE MC_CosReduce ----------------------------
(* The inputs of the CosReduce runs, as <<low word, high word>>:           *)
EXTENDS CosReduce

MC_Inputs ==
  \* x = N * P_1 to the last bit, so that |r1| < |N * P_2|, for
  \* N = 1, 3, 17, 1000, 65535, 524287, 917000, -3 and -524287
  { <<1413480448, 1069097467>>, <<2133852160, 1070782844>>,
    <<159645696, 1073394715>>, <<1883668480, 1079544623>>,
    <<843361216, 1085874658>>, <<805344632, 1089020408>>,
    <<994779680, 1089862308>>, <<2133852160, -1076700804>>,
    <<805344632, -1058463240>>,
  \* y = x * 32/pi rounds to 2.5, 100.5 and 65536.5 exactly
    <<693450846, 1070557818>>, <<1428785000, 1076083630>>,
    <<-448669894, 1085874695>>,
  \* y rounds to 0.5 - 2^-54 (y + 0.5 then rounds to 1) and to 0.5
    <<1413754135, 1068048891>>, <<1413754136, 1068048891>>,
  \* 0.03 (N = 0), the largest and smallest |x| of the table path
    <<-343597384, 1067366481>>, <<-1, 1089863679>>, <<0, 808452096>>,
  \* 1, 3, 100, -2.5, 12345.678 and eight values spread over the range
    <<0, 1072693248>>, <<0, 1074266112>>, <<0, 1079574528>>,
    <<0, -1073479680>>, <<-927712936, 1086856406>>,
    <<745366040, -1058786353>>, <<873394200, -1065129443>>,
    <<1558475150, 1085995962>>, <<133177970, 1076232814>>,
    <<186958672, 1087868438>>, <<883822958, 1069232177>>,
    <<-894717369, -1070129856>>, <<-160879024, 1070389717>> }

=============================================================================
