---------------------------- MODULE AngleTable ----------------------------
(***************************************************************************)
(* static_const_table of the x86 cos (src/libm/x86/s_cos.S), as the words *)
(* the .long directives store.  A double is the pair <<low word, high      *)
(* word>> in memory order, each word read as a signed 32-bit integer.      *)
(* Entry M (at byte offset 32 * M) holds the four doubles                  *)
(*   C_hl = cos(B) - sigma, S_hi, S_lo, sigma         for B = M * pi / 32. *)
(***************************************************************************)
EXTENDS Integers, Float64

(* The 64 entries, Table[M + 1] for M \in 0..63 (offsets 0 to 2047).      *)
Table == <<
  <<<<0, 0>>, <<0, 0>>, <<0, 0>>, <<0, 1072693248>>>>,
  <<<<393047345, -1082934994>>, <<-1138117588, 1069094822>>, <<-536870912, -1136777448>>, <<0, 1072693248>>>>,
  <<<<18115067, -1080840954>>, <<1013556747, 1070135480>>, <<-1073741824, -1134400231>>, <<0, 1072693248>>>>,
  <<<<-1818418598, -1079637014>>, <<785751814, 1070765062>>, <<-1610612736, -1133129075>>, <<0, 1072693248>>>>,
  <<<<-2039769649, -1078756191>>, <<-1498502813, 1071152610>>, <<-536870912, -1134088979>>, <<0, 1072693248>>>>,
  <<<<1945768569, -1078052248>>, <<939980347, 1071524701>>, <<536870912, 1012796809>>, <<0, 1072693248>>>>,
  <<<<1539668340, -1077570969>>, <<967731400, 1071761211>>, <<536870912, 1015752157>>, <<0, 1072693248>>>>,
  <<<<1403757309, -1077080578>>, <<621354454, 1071926515>>, <<536870912, 1013450602>>, <<0, 1072693248>>>>,
  <<<<-1711476942, 1070236281>>, <<1719614413, 1072079006>>, <<536870912, -1131684556>>, <<0, 1071644672>>>>,
  <<<<-1809549480, 1069626316>>, <<1796544321, 1072217216>>, <<536870912, -1132280351>>, <<0, 1071644672>>>>,
  <<<<-1696166777, 1068266419>>, <<688824739, 1072339814>>, <<-536870912, 1010431536>>, <<0, 1071644672>>>>,
  <<<<2140183630, -1080210900>>, <<-243221071, 1072445618>>, <<-2147483647 - 1, -1133059919>>, <<0, 1071644672>>>>,
  <<<<1699043957, -1078065035>>, <<-818770618, 1072533611>>, <<536870912, 1014257638>>, <<0, 1071644672>>>>,
  <<<<1991047213, 1067753521>>, <<1455828442, 1072602945>>, <<-536870912, 1015505073>>, <<0, 1070596096>>>>,
  <<<<240740309, -1079239393>>, <<-805872464, 1072652951>>, <<536870912, 1014325783>>, <<0, 1070596096>>>>,
  <<<<257503056, -1080319643>>, <<-1546574554, 1072683149>>, <<1073741824, -1131905546>>, <<0, 1069547520>>>>,
  <<<<0, 0>>, <<0, 1072693248>>, <<0, 0>>, <<0, 0>>>>,
  <<<<257503056, 1067164005>>, <<-1546574554, 1072683149>>, <<1073741824, -1131905546>>, <<0, -1077936128>>>>,
  <<<<240740309, 1068244255>>, <<-805872464, 1072652951>>, <<536870912, 1014325783>>, <<0, -1076887552>>>>,
  <<<<1991047213, -1079730127>>, <<1455828442, 1072602945>>, <<-536870912, 1015505073>>, <<0, -1076887552>>>>,
  <<<<1699043957, 1069418613>>, <<-818770618, 1072533611>>, <<536870912, 1014257638>>, <<0, -1075838976>>>>,
  <<<<2140183630, 1067272748>>, <<-243221071, 1072445618>>, <<-2147483647 - 1, -1133059919>>, <<0, -1075838976>>>>,
  <<<<-1696166777, -1079217229>>, <<688824739, 1072339814>>, <<-536870912, 1010431536>>, <<0, -1075838976>>>>,
  <<<<-1809549480, -1077857332>>, <<1796544321, 1072217216>>, <<536870912, -1132280351>>, <<0, -1075838976>>>>,
  <<<<-1711476942, -1077247367>>, <<1719614413, 1072079006>>, <<536870912, -1131684556>>, <<0, -1075838976>>>>,
  <<<<1403757309, 1070403070>>, <<621354454, 1071926515>>, <<536870912, 1013450602>>, <<0, -1074790400>>>>,
  <<<<1539668340, 1069912679>>, <<967731400, 1071761211>>, <<536870912, 1015752157>>, <<0, -1074790400>>>>,
  <<<<1945768569, 1069431400>>, <<939980347, 1071524701>>, <<536870912, 1012796809>>, <<0, -1074790400>>>>,
  <<<<-2039769649, 1068727457>>, <<-1498502813, 1071152610>>, <<-536870912, -1134088979>>, <<0, -1074790400>>>>,
  <<<<-1818418598, 1067846634>>, <<785751814, 1070765062>>, <<-1610612736, -1133129075>>, <<0, -1074790400>>>>,
  <<<<18115067, 1066642694>>, <<1013556747, 1070135480>>, <<-1073741824, -1134400231>>, <<0, -1074790400>>>>,
  <<<<393047345, 1064548654>>, <<-1138117588, 1069094822>>, <<-536870912, -1136777448>>, <<0, -1074790400>>>>,
  <<<<0, 0>>, <<0, 0>>, <<0, 0>>, <<0, -1074790400>>>>,
  <<<<393047345, 1064548654>>, <<-1138117588, -1078388826>>, <<-536870912, 1010706200>>, <<0, -1074790400>>>>,
  <<<<18115067, 1066642694>>, <<1013556747, -1077348168>>, <<-1073741824, 1013083417>>, <<0, -1074790400>>>>,
  <<<<-1818418598, 1067846634>>, <<785751814, -1076718586>>, <<-1610612736, 1014354573>>, <<0, -1074790400>>>>,
  <<<<-2039769649, 1068727457>>, <<-1498502813, -1076331038>>, <<-536870912, 1013394669>>, <<0, -1074790400>>>>,
  <<<<1945768569, 1069431400>>, <<939980347, -1075958947>>, <<536870912, -1134686839>>, <<0, -1074790400>>>>,
  <<<<1539668340, 1069912679>>, <<967731400, -1075722437>>, <<536870912, -1131731491>>, <<0, -1074790400>>>>,
  <<<<1403757309, 1070403070>>, <<621354454, -1075557133>>, <<536870912, -1134033046>>, <<0, -1074790400>>>>,
  <<<<-1711476942, -1077247367>>, <<1719614413, -1075404642>>, <<536870912, 1015799092>>, <<0, -1075838976>>>>,
  <<<<-1809549480, -1077857332>>, <<1796544321, -1075266432>>, <<536870912, 1015203297>>, <<0, -1075838976>>>>,
  <<<<-1696166777, -1079217229>>, <<688824739, -1075143834>>, <<-536870912, -1137052112>>, <<0, -1075838976>>>>,
  <<<<2140183630, 1067272748>>, <<-243221071, -1075038030>>, <<-2147483647 - 1, 1014423729>>, <<0, -1075838976>>>>,
  <<<<1699043957, 1069418613>>, <<-818770618, -1074950037>>, <<536870912, -1133226010>>, <<0, -1075838976>>>>,
  <<<<1991047213, -1079730127>>, <<1455828442, -1074880703>>, <<-536870912, -1131978575>>, <<0, -1076887552>>>>,
  <<<<240740309, 1068244255>>, <<-805872464, -1074830697>>, <<536870912, -1133157865>>, <<0, -1076887552>>>>,
  <<<<257503056, 1067164005>>, <<-1546574554, -1074800499>>, <<1073741824, 1015578102>>, <<0, -1077936128>>>>,
  <<<<0, 0>>, <<0, -1074790400>>, <<0, 0>>, <<0, 0>>>>,
  <<<<257503056, -1080319643>>, <<-1546574554, -1074800499>>, <<1073741824, 1015578102>>, <<0, 1069547520>>>>,
  <<<<240740309, -1079239393>>, <<-805872464, -1074830697>>, <<536870912, -1133157865>>, <<0, 1070596096>>>>,
  <<<<1991047213, 1067753521>>, <<1455828442, -1074880703>>, <<-536870912, -1131978575>>, <<0, 1070596096>>>>,
  <<<<1699043957, -1078065035>>, <<-818770618, -1074950037>>, <<536870912, -1133226010>>, <<0, 1071644672>>>>,
  <<<<2140183630, -1080210900>>, <<-243221071, -1075038030>>, <<-2147483647 - 1, 1014423729>>, <<0, 1071644672>>>>,
  <<<<-1696166777, 1068266419>>, <<688824739, -1075143834>>, <<-536870912, -1137052112>>, <<0, 1071644672>>>>,
  <<<<-1809549480, 1069626316>>, <<1796544321, -1075266432>>, <<536870912, 1015203297>>, <<0, 1071644672>>>>,
  <<<<-1711476942, 1070236281>>, <<1719614413, -1075404642>>, <<536870912, 1015799092>>, <<0, 1071644672>>>>,
  <<<<1403757309, -1077080578>>, <<621354454, -1075557133>>, <<536870912, -1134033046>>, <<0, 1072693248>>>>,
  <<<<1539668340, -1077570969>>, <<967731400, -1075722437>>, <<536870912, -1131731491>>, <<0, 1072693248>>>>,
  <<<<1945768569, -1078052248>>, <<939980347, -1075958947>>, <<536870912, -1134686839>>, <<0, 1072693248>>>>,
  <<<<-2039769649, -1078756191>>, <<-1498502813, -1076331038>>, <<-536870912, 1013394669>>, <<0, 1072693248>>>>,
  <<<<-1818418598, -1079637014>>, <<785751814, -1076718586>>, <<-1610612736, 1014354573>>, <<0, 1072693248>>>>,
  <<<<18115067, -1080840954>>, <<1013556747, -1077348168>>, <<-1073741824, 1013083417>>, <<0, 1072693248>>>>,
  <<<<393047345, -1082934994>>, <<-1138117588, -1078388826>>, <<-536870912, 1010706200>>, <<0, 1072693248>>>>
  >>

(* The doubles after the table, by byte offset: the P_1, P_2 and P_3      *)
(* parts of pi/32 and 32/pi.                                               *)
P_1 == <<1413480448, 1069097467>>      \* offset 2128
P_2 == <<442499072, 1032893537>>       \* offset 2112
P_3 == <<771977331, 996350346>>        \* offset 2144
One == <<0, 1072693248>>               \* offset 2192, 1.0
NegZero == <<0, -2147483647 - 1>>      \* offset 2208, -0.0

=============================================================================
