--------------------------- MODULE MC_Hyperbolic ---------------------------
(* Model-checking instance of Hyperbolic: the special values and |x| on   *)
(* both sides of every threshold of the two expressions, as s * m * 2^q.  *)
EXTENDS Hyperbolic

F(m, q) == [k |-> "fin", m |-> m, q |-> q]

MC_Magnitudes ==
  {[k |-> "nan", m |-> 0, q |-> 0], [k |-> "inf", m |-> 0, q |-> 0],
   [k |-> "zero", m |-> 0, q |-> 0],
   F(1, -1074), F(1, -60), F(1, -54), F(1, -53), F(1, -30), F(1, -28),
   F(1, -1), F(1, 0), F(11, 1),
   F(2839, -3),  F(11357, -5),    \* 354.875, 354.90625: exp(x + x) overflows between
   F(22713, -5), F(45427, -6),    \* 709.78125, 709.796875: exp(x) overflows between
   F(22735, -5), F(45471, -6),    \* 710.46875, 710.484375: cosh(x) exceeds DBL_MAX between
   F(5961, -3),  F(47689, -6),    \* 745.125, 745.140625: exp(-x) underflows to 0 between
   F(125, 3), F(1, 1023)}

=============================================================================
