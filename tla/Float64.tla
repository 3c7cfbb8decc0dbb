------------------------------ MODULE Float64 ------------------------------
(***************************************************************************)
(* IEEE-754 doubles as the two 32-bit words the assembly sources store and *)
(* load: <<low word, high word>>, each read as a signed 32-bit integer.   *)
(***************************************************************************)
EXTENDS Integers

(* The same double with its sign bit flipped (bit 31 of the high word).   *)
Neg(d) == <<d[1], IF d[2] < 0 THEN d[2] + 2147483647 + 1
                              ELSE d[2] - 2147483647 - 1>>

(* The number of significant bits of a nonzero normal double: 53 less the *)
(* trailing zero bits of its 52-bit fraction.                             *)
RECURSIVE TrailingZeros(_, _)
TrailingZeros(v, k) == IF k = 0 \/ v % 2 = 1 THEN 0
                       ELSE 1 + TrailingZeros(v \div 2, k - 1)

SignificantBits(d) ==
  IF d[1] = 0 THEN 53 - 32 - TrailingZeros(d[2] % 1048576, 20)
              ELSE 53 - TrailingZeros(d[1], 32)

(* The number of significant bits of a positive integer (an exactly      *)
(* representable N or fn): its bit length less its trailing zero bits.     *)
RECURSIVE IntBits(_)
IntBits(n) == IF n = 0 THEN 0 ELSE 1 + IntBits(n \div 2)

IntSignificantBits(n) ==
  IF n = 0 THEN 0 ELSE IntBits(n) - TrailingZeros(n, 32)

=============================================================================
