------------------------------ MODULE BigFloat ------------------------------
(***************************************************************************)
(* Exact binary arithmetic and the round-to-nearest-even of IEEE 754       *)
(* doubles, for significands wider than TLC's 32-bit integers.             *)
(*                                                                         *)
(* A natural number is a sequence of 15-bit limbs, least significant       *)
(* first, without a zero limb at the top (zero is <<>>), so that a product *)
(* of two limbs plus a carry stays below 2^31.  A value is a record        *)
(* [s, m, e] standing for s * m * 2^e, kept with m odd (or m = <<>> and    *)
(* e = 0 for a zero of sign s), so that equal values are equal records.    *)
(* Only normal doubles occur where this module is used: no subnormal,     *)
(* overflow or NaN handling.                                               *)
(***************************************************************************)
EXTENDS Integers, SequencesExt, Float64

Base == 32768

Lo(a) == IF a = <<>> THEN 0 ELSE Head(a)
Hi(a) == IF a = <<>> THEN <<>> ELSE Tail(a)

RECURSIVE Trim(_)
Trim(a) == IF a # <<>> /\ Last(a) = 0 THEN Trim(Front(a)) ELSE a

(* The limbs of 0 <= n < 2^31, and back.                                   *)
RECURSIVE FromNat(_)
FromNat(n) == IF n = 0 THEN <<>> ELSE <<n % Base>> \o FromNat(n \div Base)

RECURSIVE ToNat(_)
ToNat(a) == IF a = <<>> THEN 0 ELSE Lo(a) + Base * ToNat(Hi(a))

RECURSIVE AddC(_, _, _)
AddC(a, b, c) ==
  IF a = <<>> /\ b = <<>> THEN FromNat(c)
  ELSE LET t == Lo(a) + Lo(b) + c
       IN  <<t % Base>> \o AddC(Hi(a), Hi(b), t \div Base)

Plus(a, b) == AddC(a, b, 0)

(* a - b for a >= b. *)
RECURSIVE SubB(_, _, _)
SubB(a, b, br) ==
  IF a = <<>> THEN <<>>
  ELSE LET t == Lo(a) - Lo(b) - br
       IN  <<t % Base>> \o SubB(Hi(a), Hi(b), IF t < 0 THEN 1 ELSE 0)

Minus(a, b) == Trim(SubB(a, b, 0))

(* -1, 0 or 1 as a <, = or > b. *)
RECURSIVE CmpTop(_, _)
CmpTop(a, b) ==
  IF a = <<>> THEN 0
  ELSE IF Last(a) # Last(b) THEN (IF Last(a) < Last(b) THEN -1 ELSE 1)
  ELSE CmpTop(Front(a), Front(b))

Cmp(a, b) ==
  IF Len(a) # Len(b) THEN (IF Len(a) < Len(b) THEN -1 ELSE 1) ELSE CmpTop(a, b)

(* a * k for a limb k. *)
RECURSIVE MulC(_, _, _)
MulC(a, k, c) ==
  IF a = <<>> THEN FromNat(c)
  ELSE LET p == Lo(a) * k + c
       IN  <<p % Base>> \o MulC(Hi(a), k, p \div Base)

RECURSIVE Times(_, _)
Times(a, b) ==
  IF b = <<>> THEN <<>>
  ELSE LET rest == Times(a, Hi(b))
       IN  Plus(Trim(MulC(a, Lo(b), 0)), IF rest = <<>> THEN <<>> ELSE <<0>> \o rest)

(* a * 2^k and floor(a / 2^k). *)
ShiftLeft(a, k) ==
  IF a = <<>> THEN <<>>
  ELSE [i \in 1 .. k \div 15 |-> 0] \o Trim(MulC(a, 2^(k % 15), 0))

ShiftRight(a, k) ==
  LET q == k \div 15
      r == k % 15
      b == IF q >= Len(a) THEN <<>> ELSE SubSeq(a, q + 1, Len(a))
  IN  Trim([i \in 1 .. Len(b) |->
              b[i] \div 2^r
              + (IF i < Len(b) THEN (b[i + 1] % 2^r) * 2^(15 - r) ELSE 0)])

LowBits(a, k) == Minus(a, ShiftLeft(ShiftRight(a, k), k))

BitLen(a) == IF a = <<>> THEN 0 ELSE 15 * (Len(a) - 1) + IntBits(Last(a))

RECURSIVE TrailingZeroBits(_)
TrailingZeroBits(a) ==
  IF Lo(a) = 0 THEN 15 + TrailingZeroBits(Hi(a)) ELSE TrailingZeros(Lo(a), 15)

-----------------------------------------------------------------------------
(* Values.                                                                 *)

Val(s, m, e) ==
  IF m = <<>> THEN [s |-> s, m |-> <<>>, e |-> 0]
  ELSE LET z == TrailingZeroBits(m)
       IN  [s |-> s, m |-> ShiftRight(m, z), e |-> e + z]

IsZero(v) == v.m = <<>>

FromInt(n) == Val(IF n < 0 THEN -1 ELSE 1, FromNat(IF n < 0 THEN -n ELSE n), 0)

(* The double stored as <<low word, high word>> (normal or zero).          *)
FromWords(d) ==
  LET lo == d[1]
      hi == d[2]
      be == (hi \div 1048576) % 2048
      low == Trim(<<lo % Base, (lo \div Base) % Base, (lo \div 1073741824) % 4>>)
      high == FromNat((hi % 1048576) + (IF be = 0 THEN 0 ELSE 1048576))
  IN  Val(IF hi < 0 THEN -1 ELSE 1, Plus(low, ShiftLeft(high, 32)),
          (IF be = 0 THEN 1 ELSE be) - 1075)

(* The exact sum, difference and product; a difference of equal values is  *)
(* +0, as under round-to-nearest.                                          *)
Add(x, y) ==
  LET e  == IF x.e <= y.e THEN x.e ELSE y.e
      mx == ShiftLeft(x.m, x.e - e)
      my == ShiftLeft(y.m, y.e - e)
  IN  IF x.s = y.s THEN Val(x.s, Plus(mx, my), e)
      ELSE CASE Cmp(mx, my) = 1  -> Val(x.s, Minus(mx, my), e)
             [] Cmp(mx, my) = -1 -> Val(y.s, Minus(my, mx), e)
             [] OTHER            -> Val(1, <<>>, 0)

Negated(v) == [v EXCEPT !.s = -v.s]

Sub(x, y) == Add(x, Negated(y))

Mul(x, y) == Val(x.s * y.s, Times(x.m, y.m), x.e + y.e)

(* |x| <= |y| *)
AbsLeq(x, y) ==
  LET e == IF x.e <= y.e THEN x.e ELSE y.e
  IN  Cmp(ShiftLeft(x.m, x.e - e), ShiftLeft(y.m, y.e - e)) <= 0

(* A double: at most 53 significant bits. *)
IsDouble(v) == BitLen(v.m) <= 53

(* Round to the nearest double, ties to the even significand.             *)
RoundNearest(v) ==
  IF BitLen(v.m) <= 53 THEN v
  ELSE LET sh   == BitLen(v.m) - 53
           q    == ShiftRight(v.m, sh)
           c    == Cmp(LowBits(v.m, sh), ShiftLeft(<<1>>, sh - 1))
           up   == c = 1 \/ (c = 0 /\ Lo(q) % 2 = 1)
       IN  Val(v.s, IF up THEN Plus(q, <<1>>) ELSE q, v.e + sh)

(* The integer nearest v, ties to even (|v| < 2^30).                      *)
NearestEven(v) ==
  IF v.e >= 0 THEN v.s * ToNat(ShiftLeft(v.m, v.e))
  ELSE LET f == ToNat(ShiftRight(v.m, -v.e))
           c == Cmp(LowBits(v.m, -v.e), ShiftLeft(<<1>>, -v.e - 1))
       IN  v.s * (IF c = 1 \/ (c = 0 /\ f % 2 = 1) THEN f + 1 ELSE f)

=============================================================================
