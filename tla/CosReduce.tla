------------------------------ MODULE CosReduce ------------------------------
(***************************************************************************)
(* The reduction of the table path of cos (src/libm/x86/s_cos.S, lines     *)
(* 207-244) in exact IEEE double arithmetic: every mulsd, addpd and subsd  *)
(* rounds its exact result to the nearest double (module BigFloat), so a   *)
(* state holds the very doubles the registers hold.                       *)
(*                                                                         *)
(* Only the low lanes matter here: N is rounded from x * 32/pi (207-217),  *)
(* r1 = x - N * P_1 and r = r1 - N * P_2 are formed (218-234), and the     *)
(* rounding error of r is recovered as c2 = (r1 - r) - N * P_2 (239-242)  *)
(* and folded into N * P_3 - c2 (244).  The table address and the high     *)
(* lanes are CosX86 and CosEvaluator.  Each input is reduced for x and for *)
(* -x, as cos(-x) = cos(x) needs.                                          *)
(***************************************************************************)
EXTENDS Integers, BigFloat, AngleTable

CONSTANT Inputs   \* the doubles x tried, as <<low word, high word>>, all on the fast path

VARIABLES input, out

vars == <<input, out>>

Lanes == {"x", "minus_x"}

None == [n |-> "none"]

InvPio32 == <<1841940611, 1076125488>>   \* offset 2160, 32/pi
PointFive == <<0, 1071644672>>           \* offset 2240, 0.5 in both lanes

-----------------------------------------------------------------------------
(* The code.                                                               *)

(* cvttsd2si: truncation toward zero. *)
Trunc(v) ==
  v.s * (IF v.e >= 0 THEN ToNat(ShiftLeft(v.m, v.e)) ELSE ToNat(ShiftRight(v.m, -v.e)))

(* Mutant: 0.5 added whatever the sign of x (andpd/orps left out).         *)
RoundedN_unsigned(xv) ==
  LET y == RoundNearest(Mul(xv, FromWords(InvPio32)))
  IN  [y |-> y, n |-> Trunc(RoundNearest(Add(y, FromWords(PointFive))))]

(* Mutant: cvtsd2si, which rounds to nearest, in place of cvttsd2si.       *)
RoundedN_nearest(xv) ==
  LET y == RoundNearest(Mul(xv, FromWords(InvPio32)))
      h == [FromWords(PointFive) EXCEPT !.s = xv.s]
  IN  [y |-> y, n |-> NearestEven(RoundNearest(Add(y, h)))]

(* movsd 2160/mulsd: y = x * 32/pi; andpd/orps: copysign(0.5, x);          *)
(* addpd: y + copysign(0.5, x); cvttsd2si: N.                              *)
RoundedN(xv) ==
  LET y == RoundNearest(Mul(xv, FromWords(InvPio32)))
      h == [FromWords(PointFive) EXCEPT !.s = xv.s]
  IN  [y |-> y, n |-> Trunc(RoundNearest(Add(y, h)))]

(* Mutant: c1 = r - r1, the operands of subsd %xmm4, %xmm3 exchanged.       *)
Reduction_c1_reversed(xv) ==
  LET nr == RoundedN(xv)
      nd == FromInt(nr.n)
      r1 == RoundNearest(Sub(xv, RoundNearest(Mul(nd, FromWords(P_1)))))
      b  == RoundNearest(Mul(nd, FromWords(P_2)))
      r  == RoundNearest(Sub(r1, b))
      c2 == RoundNearest(Sub(RoundNearest(Sub(r, r1)), b))
  IN  [y |-> nr.y, n |-> nr.n, r1 |-> r1, b |-> b, r |-> r, c2 |-> c2,
       c |-> RoundNearest(Sub(RoundNearest(Mul(nd, FromWords(P_3))), c2))]

(* Mutant: r kept unrounded, as an extended-precision evaluation would.    *)
Reduction_r_extended(xv) ==
  LET nr == RoundedN(xv)
      nd == FromInt(nr.n)
      r1 == RoundNearest(Sub(xv, RoundNearest(Mul(nd, FromWords(P_1)))))
      b  == RoundNearest(Mul(nd, FromWords(P_2)))
      r  == Sub(r1, b)
      c2 == RoundNearest(Sub(RoundNearest(Sub(r1, r)), b))
  IN  [y |-> nr.y, n |-> nr.n, r1 |-> r1, b |-> b, r |-> r, c2 |-> c2,
       c |-> RoundNearest(Sub(RoundNearest(Mul(nd, FromWords(P_3))), c2))]

(* The low lanes of lines 217-244, one rounded operation per instruction.  *)
Reduction(xv) ==
  LET nr == RoundedN(xv)
      nd == FromInt(nr.n)                                     \* cvtsi2sdl  217
      r1 == RoundNearest(Sub(xv, RoundNearest(Mul(nd, FromWords(P_1)))))
                                                              \* 218, 228/230
      b  == RoundNearest(Mul(nd, FromWords(P_2)))             \* mulpd      227
      r  == RoundNearest(Sub(r1, b))                          \* subsd      234
      c2 == RoundNearest(Sub(RoundNearest(Sub(r1, r)), b))    \* 239, 242
  IN  [y |-> nr.y, n |-> nr.n, r1 |-> r1, b |-> b, r |-> r, c2 |-> c2,
       c |-> RoundNearest(Sub(RoundNearest(Mul(nd, FromWords(P_3))), c2))]
                                                              \* 229, 244

Init ==
  /\ \E d \in Inputs : input = [x |-> d, minus_x |-> Neg(d)]
  /\ out = [l \in Lanes |-> None]

Reduce(l) ==
  /\ out[l] = None
  /\ out' = [out EXCEPT ![l] = Reduction(FromWords(input[l]))]
  /\ UNCHANGED input

Next == \E l \in Lanes : Reduce(l)

Spec == Init /\ [][Next]_vars

-----------------------------------------------------------------------------
(* Properties.                                                             *)

Pi32 == Add(Add(FromWords(P_1), FromWords(P_2)), FromWords(P_3))

Done(l) == out[l] # None

(* Every register the reduction writes holds a double (each instruction    *)
(* rounds), and N stays within the range the table path documents.        *)
TypeOK ==
  \A l \in Lanes :
    Done(l) =>
      /\ out[l].n \in -932560 .. 932560
      /\ \A f \in {"y", "r1", "b", "r", "c2", "c"} : IsDouble(out[l][f])

(* The two-sum of lines 234-242 is exact: r + c2 equals                    *)
(* x - N * P_1 - N * P_2 exactly, also when |r1| < |N * P_2| (x close to a *)
(* multiple of P_1), where the larger operand of the subtraction is not    *)
(* its first.  Section 4.2 step 4 of the spec: c1 and c2 capture the      *)
(* precision lost in r = r1 - N * P_2.                                     *)
ReductionExact ==
  \A l \in Lanes :
    Done(l) =>
      LET nd == FromInt(out[l].n)
          exact == Sub(Sub(FromWords(input[l]), Mul(nd, FromWords(P_1))),
                       Mul(nd, FromWords(P_2)))
      IN  Add(out[l].r, out[l].c2) = exact
          \/ (IsZero(exact) /\ IsZero(Add(out[l].r, out[l].c2)))

(* The N of lines 207-216 is a nearest multiple of pi/32 up to the        *)
(* rounding of y and of y + 0.5: |x - N * (P_1 + P_2 + P_3)| never exceeds *)
(* (pi/64) * (1 + 2^-29), the "|r| <= pi/64 + eps" of the spec.            *)
RemainderBound ==
  \A l \in Lanes :
    Done(l) =>
      LET rem == Sub(FromWords(input[l]), Mul(FromInt(out[l].n), Pi32))
      IN  AbsLeq(Mul(rem, Val(1, <<1>>, 30)), Mul(Pi32, FromInt(2^29 + 1)))

Opposite(u, v) == u = Negated(v) \/ (IsZero(u) /\ IsZero(v))

(* -x is reduced to -N, -r and -c bit for bit: the copysign(0.5, x) of     *)
(* lines 210-212 and truncation toward zero make the rounding of N odd,    *)
(* ties included, which cos(-x) = cos(x) relies on.                        *)
ReductionIsOdd ==
  Done("x") /\ Done("minus_x") =>
    /\ out["minus_x"].n = -out["x"].n
    /\ Opposite(out["minus_x"].r, out["x"].r)
    /\ Opposite(out["minus_x"].c, out["x"].c)

=============================================================================
