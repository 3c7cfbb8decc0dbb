----------------------------- MODULE Hyperbolic -----------------------------
(***************************************************************************)
(* cosh (src/libm/upstream-freebsd/lib/msun/src/e_cosh.c, lines 43-48)    *)
(* and tanh (src/unnamed/part_000, lines 45-50):                           *)
(*   cosh: long double y = exp(x); return (y + 1./y) * 0.5;                *)
(*   tanh: long double y = exp(x + x); return (y - 1.) / (y + 1.);         *)
(* Each function is called for an input x and for -x (the lanes), so that *)
(* evenness can be stated.                                                  *)
(*                                                                         *)
(* A floating-point value is abstracted to its class (NaN, infinity, zero, *)
(* exactly one, finite), its sign and, for a finite value, its binary      *)
(* exponent e (2^e <= |v| < 2^(e+1)) and whether it is far from a power of *)
(* two (relative distance above 2^-40), so that rounding cannot carry it  *)
(* to the next exponent.  This decides every overflow of the two          *)
(* expressions.  A finite input is s * m * 2^q.                            *)
(***************************************************************************)
EXTENDS Integers, FiniteSets, Float64

CONSTANTS
  Magnitudes,   \* the |x| tried: [k, m, q] records
  Builds        \* the formats of long double tried: "double", "x87", "quad"

ASSUME Builds \subseteq {"double", "x87", "quad"}

(* build is the long double of the build, fixed once chosen.               *)
VARIABLES build, input, coshOut, tanhOut

vars == <<build, input, coshOut, tanhOut>>

Lanes == {"x", "minus_x"}

None == [k |-> "none", s |-> 1, e |-> 0, far |-> TRUE]

Nan == [k |-> "nan", s |-> 1, e |-> 0, far |-> TRUE]
Inf(s) == [k |-> "inf", s |-> s, e |-> 0, far |-> TRUE]
Zero(s) == [k |-> "zero", s |-> s, e |-> 0, far |-> TRUE]
One(s) == [k |-> "one", s |-> s, e |-> 0, far |-> FALSE]
Fin(s, e, far) == [k |-> "fin", s |-> s, e |-> e, far |-> far]

(* The largest exponent of double and of the long double of the build.    *)
DoubleEmax == 1023
LongEmax == IF build = "double" THEN 1023 ELSE 16383

(* Rounding to a format with the given largest exponent: overflow to      *)
(* infinity; a value near 2^(emax+1) may round up to it.                   *)
Round(v, emax) ==
  IF v.k # "fin" THEN {v}
  ELSE IF v.e > emax THEN {Inf(v.s)}
  ELSE IF v.e = emax /\ ~v.far THEN {v, Inf(v.s)}
  ELSE {v}

-----------------------------------------------------------------------------
(* exp, from the C library (not in the repository), by its contract: the  *)
(* double nearest e^x, +inf above the largest double, +0 below half the   *)
(* smallest subnormal, exp(+-0) = 1, exp(-inf) = +0, exp(+inf) = +inf.     *)

(* 83/3682 < 1/(64 ln 2) < 451/20007 *)
CLo == <<83, 3682>>
CHi == <<451, 20007>>

MulFloor(y, c) == (y \div c[2]) * c[1] + ((y % c[2]) * c[1]) \div c[2]

(* floor(1024 * x / ln 2) for x = s * u / 64, from both bounds.            *)
Log2Scaled(s, u) ==
  {IF s = 1 THEN a ELSE -(a + 1) : a \in {MulFloor(1024 * u, CLo), MulFloor(1024 * u, CHi)}}

ExpFinite(s, m, q) ==
  IF q >= 11 THEN {IF s = 1 THEN Inf(1) ELSE Zero(1)}        \* |x| >= 2048
  ELSE IF q < -6                                             \* x = s * 2^q
    THEN IF q <= -54 \/ (s = 1 /\ q = -53) THEN {One(1)}
         ELSE {Fin(1, IF s = 1 THEN 0 ELSE -1, FALSE)}
  ELSE LET ls == Log2Scaled(s, m * 2^(q + 6))
       IN  {CASE e >= 1024 -> Inf(1)
              [] e < -1075 -> Zero(1)
              [] e = -1075 -> Fin(1, -1074, FALSE)
              [] OTHER -> Fin(1, e, Cardinality(ls) = 1 /\ e >= -1030
                                    /\ \A a \in ls : a % 1024 \notin {0, 1023})
            : e \in {a \div 1024 : a \in ls}}

Exp(x) ==
  CASE x.k = "nan"  -> {Nan}
    [] x.k = "inf"  -> {IF x.s = 1 THEN Inf(1) ELSE Zero(1)}
    [] x.k = "zero" -> {One(1)}
    [] x.k = "fin"  -> ExpFinite(x.s, x.m, x.q)

-----------------------------------------------------------------------------
(* The code.                                                               *)

(* x + x in double: exact, or +-inf from 2^1023 on.                         *)
Twice(x) ==
  IF x.k # "fin" THEN x
  ELSE IF x.q + IntBits(x.m) >= 1024 THEN [x EXCEPT !.k = "inf"]
  ELSE [x EXCEPT !.q = x.q + 1]

(* 1./y in long double.                                                    *)
Recip(y) ==
  CASE y.k = "nan"  -> {Nan}
    [] y.k = "inf"  -> {Zero(y.s)}
    [] y.k = "zero" -> {Inf(y.s)}
    [] y.k = "one"  -> {y}
    [] y.k = "fin"  ->
         UNION {Round(Fin(y.s, e, y.far), LongEmax) :
                  e \in IF y.far THEN {-y.e - 1} ELSE {-y.e - 1, -y.e}}

Exponent(v) == IF v.k = "one" THEN 0 ELSE v.e

(* a + b in long double, for a, b >= 0.                                    *)
AddPos(a, b) ==
  CASE a.k = "nan" \/ b.k = "nan" -> {Nan}
    [] a.k = "inf" \/ b.k = "inf" -> {Inf(1)}
    [] a.k = "zero" -> {b}
    [] b.k = "zero" -> {a}
    [] OTHER ->
         LET hi == IF Exponent(a) >= Exponent(b) THEN a ELSE b
             lo == IF Exponent(a) >= Exponent(b) THEN b ELSE a
         IN  IF Exponent(hi) - Exponent(lo) >= 60 /\ hi.far
               THEN Round(Fin(1, Exponent(hi), TRUE), LongEmax)
               ELSE UNION {Round(Fin(1, e, FALSE), LongEmax) :
                             e \in {Exponent(hi), Exponent(hi) + 1}}

(* * 0.5: exact.                                                           *)
Half(v) == IF v.k \in {"fin", "one"} THEN Fin(v.s, Exponent(v) - 1, v.far) ELSE v

(* Mutant: 1. - y, the operands of the numerator swapped.                  *)
MinusOne_reversed(y) ==
  CASE y.k = "nan"  -> Nan
    [] y.k = "inf"  -> Inf(-1)
    [] y.k = "zero" -> One(1)
    [] y.k = "one"  -> Zero(1)
    [] y.k = "fin"  -> Fin(IF y.e >= 0 THEN -1 ELSE 1, 0, FALSE)

(* y - 1. in long double, for y >= 0; the exponent of a finite difference  *)
(* is not tracked (only its sign is used).                                  *)
MinusOne(y) ==
  CASE y.k = "nan"  -> Nan
    [] y.k = "inf"  -> Inf(1)
    [] y.k = "zero" -> One(-1)
    [] y.k = "one"  -> Zero(1)
    [] y.k = "fin"  -> Fin(IF y.e >= 0 THEN 1 ELSE -1, 0, FALSE)

(* n / d in long double, d > 0: inf / inf is NaN; otherwise the quotient   *)
(* of tanh has |n| < d, so it is n's zero, -1 for n = -1 and d = 1, or a    *)
(* finite value of n's sign that may round to +-1.                          *)
Quotient(n, d) ==
  CASE n.k = "nan" \/ d.k = "nan" \/ (n.k = "inf" /\ d.k = "inf") -> {Nan}
    [] n.k = "zero" -> {n}
    [] n.k = "one" /\ d.k = "one" -> {n}
    [] OTHER -> {Fin(n.s, -1, FALSE), One(n.s)}

(* 0.5 / y in long double.                                                  *)
HalfRecip(y) ==
  IF y.k = "fin" /\ y.far THEN Round(Fin(y.s, -y.e - 2, TRUE), LongEmax)
  ELSE {Half(r) : r \in Recip(y)}

(* y - 1./y in long double, for y >= 0.                                    *)
MinusRecip(y, r) ==
  CASE y.k = "nan" \/ r.k = "nan" -> {Nan}
    [] y.k = "inf" -> {Inf(1)}
    [] r.k = "inf" -> {Inf(-1)}
    [] y.k = "one" -> {Zero(1)}
    [] OTHER -> {Fin(IF y.e >= 0 THEN 1 ELSE -1, IF y.e >= 0 THEN y.e ELSE r.e, FALSE)}

(* Mutant: (y - 1./y) * 0.5, the expression of sinh.                       *)
CoshValues_sinh(x) ==
  UNION {UNION {UNION {Round(Half(s), DoubleEmax) : s \in MinusRecip(y, r)} :
                r \in Recip(y)} :
         y \in Exp(x)}

(* Mutant: the long double result is returned without narrowing.          *)
CoshValues_long(x) ==
  UNION {UNION {{Half(s) : s \in AddPos(y, r)} : r \in Recip(y)} : y \in Exp(x)}

(* __ieee754_cosh: (y + 1./y) * 0.5, rounded to the double returned.       *)
CoshValues(x) ==
  UNION {UNION {UNION {Round(Half(s), DoubleEmax) : s \in AddPos(y, r)} :
                r \in Recip(y)} :
         y \in Exp(x)}

(* tanh: (y - 1.) / (y + 1.) with y = exp(x + x), rounded to double.       *)
TanhValues(x) ==
  UNION {UNION {UNION {Round(q, DoubleEmax) : q \in Quotient(MinusOne(y), d)} :
                d \in AddPos(y, One(1))} :
         y \in Exp(Twice(x))}

Negate(x) == [x EXCEPT !.s = -x.s]

Init ==
  /\ build \in Builds
  /\ \E mag \in Magnitudes, s \in {1, -1} :
       LET x == [k |-> mag.k, s |-> s, m |-> mag.m, q |-> mag.q]
       IN  input = [x |-> x, minus_x |-> Negate(x)]
  /\ coshOut = [l \in Lanes |-> None]
  /\ tanhOut = [l \in Lanes |-> None]

Cosh(l) ==
  /\ coshOut[l] = None
  /\ \E v \in CoshValues(input[l]) : coshOut' = [coshOut EXCEPT ![l] = v]
  /\ UNCHANGED <<build, input, tanhOut>>

Tanh(l) ==
  /\ tanhOut[l] = None
  /\ \E v \in TanhValues(input[l]) : tanhOut' = [tanhOut EXCEPT ![l] = v]
  /\ UNCHANGED <<build, input, coshOut>>

Next == \E l \in Lanes : Cosh(l) \/ Tanh(l)

Spec == Init /\ [][Next]_vars

-----------------------------------------------------------------------------
(* Properties.                                                             *)

Values == {Nan, None} \cup {Inf(s) : s \in {1, -1}} \cup {Zero(s) : s \in {1, -1}}
          \cup {One(s) : s \in {1, -1}}
          \cup [k : {"fin"}, s : {1, -1}, e : -1074 .. DoubleEmax, far : BOOLEAN]

(* Both functions return doubles: the long double intermediate of cosh,   *)
(* up to 2^1073 for exp(x) near the smallest subnormal, is narrowed.       *)
TypeOK ==
  /\ build \in Builds
  /\ input \in [Lanes -> [k : {"nan", "inf", "zero", "fin"}, s : {1, -1},
                          m : Nat, q : Int]]
  /\ coshOut \in [Lanes -> Values]
  /\ tanhOut \in [Lanes -> Values]

Finite(v) == v.k \in {"fin", "one", "zero"}

(* cosh(x) and cosh(-x) agree: both NaN, both +inf or both finite (step 1 *)
(* of the method comment of e_cosh.c, cosh(x) = cosh(-x)).  Checked at    *)
(* the level of classes: x and -x overflow exp and 1./y at the same |x|.  *)
CoshIsEven ==
  coshOut["x"] # None /\ coshOut["minus_x"] # None =>
    /\ coshOut["x"].k = coshOut["minus_x"].k
    /\ coshOut["x"].s = coshOut["minus_x"].s

(* cosh is NaN exactly for a NaN x, +inf for +-inf ("cosh(x) is |x| if x  *)
(* is +INF, -INF, or NaN"), and otherwise a positive number or +inf: the   *)
(* 1./0 of exp(-inf) = 0 and the inf + 0 of exp(+inf) never make a NaN.     *)
CoshSpecialValues ==
  \A l \in Lanes :
    coshOut[l] # None =>
      /\ (coshOut[l].k = "nan") = (input[l].k = "nan")
      /\ input[l].k = "inf" => coshOut[l] = Inf(1)
      /\ coshOut[l].k # "zero" /\ coshOut[l].s = 1

(* tanh(x) is NaN, +0, or has the sign of x; tanh(-inf) = -1 and          *)
(* tanh(NaN) is NaN.                                                        *)
TanhSign ==
  \A l \in Lanes :
    tanhOut[l] # None =>
      /\ input[l].k = "nan" => tanhOut[l] = Nan
      /\ input[l].k = "inf" /\ input[l].s = -1 => tanhOut[l] = One(-1)
      /\ tanhOut[l].k \in {"fin", "one", "inf"} => tanhOut[l].s = input[l].s

(* |x| below 2^-28 (or 2^-28 itself) *)
Tiny(x) == x.k = "zero" \/ (x.k = "fin" /\ x.q + IntBits(x.m) <= -28)

(* tanh as the method comment above it (part_000, lines 26-33) describes  *)
(* it: only tanh(NaN) is NaN ("22 <= x <= INF : tanh(x) := 1"), and for  *)
(* "0 <= x < 2**-28 : tanh(x) := x", with tanh(-x) = -tanh(x), a tiny x   *)
(* is returned: zero only for a zero x, and with x's sign.                *)
TanhAsCommented ==
  \A l \in Lanes :
    tanhOut[l] # None =>
      /\ input[l].k # "nan" => tanhOut[l].k # "nan"
      /\ Tiny(input[l]) =>
           /\ (tanhOut[l].k = "zero") = (input[l].k = "zero")
           /\ tanhOut[l].s = input[l].s

=============================================================================
