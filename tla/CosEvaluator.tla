---------------------------- MODULE CosEvaluator ----------------------------
(***************************************************************************)
(* The table-method part of the x86 cos (src/libm/x86/s_cos.S, lines      *)
(* 218-275): from N and x to the returned double, as the SSE2 instructions *)
(* compute it.  Each xmm register is a pair <<low lane, high lane>> of     *)
(* terms (module Terms).  An instruction is <<opcode, source, destination>> *)
(* in the AT&T order of the source; a source is a register number or the  *)
(* name of a memory operand.  The integer instructions that form the      *)
(* table address (lines 220, 222, 224-226) are TableIndex in CosX86.      *)
(***************************************************************************)
EXTENDS Integers, Sequences, FiniteSetsExt, Terms, AngleTable

CONSTANTS
  Indices,   \* the table indices N + 16 mod 64 that are tried
  MaxR8      \* |8 * (x * 32/pi - N)| rounded up, at most 4 (CosX86)

ASSUME Indices \subseteq 0..63 /\ MaxR8 \in 0..4

VARIABLES idx, r8, out

vars == <<idx, r8, out>>

None == [value |-> <<"none">>]

Zero == Atom("0")

Xmm == {"xmm0", "xmm1", "xmm2", "xmm3", "xmm4", "xmm5", "xmm6", "xmm7"}

(* The operands in memory, 16 bytes from their address (a scalar          *)
(* instruction reads the low 8): the polynomial coefficients at 2048 to   *)
(* 2096 (sin coefficient low, cos coefficient high), P_3 at 2144, and the *)
(* fields C_hl, S_hi, S_lo, sigma of the selected entry at (%eax) + 0, 8,  *)
(* 16 and 24.                                                              *)
Mem(m) ==
  CASE m = "2048(%ebx)" -> <<Atom("a1"), Atom("b1")>>
    [] m = "2064(%ebx)" -> <<Atom("a2"), Atom("b2")>>
    [] m = "2080(%ebx)" -> <<Atom("a3"), Atom("b3")>>
    [] m = "2096(%ebx)" -> <<Atom("a4"), Atom("b4")>>
    [] m = "2144(%ebx)" -> <<Atom("P_3"), Zero>>
    [] m = "(%eax)"     -> <<Atom("C_hl"), Atom("S_hi")>>
    [] m = "8(%eax)"    -> <<Atom("S_hi"), Atom("S_lo")>>
    [] m = "16(%eax)"   -> <<Atom("S_lo"), Atom("sigma")>>
    [] m = "24(%eax)"   -> <<Atom("sigma"), Atom("next_C_hl")>>

(* The registers at line 218, as lines 201-217 leave them: x loaded by    *)
(* movsd (high lane cleared), N converted into the low lane of xmm1, whose *)
(* high lane holds 0 + 0.5, P_2 in both lanes of xmm2, P_1 in xmm3, the   *)
(* sign of x in xmm4 and <<copysign(0.5, x), 0.5>> in xmm5.                *)
Regs0 ==
  [reg \in Xmm |->
     CASE reg = "xmm0" -> <<Atom("x"), Zero>>
       [] reg = "xmm1" -> <<Atom("N"), Add(Zero, Atom("half"))>>
       [] reg = "xmm2" -> <<Atom("P_2"), Atom("P_2")>>
       [] reg = "xmm3" -> <<Atom("P_1"), Zero>>
       [] reg = "xmm4" -> <<Atom("sign_x"), Zero>>
       [] reg = "xmm5" -> <<Atom("signed_half"), Atom("half")>>
       [] OTHER        -> <<Undef(reg), Undef(reg)>>]

Op(name) == CASE name \in {"mulsd", "mulpd"} -> "*"
              [] name \in {"addsd", "addpd"} -> "+"
              [] name \in {"subsd", "subpd"} -> "-"

(* One instruction: the scalar operations write the low lane only, movsd  *)
(* from memory clears the high lane, the packed operations work on both   *)
(* lanes, unpcklpd and unpckhpd pair the low or the high lanes.            *)
Exec(regs, ins) ==
  LET op  == ins[1]
      src == IF ins[2] \in Xmm THEN regs[ins[2]] ELSE Mem(ins[2])
      d   == ins[3]
      dst == regs[d]
      new ==
        CASE op = "movapd"   -> src
          [] op = "movsd"    -> <<src[1], Zero>>
          [] op = "unpcklpd" -> <<dst[1], src[1]>>
          [] op = "unpckhpd" -> <<dst[2], src[2]>>
          [] op \in {"mulsd", "addsd", "subsd"} ->
               <<<<Op(op), dst[1], src[1]>>, dst[2]>>
          [] op \in {"mulpd", "addpd", "subpd"} ->
               <<<<Op(op), dst[1], src[1]>>, <<Op(op), dst[2], src[2]>>>>
  IN  [regs EXCEPT ![d] = new]

(* Mutant: the load of the second coefficient pair (line 237) is left out. *)
Reduce_no_xmm6_load == <<
  <<"mulsd", "xmm1", "xmm3">>, <<"unpcklpd", "xmm1", "xmm1">>, <<"movapd", "xmm0", "xmm4">>,
  <<"movapd", "2096(%ebx)", "xmm5">>, <<"mulpd", "xmm1", "xmm2">>, <<"subsd", "xmm3", "xmm0">>,
  <<"mulsd", "2144(%ebx)", "xmm1">>, <<"subsd", "xmm3", "xmm4">>, <<"movsd", "8(%eax)", "xmm7">>,
  <<"unpcklpd", "xmm0", "xmm0">>, <<"movapd", "xmm4", "xmm3">>, <<"subsd", "xmm2", "xmm4">>,
  <<"mulpd", "xmm0", "xmm5">>, <<"subpd", "xmm2", "xmm0">>,
  <<"mulsd", "xmm4", "xmm7">>, <<"subsd", "xmm4", "xmm3">>, <<"mulpd", "xmm0", "xmm5">>,
  <<"mulpd", "xmm0", "xmm0">>, <<"subsd", "xmm2", "xmm3">>, <<"movapd", "(%eax)", "xmm2">>,
  <<"subsd", "xmm3", "xmm1">> >>

(* Lines 218-244 without the integer instructions (220, 222, 224-226):    *)
(* r1 = x - N * P_1, r = r1 - N * P_2, the correction c, r^2 and the      *)
(* first polynomial products.                                              *)
Reduce == <<
  <<"mulsd", "xmm1", "xmm3">>, <<"unpcklpd", "xmm1", "xmm1">>, <<"movapd", "xmm0", "xmm4">>,
  <<"movapd", "2096(%ebx)", "xmm5">>, <<"mulpd", "xmm1", "xmm2">>, <<"subsd", "xmm3", "xmm0">>,
  <<"mulsd", "2144(%ebx)", "xmm1">>, <<"subsd", "xmm3", "xmm4">>, <<"movsd", "8(%eax)", "xmm7">>,
  <<"unpcklpd", "xmm0", "xmm0">>, <<"movapd", "xmm4", "xmm3">>, <<"subsd", "xmm2", "xmm4">>,
  <<"mulpd", "xmm0", "xmm5">>, <<"subpd", "xmm2", "xmm0">>, <<"movapd", "2064(%ebx)", "xmm6">>,
  <<"mulsd", "xmm4", "xmm7">>, <<"subsd", "xmm4", "xmm3">>, <<"mulpd", "xmm0", "xmm5">>,
  <<"mulpd", "xmm0", "xmm0">>, <<"subsd", "xmm2", "xmm3">>, <<"movapd", "(%eax)", "xmm2">>,
  <<"subsd", "xmm3", "xmm1">> >>

(* Lines 245-262: C_hl + sigma, the factor of c, sigma * r and C_hl * r,   *)
(* the polynomials, res_int = sigma * r + S_hi and res_hi.                 *)
Products == <<
  <<"movsd", "24(%eax)", "xmm3">>, <<"addsd", "xmm3", "xmm2">>,
  <<"subsd", "xmm2", "xmm7">>, <<"mulsd", "xmm4", "xmm2">>, <<"mulpd", "xmm0", "xmm6">>,
  <<"mulsd", "xmm4", "xmm3">>, <<"mulpd", "xmm0", "xmm2">>, <<"mulpd", "xmm0", "xmm0">>,
  <<"addpd", "2080(%ebx)", "xmm5">>, <<"mulsd", "(%eax)", "xmm4">>, <<"addpd", "2048(%ebx)", "xmm6">>,
  <<"mulpd", "xmm0", "xmm5">>, <<"movapd", "xmm3", "xmm0">>, <<"addsd", "8(%eax)", "xmm3">>,
  <<"mulpd", "xmm7", "xmm1">>, <<"movapd", "xmm4", "xmm7">>, <<"addsd", "xmm3", "xmm4">>,
  <<"addpd", "xmm5", "xmm6">> >>

(* Mutant: the first two-sum is taken with its operands in the other       *)
(* order, k0 = sigma * r - res_int and k2 = k0 + S_hi.                      *)
Sums_k0_from_rs == <<
  <<"movapd", "xmm0", "xmm5">>, <<"subsd", "xmm3", "xmm5">>,
  <<"subsd", "xmm4", "xmm3">>, <<"addsd", "16(%eax)", "xmm1">>, <<"mulpd", "xmm2", "xmm6">>,
  <<"addsd", "8(%eax)", "xmm5">>, <<"addsd", "xmm7", "xmm3">>, <<"addsd", "xmm5", "xmm1">>,
  <<"addsd", "xmm3", "xmm1">>, <<"addsd", "xmm6", "xmm1">>, <<"unpckhpd", "xmm6", "xmm6">>,
  <<"addsd", "xmm6", "xmm1">>, <<"addsd", "xmm1", "xmm4">> >>

(* Mutant: k3 adds res_hi (xmm4) where it should add C_hl * r (xmm7).      *)
Sums_k3_adds_res_hi == <<
  <<"movsd", "8(%eax)", "xmm5">>, <<"subsd", "xmm3", "xmm5">>,
  <<"subsd", "xmm4", "xmm3">>, <<"addsd", "16(%eax)", "xmm1">>, <<"mulpd", "xmm2", "xmm6">>,
  <<"addsd", "xmm0", "xmm5">>, <<"addsd", "xmm4", "xmm3">>, <<"addsd", "xmm5", "xmm1">>,
  <<"addsd", "xmm3", "xmm1">>, <<"addsd", "xmm6", "xmm1">>, <<"unpckhpd", "xmm6", "xmm6">>,
  <<"addsd", "xmm6", "xmm1">>, <<"addsd", "xmm1", "xmm4">> >>

(* Lines 263-275: the errors k0, k2 and k1, k3 of the two two-sums, the    *)
(* polynomial parts scaled, and the low part summed and added to res_hi.   *)
Sums == <<
  <<"movsd", "8(%eax)", "xmm5">>, <<"subsd", "xmm3", "xmm5">>,
  <<"subsd", "xmm4", "xmm3">>, <<"addsd", "16(%eax)", "xmm1">>, <<"mulpd", "xmm2", "xmm6">>,
  <<"addsd", "xmm0", "xmm5">>, <<"addsd", "xmm7", "xmm3">>, <<"addsd", "xmm5", "xmm1">>,
  <<"addsd", "xmm3", "xmm1">>, <<"addsd", "xmm6", "xmm1">>, <<"unpckhpd", "xmm6", "xmm6">>,
  <<"addsd", "xmm6", "xmm1">>, <<"addsd", "xmm1", "xmm4">> >>

Program == Reduce \o Products \o Sums

(* The instructions run in order, each on the registers the previous one  *)
(* left.                                                                    *)
RECURSIVE Run(_, _)
Run(regs, prog) ==
  IF prog = <<>> THEN regs ELSE Run(Exec(regs, Head(prog)), Tail(prog))

(* The double stored to (%esp) at line 276 and returned: the low lane of   *)
(* xmm4.                                                                    *)
Result == Run(Regs0, Program)["xmm4"][1]

Init ==
  /\ idx \in Indices
  /\ r8 \in -MaxR8 .. MaxR8
  /\ out = None

(* Lines 218-276 for the entry at (%eax) = Table[idx + 1].                 *)
Evaluate ==
  /\ out = None
  /\ out' = [value |-> Result]
  /\ UNCHANGED <<idx, r8>>

Next == Evaluate

Spec == Init /\ [][Next]_vars

-----------------------------------------------------------------------------
(* The evaluator of section 4.4 of the spec, on the reduction of 4.2.      *)

X == Atom("x")
N == Atom("N")
C_hl == Atom("C_hl")
S_hi == Atom("S_hi")
S_lo == Atom("S_lo")
Sigma == Atom("sigma")

R1 == Sub(X, Mul(N, Atom("P_1")))
R == Sub(R1, Mul(N, Atom("P_2")))
C == Sub(Sub(Sub(R1, R), Mul(N, Atom("P_2"))), Mul(N, Atom("P_3")))
Corr == Add(S_lo, Mul(C, Sub(Add(C_hl, Sigma), Mul(S_hi, R))))
Rs == Mul(Sigma, R)
ResInt == Add(S_hi, Rs)
K0 == Sub(S_hi, ResInt)
K2 == Add(K0, Rs)
Med == Mul(C_hl, R)
ResHi == Add(ResInt, Med)
K1 == Sub(ResInt, ResHi)
K3 == Add(K1, Med)

(* The factors the spec's pols multiplies cos(r) - 1 and sin(r) - r by,   *)
(* with the powers of r the polynomials in r^2 leave over.                 *)
SinFactor == Mul(Mul(Add(C_hl, Sigma), R), Mul(R, R))
CosFactor == Mul(S_hi, Mul(R, R))
SinCoeffs == {Atom("a1"), Atom("a2"), Atom("a3"), Atom("a4")}
CosCoeffs == {Atom("b1"), Atom("b2"), Atom("b3"), Atom("b4")}

(* Built from the given terms (up to Same) by operations.                  *)
RECURSIVE BuiltFromSame(_, _)
BuiltFromSame(t, ts) ==
  \/ \E u \in ts : Same(t, u)
  \/ IsOp(t) /\ BuiltFromSame(t[2], ts) /\ BuiltFromSame(t[3], ts)

(* f times a polynomial in r with coefficients from cs.                    *)
PolyTimes(t, f, cs) ==
  /\ IsOp(t) /\ t[1] = "*"
  /\ \E i \in {2, 3} : Same(t[i], f) /\ BuiltFromSame(t[5 - i], cs \cup {R, R1})

(* The summands of the low part of a result res_hi + res_lo.               *)
LowSummands(t) == LeftSummands(t[3])

-----------------------------------------------------------------------------
(* Bounds on the values of terms, in units of 2^-12, for the entry idx and *)
(* |r| <= (|r8| + 1) / 8 * pi/32 (at most pi/64); pi/32 is 402.1 units.   *)

Unit == 4096

Abs(v) == IF v < 0 THEN -v ELSE v

(* <<lo, hi>> with lo <= d <= hi, from the sign, exponent and the 20       *)
(* fraction bits of the high word (values below 256).                      *)
DoubleRange(d) ==
  LET hw  == IF d[2] < 0 THEN d[2] + 2147483647 + 1 ELSE d[2]
      e   == hw \div 1048576
      m   == 1048576 + (hw % 1048576)
      sh  == 1031 - e
      mag == IF e = 0 THEN IF hw = 0 /\ d[1] = 0 THEN <<0, 0>> ELSE <<0, 1>>
             ELSE IF sh > 30 THEN <<0, 1>>
             ELSE <<m \div 2^sh, m \div 2^sh + 1>>
  IN  IF d[2] < 0 THEN <<-mag[2], -mag[1]>> ELSE mag

EntryField == [name \in {"C_hl", "S_hi", "S_lo", "sigma"} |->
                 CASE name = "C_hl" -> 1 [] name = "S_hi" -> 2
                   [] name = "S_lo" -> 3 [] name = "sigma" -> 4]

RBound == 51 * (IF Abs(r8) + 1 < 4 THEN Abs(r8) + 1 ELSE 4) + 1

(* An exact zero: a zero field of the entry, or a product with one.        *)
RECURSIVE IsZero(_)
IsZero(t) ==
  IF IsOp(t) THEN t[1] = "*" /\ (IsZero(t[2]) \/ IsZero(t[3]))
  ELSE t[1] \in DOMAIN EntryField
       /\ DoubleRange(Table[idx + 1][EntryField[t[1]]]) = <<0, 0>>

RECURSIVE Bounds(_)
Bounds(t) ==
  IF Same(t, R) THEN <<-RBound, RBound>>
  ELSE IF ~IsOp(t)
    THEN IF t[1] \in DOMAIN EntryField
           THEN DoubleRange(Table[idx + 1][EntryField[t[1]]])
           ELSE <<-1048576, 1048576>>
  ELSE LET a == Bounds(t[2])
           b == Bounds(t[3])
           ps == {a[1] * b[1], a[1] * b[2], a[2] * b[1], a[2] * b[2]}
       IN  CASE t[1] = "+" -> <<a[1] + b[1] - 1, a[2] + b[2] + 1>>
             [] t[1] = "-" -> <<a[1] - b[2] - 1, a[2] - b[1] + 1>>
             [] t[1] = "*" -> <<Min(ps) \div Unit - 1, -((-Max(ps)) \div Unit) + 1>>

MinAbs(i) == IF i[1] > 0 THEN i[1] ELSE IF i[2] < 0 THEN -i[2] ELSE 0
MaxAbs(i) == IF Abs(i[1]) > Abs(i[2]) THEN Abs(i[1]) ELSE Abs(i[2])

(* The operands <<a, b>> of every two-sum s = a + b, e = (a - s) + b the   *)
(* code computes.                                                           *)
TwoSums(t) ==
  {<<u[2][2], u[3]>> :
     u \in {v \in Subterms(t) :
              /\ IsOp(v) /\ v[1] = "+" /\ IsOp(v[2]) /\ v[2][1] = "-"
              /\ v[2][3] \in {Add(v[2][2], v[3]), Add(v[3], v[2][2])}}}

-----------------------------------------------------------------------------
(* Properties.                                                             *)

(* The registers and memory operands the code reads; Undef marks a         *)
(* register read before any instruction wrote it.                          *)
Inputs ==
  {X, N, C_hl, S_hi, S_lo, Sigma, Atom("0"), Atom("P_1"), Atom("P_2"),
   Atom("P_3")} \cup SinCoeffs \cup CosCoeffs

(* The result is computed from x, N, the entry and the constants only:     *)
(* no instruction reads a register before one of lines 201-275 wrote it.   *)
TypeOK ==
  /\ idx \in Indices /\ r8 \in -MaxR8 .. MaxR8
  /\ out = None \/ (DOMAIN out = {"value"} /\ BuiltFrom(out.value, Inputs))

(* The 53 instructions compute what section 4.4 specifies: res_hi =       *)
(* (S_hi + sigma * r) + C_hl * r, plus a low part that adds exactly once   *)
(* each of corr = S_lo + c * ((C_hl + sigma) - S_hi * r), the errors k2    *)
(* and k3 of the two two-sums, (C_hl + sigma) * r^3 times a polynomial of  *)
(* the sin coefficients (low lanes) and S_hi * r^2 times one of the cos    *)
(* coefficients (high lanes), with r and c as section 4.2 reduces x.  Up   *)
(* to the order of the operands of + and *, and the sign of both factors  *)
(* of c * (...), which the code computes as (-c) * (S_hi * r - ...).       *)
EvaluatorComputesSpec ==
  out # None =>
    LET t == out.value
        s == LowSummands(t)
        errors == {Corr[3], S_lo, K2, K3}
    IN  /\ IsOp(t) /\ t[1] = "+" /\ Same(t[2], ResHi)
        /\ Len(s) = 6
        /\ \E i, j \in 1..6 :
             /\ i # j
             /\ PolyTimes(s[i], SinFactor, SinCoeffs)
             /\ PolyTimes(s[j], CosFactor, CosCoeffs)
             /\ {Canonical(s[k]) : k \in (1..6) \ {i, j}}
                  = {Canonical(e) : e \in errors}

(* Every two-sum of the code (k0, k2 after res_int = sigma * r + S_hi,    *)
(* k1, k3 after res_hi = C_hl * r + res_int) is exact: e = (a - s) + b is  *)
(* the rounding error of s only if |a| >= |b| or one of them is zero, and  *)
(* this holds for the fields of every entry and every r the reduction can  *)
(* leave.  Section 4.4 calls every such step exact.                        *)
TwoSumsExact ==
  out # None =>
    /\ TwoSums(out.value) # {}
    /\ \A p \in TwoSums(out.value) :
         IsZero(p[1]) \/ IsZero(p[2]) \/ MinAbs(Bounds(p[1])) >= MaxAbs(Bounds(p[2]))

(* Section 4.4 of the spec lists the low part as res_lo = pols + corr +   *)
(* k1 + k3 ("k2 folded in where applicable"): the summands the code adds   *)
(* at lines 270-275 include k1 = res_int - res_hi.                          *)
ResLoAsSpecified ==
  out # None => \E i \in DOMAIN LowSummands(out.value) : Same(LowSummands(out.value)[i], K1)

=============================================================================
